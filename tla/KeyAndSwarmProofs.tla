--------------------------- MODULE KeyAndSwarmProofs -------------------------
(***************************************************************************)
(* Two components that share no state.                                     *)
(*                                                                         *)
(* KeyRotation: the key that the registry holds is usable, sweeps use keys *)
(* of the registry, and no signer has two pending rounds, for any number   *)
(* of signers, threshold, window and blocks.  RowsInv says how the rows of *)
(* one signer lie, TipsInv how they relate to the tips, HeldInv that what  *)
(* one signer verifies all signers hold, and TenureInv which key a tenure  *)
(* works with in each of its phases.                                       *)
(*                                                                         *)
(* P2pSwarm: the bootstrap behaviour's book of connections agrees with the *)
(* connections that are open, for any peers, seeds and number of stored    *)
(* peers.  It needs that no two dials or connections share an id (IdsOK)   *)
(* and that the queue of dials holds only ids that are still to be used    *)
(* (PendingDialsAreLive).                                                  *)
(***************************************************************************)
EXTENDS KeyRotation, P2pSwarm, FiniteSetTheorems, WellFoundedInduction, TLAPS

\* A pending row is the last one: the others of its signer are older.
RowsInv ==
    \A s \in KeySigners, k, j \in Keys :
        shares[s][k] = "unverified" /\ j > k => shares[s][j] = "none"

\* Rows and rounds belong to tips that have been processed, and a signer that
\* has joined a round has no other pending one until it stores its shares.
TipsInv ==
    /\ \A s \in KeySigners : tip[s] <= height
    /\ \A s \in KeySigners, k \in Keys : shares[s][k] # "none" => k <= tip[s]
    /\ \A h \in begun, s \in KeySigners :
          /\ h <= tip[s]
          /\ tip[s] = h /\ shares[s][h] = "none" =>
                \A k \in Keys : shares[s][k] # "unverified"

\* Every signer holds its share of a key that is being verified or that one
\* signer has verified.
HeldInv ==
    \A k \in Keys :
        \/ \E s \in KeySigners : shares[s][k] = "verified"
        \/ \E h \in Heights : verifying[h] = k
        => \A t \in KeySigners : shares[t][k] # "none"

\* What signers have read of the registry, and tenures of the signers, are keys
\* of the registry.
InfoInv ==
    /\ registry # 0 => registry \in rotated
    /\ \A s \in KeySigners : info[s] # 0 => info[s] \in rotated

\* A tenure works with the registry key it has seen, or with the one that its
\* DKG round has made.  It gets to the sweeps with the latter only if that has
\* been rotated to, or when all the signers have left its tip.
TenureAt(h) ==
    /\ phase[h] \in {"verify", "verify_only", "sign"} => last_dkg[h] # 0
    /\ phase[h] \in {"dkg", "fallback"} /\ seen[h] # 0 => key[h] \in rotated
    /\ phase[h] = "rotate" /\ seen[h] # 0 =>
          \/ key[h] \in rotated
          \/ key[h] = h /\ \A s \in KeySigners : shares[s][h] # "none"
    /\ phase[h] = "sweep" \/ (phase[h] = "verify_only" /\ seen[h] # 0) =>
          key[h] \in rotated \/ \A s \in KeySigners : h < tip[s]

\* All tenures work with keys of their phases.
TenureInv == \A h \in Heights : TenureAt(h)

\* The inductive invariant.
IInv ==
    /\ TypeOK
    /\ RowsInv /\ TipsInv /\ HeldInv /\ InfoInv /\ TenureInv
    /\ RegistryKeyIsUsable /\ SweepsUseRegistryKeys
-----------------------------------------------------------------------------
(* The rows of a signer.                                                   *)

\* A set of numbers below a bound has a greatest one, which Max chooses.
LEMMA MaxBelow ==
    ASSUME NEW N \in Nat, NEW S \in SUBSET (0 .. N), S # {}
    PROVE  Max(S) \in S /\ \A y \in S : y <= Max(S)
<1> DEFINE T == {N - x : x \in S}
<1>1. T \subseteq Nat /\ T # {}
  <2>1. \A x \in S : N - x \in Nat
    OBVIOUS
  <2>2. T \subseteq Nat
    BY <2>1
  <2>3. PICK x \in S : TRUE
    BY Zenon
  <2>4. N - x \in T
    OBVIOUS
  <2>. QED  BY <2>2, <2>4
<1>2. PICK m \in T : \A y \in T : ~(<<y, m>> \in OpToRel(<, Nat))
  BY <1>1, NatLessThanWellFounded, WFMin, Zenon
<1>3. PICK x \in S : m = N - x
  OBVIOUS
<1>4. \A y \in S : x >= y
  <2> SUFFICES ASSUME NEW y \in S, y > x PROVE FALSE
    BY <1>3
  <2>1. N - y \in T /\ N - y < m /\ N - y \in Nat /\ m \in Nat
    BY <1>3
  <2>2. <<N - y, m>> \in OpToRel(<, Nat)
    BY <2>1 DEF OpToRel
  <2>. QED BY <2>1, <2>2, <1>2, Zenon
<1>. QED BY <1>4, Zenon DEF Max

\* LastRow gives the highest of some rows, or 0 if there are none.
LEMMA LastRowIsLast ==
    ASSUME KeyRotationConstants, NEW S \in SUBSET Keys
    PROVE  /\ LastRow(S) \in 0 .. MaxKeyHeight
           /\ LastRow(S) # 0 => LastRow(S) \in S
           /\ \A j \in S : LastRow(S) # 0 /\ j <= LastRow(S)
<1>1. CASE S = {}
  BY <1>1 DEF LastRow, KeyRotationConstants
<1>2. CASE S # {}
  <2>1. MaxKeyHeight \in Nat /\ S \in SUBSET (0 .. MaxKeyHeight)
    BY DEF KeyRotationConstants, Keys, Heights
  <2>2. Max(S) \in S /\ \A y \in S : y <= Max(S)
    BY <1>2, <2>1, MaxBelow, Zenon
  <2>3. LastRow(S) = Max(S)
    BY <1>2 DEF LastRow
  <2> DEFINE m == LastRow(S)
  <2>4. m \in S /\ \A y \in S : y <= m
    BY <2>2, <2>3
  <2> HIDE DEF m
  <2>5. m \in 1 .. MaxKeyHeight
    BY <2>1, <2>4 DEF Keys, Heights
  <2>6. m \in 0 .. MaxKeyHeight /\ m # 0
    BY <2>1, <2>5
  <2>. QED  BY <2>4, <2>6 DEF m
<1>. QED  BY <1>1, <1>2

\* get_latest_encrypted_dkg_shares finds the last row that there is.
LEMMA LatestRow ==
    ASSUME KeyRotationConstants, TypeOK, NEW s \in KeySigners,
           NEW k, k = get_latest_encrypted_dkg_shares(s)
    PROVE  /\ k \in 0 .. MaxKeyHeight
           /\ k # 0 => k \in Keys /\ shares[s][k] # "none"
           /\ \A j \in Keys : shares[s][j] # "none" => k # 0 /\ j <= k
<1> DEFINE S == Rows(s, {"unverified", "verified", "failed"})
<1>1. S \in SUBSET Keys /\ \A j \in Keys : j \in S <=> shares[s][j] # "none"
  BY DEF Rows, TypeOK, Status
<1>2. k = LastRow(S)
  BY DEF get_latest_encrypted_dkg_shares
<1> HIDE DEF S
<1>. QED  BY <1>1, <1>2, LastRowIsLast DEF Keys, Heights

\* A signer that should run DKG has no pending row.
LEMMA NoPendingRow ==
    ASSUME KeyRotationConstants, TypeOK, RowsInv,
           NEW s \in KeySigners, NEW h \in Heights, should_run_dkg(s, h)
    PROVE  \A k \in Keys : shares[s][k] # "unverified"
<1> DEFINE S == Rows(s, {"unverified", "verified"})
           k == get_latest_non_failed_dkg_shares(s)
<1>1. S \in SUBSET Keys /\ \A j \in Keys : j \in S <=> shares[s][j] \in {"unverified", "verified"}
  BY DEF Rows
<1>2. k = LastRow(S) /\ (k # 0 => shares[s][k] # "unverified")
  BY DEF get_latest_non_failed_dkg_shares, should_run_dkg
<1> HIDE DEF S, k
<1>3. SUFFICES ASSUME NEW j \in Keys, shares[s][j] = "unverified" PROVE FALSE
  OBVIOUS
<1>4. k # 0 /\ k \in S /\ j <= k
  BY <1>1, <1>2, <1>3, LastRowIsLast
<1>5. k \in Keys /\ (k > j => shares[s][k] = "none")
  BY <1>1, <1>3, <1>4 DEF RowsInv
<1>. QED  BY <1>1, <1>2, <1>3, <1>4, <1>5 DEF Keys, Heights


-----------------------------------------------------------------------------
(* Steps that change rows.                                                 *)

\* A step after which every stored row is still stored, and every verified one
\* still verified, leaves the registry's keys usable.
LEMMA UsableStable ==
    ASSUME KeyRotationConstants, RegistryKeyIsUsable,
           rotated' \cup submitted' \subseteq rotated \cup submitted,
           \A s \in KeySigners, k \in Keys :
               /\ shares[s][k] # "none" => shares'[s][k] # "none"
               /\ shares[s][k] = "verified" => shares'[s][k] = "verified",
           rotated \cup submitted \subseteq Keys
    PROVE  RegistryKeyIsUsable'
<1> SUFFICES ASSUME NEW k \in rotated' \cup submitted'
             PROVE  /\ Cardinality({s \in KeySigners : shares'[s][k] = "verified"}) >= KeyThreshold
                    /\ \A s \in KeySigners : shares'[s][k] # "none"
  BY DEF RegistryKeyIsUsable
<1> DEFINE V == {s \in KeySigners : shares[s][k] = "verified"}
           W == {s \in KeySigners : shares'[s][k] = "verified"}
<1>1. k \in Keys /\ Cardinality(V) >= KeyThreshold /\ \A s \in KeySigners : shares[s][k] # "none"
  BY DEF RegistryKeyIsUsable
<1>2. V \subseteq W /\ W \subseteq KeySigners /\ IsFiniteSet(KeySigners) /\ KeyThreshold \in Int
  BY <1>1 DEF KeyRotationConstants
<1> HIDE DEF V, W
<1>3. IsFiniteSet(W) /\ IsFiniteSet(V)
  BY <1>2, FS_Subset
<1>4. Cardinality(V) <= Cardinality(W) /\ Cardinality(V) \in Nat /\ Cardinality(W) \in Nat
  BY <1>2, <1>3, FS_Subset, FS_CardinalityType
<1>5. Cardinality(W) >= KeyThreshold
  BY <1>1, <1>2, <1>4
<1>. QED  BY <1>1, <1>5 DEF W

\* Two rows of a signer that are pending are the same.
LEMMA OnePending ==
    ASSUME KeyRotationConstants, RowsInv
    PROVE  OnePendingRound
<1> SUFFICES ASSUME NEW s \in KeySigners
             PROVE  Cardinality(Rows(s, {"unverified"})) <= 1
  BY DEF OnePendingRound
<1> DEFINE S == Rows(s, {"unverified"})
<1>1. \A k, j \in S : k = j
  BY DEF Rows, RowsInv, Keys, Heights, KeyRotationConstants
<1>2. CASE S = {}
  BY <1>2, FS_EmptySet
<1>3. CASE S # {}
  <2>1. PICK k \in S : TRUE
    BY <1>3
  <2>2. S = {k}
    BY <1>1, <2>1
  <2>3. Cardinality({k}) = 1
    BY FS_Singleton, Zenon
  <2>. QED  BY <2>2, <2>3
<1>. QED  BY <1>2, <1>3

\* The block observer moves a tip forward and may fail the last, pending, row.
LEMMA ObserveBlockStep ==
    ASSUME KeyRotationConstants, IInv, NEW s \in KeySigners, ObserveBlock(s)
    PROVE  IInv'
<1> DEFINE k == get_latest_encrypted_dkg_shares(s)
<1>1. /\ k \in 0 .. MaxKeyHeight
      /\ k # 0 => k \in Keys
  BY LatestRow DEF IInv
<1>2. /\ \A t \in KeySigners, j \in Keys :
            \/ shares'[t][j] = shares[t][j]
            \/ shares[t][j] = "unverified" /\ shares'[t][j] = "failed"
      /\ shares' \in [KeySigners -> [Keys -> Status]]
  BY <1>1 DEF ObserveBlock, check_pending_dkg_shares, revoke_dkg_shares, IInv, TypeOK, Status
<1> HIDE DEF k
<1>3. TypeOK'
  BY <1>2, Zenon DEF ObserveBlock, IInv, TypeOK
<1>4. RowsInv'
  BY <1>2 DEF IInv, RowsInv
<1>5. \A t \in KeySigners : tip[t] <= tip'[t] /\ tip'[t] <= height /\ tip[t] \in Int /\ tip'[t] \in Int
  BY DEF ObserveBlock, IInv, TypeOK, TipsInv, Heights
<1>6. TipsInv'
  <2>1. \A t \in KeySigners, j \in Keys : shares'[t][j] # "none" => j <= tip'[t]
    BY <1>2, <1>5 DEF IInv, TipsInv, Keys, Heights
  <2>2. ASSUME NEW h \in begun, NEW t \in KeySigners
        PROVE  /\ h <= tip'[t]
               /\ tip'[t] = h /\ shares'[t][h] = "none" =>
                     \A j \in Keys : shares'[t][j] # "unverified"
    <3>1. h \in Heights /\ h <= tip[t]
      BY DEF IInv, TipsInv, TypeOK
    <3>2. h <= tip'[t]
      BY <3>1, <1>5 DEF Heights
    <3>3. tip'[t] = h => tip[t] = h
      BY <3>1, <1>5 DEF ObserveBlock, IInv, TypeOK, Heights
    <3>4. tip[t] = h /\ shares'[t][h] = "none" => \A j \in Keys : shares'[t][j] # "unverified"
      BY <1>2, <3>1 DEF IInv, TipsInv, Keys
    <3>. QED  BY <3>2, <3>3, <3>4
  <2>3. begun' = begun /\ height' = height
    BY DEF ObserveBlock
  <2>. QED  BY <1>5, <2>1, <2>2, <2>3 DEF TipsInv
<1>7. HeldInv'
  BY <1>2 DEF IInv, HeldInv, ObserveBlock
<1>8. InfoInv'
  BY DEF IInv, InfoInv, ObserveBlock, TypeOK
<1>9. TenureInv'
  <2>1. \A h \in Heights :
           (\A t \in KeySigners : shares[t][h] # "none") => \A t \in KeySigners : shares'[t][h] # "none"
    BY <1>2 DEF Keys
  <2>2. \A h \in Heights : (\A t \in KeySigners : h < tip[t]) => \A t \in KeySigners : h < tip'[t]
    BY <1>5 DEF Heights
  <2>. QED  BY <2>1, <2>2 DEF IInv, TenureInv, TenureAt, ObserveBlock
<1>10. RegistryKeyIsUsable'
  BY <1>2, UsableStable, Zenon DEF IInv, TypeOK, ObserveBlock
<1>11. SweepsUseRegistryKeys'
  BY DEF IInv, SweepsUseRegistryKeys, ObserveBlock
<1>. QED  BY <1>3, <1>4, <1>6, <1>7, <1>8, <1>9, <1>10, <1>11 DEF IInv


\* A signer stores its shares at the end of a round that it joined without
\* another pending row, so the new row is its last and its only pending one.
LEMMA StoreSharesStep ==
    ASSUME KeyRotationConstants, IInv,
           NEW s \in KeySigners, NEW h \in Heights, StoreShares(s, h)
    PROVE  IInv'
<1>1. /\ \A t \in KeySigners, j \in Keys :
            shares'[t][j] = IF t = s /\ j = h THEN "unverified" ELSE shares[t][j]
      /\ shares' \in [KeySigners -> [Keys -> Status]]
  BY DEF StoreShares, write_encrypted_dkg_shares, IInv, TypeOK, Status, Keys
<1>2. /\ h \in begun /\ tip[s] = h /\ shares[s][h] = "none" /\ h \in Keys
      /\ \A j \in Keys : shares[s][j] # "unverified"
      /\ \A j \in Keys : shares[s][j] # "none" => j <= h
  BY DEF StoreShares, IInv, TipsInv, Keys
<1>3. TypeOK'
  BY <1>1 DEF StoreShares, IInv, TypeOK, Keys
<1>4. RowsInv'
  BY <1>1, <1>2 DEF IInv, RowsInv, Keys, Heights
<1>5. TipsInv'
  <2>1. \A t \in KeySigners, j \in Keys : shares'[t][j] # "none" => j <= tip[t]
    BY <1>1, <1>2 DEF IInv, TipsInv, Keys, Heights
  <2>2. ASSUME NEW g \in begun, NEW t \in KeySigners, tip[t] = g, shares'[t][g] = "none"
        PROVE  \A j \in Keys : shares'[t][j] # "unverified"
    BY <1>1, <1>2, <2>2 DEF IInv, TipsInv, TypeOK, Keys
  <2>. QED  BY <2>1, <2>2 DEF IInv, TipsInv, StoreShares
<1>6. HeldInv'
  BY <1>1 DEF IInv, HeldInv, StoreShares
<1>7. InfoInv'
  BY DEF IInv, InfoInv, StoreShares
<1>8. TenureInv'
  <2>1. \A g \in Heights :
           (\A t \in KeySigners : shares[t][g] # "none") => \A t \in KeySigners : shares'[t][g] # "none"
    BY <1>1 DEF Keys
  <2>. QED  BY <2>1 DEF IInv, TenureInv, TenureAt, StoreShares
<1>9. RegistryKeyIsUsable'
  BY <1>1, <1>2, UsableStable, Zenon DEF IInv, TypeOK, StoreShares
<1>10. SweepsUseRegistryKeys'
  BY Zenon DEF IInv, SweepsUseRegistryKeys, StoreShares
<1>. QED  BY <1>3, <1>4, <1>5, <1>6, <1>7, <1>8, <1>9, <1>10 DEF IInv

\* A signer verifies a key of a verification round, which all signers hold.
LEMMA VerificationSuccessStep ==
    ASSUME KeyRotationConstants, IInv,
           NEW s \in KeySigners, NEW h \in Heights, VerificationSuccess(s, h)
    PROVE  IInv'
<1> DEFINE k == verifying[h]
<1>1. k \in Keys /\ shares[s][k] = "unverified" /\ \A t \in KeySigners : shares[t][k] # "none"
  <2>1. k \in 0 .. MaxKeyHeight /\ k # 0 /\ shares[s][k] = "unverified"
    BY DEF VerificationSuccess, IInv, TypeOK
  <2>2. k \in Keys
    BY <2>1 DEF Keys, Heights, KeyRotationConstants
  <2>. QED  BY <2>1, <2>2 DEF IInv, HeldInv
<1>2. /\ \A t \in KeySigners, j \in Keys :
            shares'[t][j] = IF t = s /\ j = k THEN "verified" ELSE shares[t][j]
      /\ shares' \in [KeySigners -> [Keys -> Status]]
  BY <1>1 DEF VerificationSuccess, verify_dkg_shares, IInv, TypeOK, Status
<1> HIDE DEF k
<1>3. TypeOK'
  BY <1>2 DEF VerificationSuccess, IInv, TypeOK
<1>4. RowsInv'
  BY <1>1, <1>2 DEF IInv, RowsInv
<1>5. TipsInv'
  <2>1. \A t \in KeySigners, j \in Keys : shares'[t][j] # "none" => j <= tip[t]
    BY <1>1, <1>2 DEF IInv, TipsInv
  <2>2. ASSUME NEW g \in begun, NEW t \in KeySigners, tip[t] = g, shares'[t][g] = "none"
        PROVE  \A j \in Keys : shares'[t][j] # "unverified"
    <3>1. g \in Keys /\ shares[t][g] = "none"
      BY <1>1, <1>2, <2>2, Zenon DEF IInv, TypeOK, Keys
    <3>2. \A j \in Keys : shares[t][j] # "unverified"
      BY <2>2, <3>1 DEF IInv, TipsInv
    <3>. QED  BY <1>2, <3>2
  <2>. QED  BY <2>1, <2>2 DEF IInv, TipsInv, VerificationSuccess
<1>6. HeldInv'
  BY <1>1, <1>2 DEF IInv, HeldInv, VerificationSuccess
<1>7. InfoInv'
  BY DEF IInv, InfoInv, VerificationSuccess
<1>8. TenureInv'
  <2>1. \A g \in Heights :
           (\A t \in KeySigners : shares[t][g] # "none") => \A t \in KeySigners : shares'[t][g] # "none"
    BY <1>1, <1>2, Zenon DEF Keys
  <2>. QED  BY <2>1 DEF IInv, TenureInv, TenureAt, VerificationSuccess
<1>9. RegistryKeyIsUsable'
  BY <1>1, <1>2, UsableStable DEF IInv, TypeOK, VerificationSuccess
<1>10. SweepsUseRegistryKeys'
  BY DEF IInv, SweepsUseRegistryKeys, VerificationSuccess
<1>. QED  BY <1>3, <1>4, <1>5, <1>6, <1>7, <1>8, <1>9, <1>10 DEF IInv

-----------------------------------------------------------------------------
(* Steps of a tenure.                                                      *)

\* A tenure starts with the registry key that its coordinator has read.
LEMMA StartTenureStep ==
    ASSUME KeyRotationConstants, IInv,
           NEW c \in KeySigners, NEW h \in Heights, StartTenure(c, h)
    PROVE  IInv'
<1>1. get_latest_encrypted_dkg_shares(c) \in 0 .. MaxKeyHeight
  BY LatestRow DEF IInv
<1>2. TypeOK'
  <2>1. phase' \in [Heights -> {"idle", "dkg", "fallback", "rotate", "verify",
                                "verify_only", "sign", "sweep", "over"}]
    BY Zenon DEF StartTenure, Go, IInv, TypeOK
  <2>. QED  BY <1>1, <2>1, Zenon DEF StartTenure, IInv, TypeOK
<1>3. RowsInv' /\ TipsInv' /\ HeldInv' /\ InfoInv'
  BY DEF IInv, RowsInv, TipsInv, HeldInv, InfoInv, StartTenure
<1>4. TenureInv'
  <2> SUFFICES ASSUME NEW g \in Heights PROVE TenureAt(g)'
    BY DEF TenureInv
  <2>1. CASE g = h
    BY <2>1, Zenon DEF StartTenure, Go, IInv, TypeOK, InfoInv, TenureAt
  <2>2. CASE g # h
    BY <2>2 DEF StartTenure, Go, IInv, TypeOK, TenureInv, TenureAt
  <2>. QED  BY <2>1, <2>2
<1>5. RegistryKeyIsUsable' /\ SweepsUseRegistryKeys'
  BY Zenon DEF IInv, RegistryKeyIsUsable, SweepsUseRegistryKeys, StartTenure
<1>. QED  BY <1>2, <1>3, <1>4, <1>5 DEF IInv

\* All the signers join a round, and those that do have no pending row.
LEMMA DkgBeginStep ==
    ASSUME KeyRotationConstants, IInv, NEW h \in Heights, DkgBegin(h)
    PROVE  IInv'
<1>1. \A s \in KeySigners : tip[s] = h /\ \A k \in Keys : shares[s][k] # "unverified"
  BY NoPendingRow DEF DkgBegin, JoinsDkg, IInv
<1>2. TypeOK'
  BY DEF DkgBegin, IInv, TypeOK
<1>3. TipsInv'
  BY <1>1 DEF DkgBegin, IInv, TipsInv, Heights
<1>4. RowsInv' /\ HeldInv' /\ InfoInv' /\ TenureInv'
  BY DEF IInv, RowsInv, HeldInv, InfoInv, TenureInv, TenureAt, DkgBegin
<1>5. RegistryKeyIsUsable' /\ SweepsUseRegistryKeys'
  BY DEF IInv, RegistryKeyIsUsable, SweepsUseRegistryKeys, DkgBegin
<1>. QED  BY <1>2, <1>3, <1>4, <1>5 DEF IInv


\* The rest of a tenure changes no row, tip, round or registry entry.
Untouched ==
    UNCHANGED <<height, tip, shares, registry, rotated, configured, info, coordinator, begun>>

\* A step that only moves a tenure on keeps the invariant when the tenures, what
\* they verify and what they submit or sweep do.
LEMMA UntouchedStep ==
    ASSUME KeyRotationConstants, IInv, Untouched, TypeOK', TenureInv',
           HeldInv' \/ UNCHANGED verifying,
           RegistryKeyIsUsable' \/ UNCHANGED submitted,
           SweepsUseRegistryKeys' \/ UNCHANGED swept
    PROVE  IInv'
<1>1. RowsInv' /\ TipsInv' /\ InfoInv'
  BY DEF IInv, RowsInv, TipsInv, InfoInv, Untouched
<1>2. HeldInv'
  BY DEF IInv, HeldInv, Untouched
<1>3. RegistryKeyIsUsable'
  BY Zenon DEF IInv, RegistryKeyIsUsable, Untouched
<1>4. SweepsUseRegistryKeys'
  BY DEF IInv, SweepsUseRegistryKeys, Untouched
<1>. QED  BY <1>1, <1>2, <1>3, <1>4 DEF IInv

\* With a DKG round that all the signers completed, the tenure works with the
\* new key.
LEMMA DkgDoneStep ==
    ASSUME KeyRotationConstants, IInv, NEW h \in Heights, DkgDone(h)
    PROVE  IInv'
<1>1. TypeOK'
  <2>1. h \in 0 .. MaxKeyHeight
    BY DEF Heights, KeyRotationConstants
  <2>. QED  BY <2>1 DEF DkgDone, Go, IInv, TypeOK
<1>2. TenureInv'
  <2> SUFFICES ASSUME NEW g \in Heights PROVE TenureAt(g)'
    BY DEF TenureInv
  <2>1. CASE g = h
    BY <2>1 DEF DkgDone, Go, IInv, TypeOK, TenureAt
  <2>2. CASE g # h
    BY <2>2, Zenon DEF DkgDone, Go, IInv, TypeOK, TenureInv, TenureAt
  <2>. QED  BY <2>1, <2>2
<1>. QED  BY <1>1, <1>2, UntouchedStep DEF DkgDone, Untouched

\* After a DKG round that did not end the tenure falls back on the registry key.
LEMMA DkgTimeoutStep ==
    ASSUME KeyRotationConstants, IInv, NEW h \in Heights, DkgTimeout(h)
    PROVE  IInv'
<1>1. TypeOK'
  BY DEF DkgTimeout, Go, IInv, TypeOK
<1>2. TenureInv'
  <2> SUFFICES ASSUME NEW g \in Heights PROVE TenureAt(g)'
    BY DEF TenureInv
  <2>1. CASE g = h
    BY <2>1 DEF DkgTimeout, Go, IInv, TypeOK, TenureInv, TenureAt
  <2>2. CASE g # h
    BY <2>2 DEF DkgTimeout, Go, IInv, TypeOK, TenureInv, TenureAt
  <2>. QED  BY <2>1, <2>2
<1>. QED  BY <1>1, <1>2, UntouchedStep DEF DkgTimeout, Untouched

\* The coordinator goes on without a rotation only if its latest key is the one
\* of the registry, or if the window of pending shares is over.  If its tenure
\* made a key h, its latest key is not older: it is h itself, or a later one
\* that is in the registry, which all the signers hold and whose tip they have
\* all processed.
LEMMA CheckRotateKeyStep ==
    ASSUME KeyRotationConstants, IInv, NEW h \in Heights, CheckRotateKey(h)
    PROVE  IInv'
<1> DEFINE c == coordinator[h]
           k == get_latest_encrypted_dkg_shares(c)
<1>1. c \in KeySigners
  BY DEF IInv, TypeOK
<1>2. /\ k \in 0 .. MaxKeyHeight
      /\ k # 0 => k \in Keys /\ shares[c][k] # "none"
      /\ \A j \in Keys : shares[c][j] # "none" => k # 0 /\ j <= k
  <2> HIDE DEF c
  <2>1. KeyRotationConstants /\ TypeOK
    BY DEF IInv
  <2>. QED  BY <1>1, <2>1, LatestRow
<1>3. /\ phase[h] \in {"rotate", "fallback"}
      /\ last_dkg' = [last_dkg EXCEPT ![h] = k]
      /\ \/ phase' = [phase EXCEPT ![h] = "over"]
         \/ phase' = [phase EXCEPT ![h] = "verify"] /\ k # 0
         \/ phase' = [phase EXCEPT ![h] = "sign"] /\ k # 0
         \/ phase' = [phase EXCEPT ![h] = "verify_only"] /\ k # 0 /\ ~NeedsRotateKey(c, h)
         \/ phase' = [phase EXCEPT ![h] = "sweep"] /\ seen[h] # 0 /\ (k # 0 => ~NeedsRotateKey(c, h))
  BY Zenon DEF CheckRotateKey, Go
<1>4. UNCHANGED <<height, tip, shares, registry, rotated, configured, info,
                  coordinator, seen, key, begun, verifying, submitted, swept>>
  BY Zenon DEF CheckRotateKey
<1>5. k # 0 /\ ~NeedsRotateKey(c, h) => k = info[c] \/ h > k
  BY <1>2 DEF NeedsRotateKey, PastWindow, KeyRotationConstants, Heights
<1> HIDE DEF c, k
<1>6. TypeOK'
  BY <1>2, <1>3, <1>4, Zenon DEF IInv, TypeOK
<1>7. ASSUME seen[h] # 0, k # 0 => k = info[c] \/ h > k
      PROVE  key[h] \in rotated \/ \A s \in KeySigners : h < tip[s]
  <2>1. CASE phase[h] = "fallback" \/ key[h] \in rotated
    BY <1>7, <2>1 DEF IInv, TenureInv, TenureAt
  <2>2. CASE phase[h] = "rotate" /\ key[h] = h /\ \A s \in KeySigners : shares[s][h] # "none"
    <3>1. k # 0 /\ h <= k /\ h \in Keys
      BY <1>1, <1>2, <2>2 DEF Keys
    <3>2. k = info[c] /\ k \in rotated /\ k \in Keys
      BY <1>1, <1>2, <1>7, <3>1 DEF IInv, InfoInv, Keys, Heights
    <3>3. \A s \in KeySigners : k <= tip[s]
      BY <3>2, Zenon DEF IInv, RegistryKeyIsUsable, TipsInv
    <3>4. CASE k = h
      BY <2>2, <3>2, <3>4
    <3>5. CASE h < k
      <4>1. \A s \in KeySigners : tip[s] \in Int
        BY DEF IInv, TypeOK, Heights
      <4>. QED  BY <3>2, <3>3, <3>5, <4>1 DEF Keys, Heights
    <3>. QED  BY <3>1, <3>2, <3>4, <3>5 DEF Keys, Heights
  <2>. QED  BY <1>3, <1>7, <2>1, <2>2, Zenon DEF IInv, TenureInv, TenureAt
<1>8. TenureInv'
  <2> SUFFICES ASSUME NEW g \in Heights PROVE TenureAt(g)'
    BY DEF TenureInv
  <2>1. CASE g = h
    BY <1>3, <1>4, <1>5, <1>7, <2>1 DEF IInv, TypeOK, TenureAt
  <2>2. CASE g # h
    BY <1>3, <1>4, <2>2, Zenon DEF IInv, TypeOK, TenureInv, TenureAt
  <2>. QED  BY <2>1, <2>2
<1>. QED  BY <1>4, <1>6, <1>8, UntouchedStep DEF Untouched


\* All the signers of a verification round hold the key.
LEMMA VerificationBeginStep ==
    ASSUME KeyRotationConstants, IInv, NEW h \in Heights, VerificationBegin(h)
    PROVE  IInv'
<1>1. last_dkg[h] \in Keys
  <2>1. last_dkg[h] \in 0 .. MaxKeyHeight /\ last_dkg[h] # 0
    BY DEF IInv, TypeOK, TenureInv, TenureAt, VerificationBegin
  <2>. QED  BY <2>1 DEF Keys, Heights, KeyRotationConstants
<1>2. \A s \in KeySigners : shares[s][last_dkg[h]] # "none"
  <2>1. SUFFICES ASSUME NEW s \in KeySigners PROVE shares[s][last_dkg[h]] # "none"
    OBVIOUS
  <2>2. KeyRotationConstants /\ TypeOK
    BY DEF IInv
  <2>3. get_latest_encrypted_dkg_shares(s) = last_dkg[h]
    BY DEF VerificationBegin, AcceptsVerification
  <2>4. last_dkg[h] # 0
    BY <1>1 DEF Keys, Heights
  <2>. QED  BY <2>2, <2>3, <2>4, LatestRow
<1>3. TypeOK' /\ TenureInv'
  BY DEF VerificationBegin, IInv, TypeOK, TenureInv, TenureAt
<1>4. HeldInv'
  BY <1>1, <1>2, Zenon DEF VerificationBegin, IInv, TypeOK, HeldInv
<1>. QED  BY <1>3, <1>4, UntouchedStep, Zenon DEF VerificationBegin, Untouched

\* After the verification round the tenure goes on to the rotation, or without one
\* to the sweeps.
LEMMA VerificationDoneStep ==
    ASSUME KeyRotationConstants, IInv, NEW h \in Heights, VerificationDone(h)
    PROVE  IInv'
<1>1. TypeOK'
  BY Zenon DEF VerificationDone, Go, IInv, TypeOK
<1>2. TenureInv'
  <2> SUFFICES ASSUME NEW g \in Heights PROVE TenureAt(g)'
    BY DEF TenureInv
  <2>1. CASE g = h
    BY <2>1 DEF VerificationDone, Go, IInv, TypeOK, TenureInv, TenureAt
  <2>2. CASE g # h
    BY <2>2 DEF VerificationDone, Go, IInv, TypeOK, TenureInv, TenureAt
  <2>. QED  BY <2>1, <2>2
<1>. QED  BY <1>1, <1>2, UntouchedStep, Zenon DEF VerificationDone, Untouched

\* A tenure one of whose rounds of signatures times out ends without a sweep.
LEMMA SigningTimeoutStep ==
    ASSUME KeyRotationConstants, IInv, NEW h \in Heights, SigningTimeout(h)
    PROVE  IInv'
<1>1. TypeOK'
  BY DEF SigningTimeout, Go, IInv, TypeOK
<1>2. TenureInv'
  BY DEF SigningTimeout, Go, IInv, TypeOK, TenureInv, TenureAt
<1>. QED  BY <1>1, <1>2, UntouchedStep DEF SigningTimeout, Untouched

\* The quorum that signs a rotation has verified the key, and as it is not
\* empty all the signers hold the key.
LEMMA SignRotateKeysStep ==
    ASSUME KeyRotationConstants, IInv, NEW h \in Heights, SignRotateKeys(h)
    PROVE  IInv'
<1> DEFINE k == last_dkg[h]
           Q == {s \in KeySigners : tip[s] = h /\ ValidatesRotateKeys(s, k)}
           V == {s \in KeySigners : shares[s][k] = "verified"}
<1>1. k \in Keys
  <2>1. k \in 0 .. MaxKeyHeight /\ k # 0
    BY DEF IInv, TypeOK, TenureInv, TenureAt, SignRotateKeys
  <2>. QED  BY <2>1 DEF Keys, Heights, KeyRotationConstants
<1>2. /\ phase[h] = "sign" /\ Cardinality(Q) >= KeyThreshold
      /\ submitted' = submitted \cup {k} /\ phase' = [phase EXCEPT ![h] = "over"]
      /\ UNCHANGED <<height, tip, shares, registry, rotated, configured, info,
                     coordinator, seen, key, last_dkg, begun, verifying, swept>>
  BY Zenon DEF SignRotateKeys, Go
<1>3. Q \subseteq V /\ V \subseteq KeySigners /\ IsFiniteSet(KeySigners)
      /\ KeyThreshold \in Int /\ KeyThreshold >= 1
  <2>1. KeyThreshold \in Int /\ KeyThreshold >= 1 /\ IsFiniteSet(KeySigners)
    <3>1. Cardinality(KeySigners) \in Nat
      BY FS_CardinalityType DEF KeyRotationConstants
    <3>. QED  BY <3>1 DEF KeyRotationConstants
  <2>. QED  BY <2>1 DEF ValidatesRotateKeys
<1> HIDE DEF k, Q
<1>4. Cardinality(V) >= KeyThreshold /\ V # {}
  <2> HIDE DEF V
  <2>1. IsFiniteSet(V) /\ IsFiniteSet(Q)
    BY <1>3, FS_Subset
  <2>2. Cardinality(Q) <= Cardinality(V) /\ Cardinality(V) \in Nat /\ Cardinality(Q) \in Nat
    BY <1>3, <2>1, FS_Subset, FS_CardinalityType
  <2>3. Cardinality(V) >= KeyThreshold /\ Cardinality(V) # 0
    BY <1>2, <1>3, <2>2
  <2>. QED  BY <2>3, FS_EmptySet
<1>5. \A s \in KeySigners : shares[s][k] # "none"
  BY <1>1, <1>4 DEF IInv, HeldInv
<1>6. TypeOK'
  BY <1>1, <1>2, Zenon DEF IInv, TypeOK
<1>7. TenureInv'
  BY <1>2 DEF IInv, TypeOK, TenureInv, TenureAt
<1>8. RegistryKeyIsUsable'
  BY <1>2, <1>4, <1>5, Zenon DEF IInv, RegistryKeyIsUsable
<1>. QED  BY <1>2, <1>6, <1>7, <1>8, UntouchedStep DEF Untouched

\* When the sweeps are signed a signer is still at the tip, so that the key of
\* the tenure is one of the registry.
LEMMA SweepStep ==
    ASSUME KeyRotationConstants, IInv, NEW h \in Heights, Sweep(h)
    PROVE  IInv'
<1>1. key[h] \in rotated
  <2>1. PICK s \in KeySigners : tip[s] = h
    BY DEF Sweep
  <2>2. ~(h < tip[s])
    BY <2>1 DEF Heights
  <2>. QED  BY <2>2 DEF Sweep, IInv, TenureInv, TenureAt
<1>2. TypeOK' /\ TenureInv'
  BY DEF Sweep, Go, IInv, TypeOK, TenureInv, TenureAt
<1>3. SweepsUseRegistryKeys'
  BY <1>1 DEF Sweep, IInv, TypeOK, SweepsUseRegistryKeys
<1>. QED  BY <1>2, <1>3, UntouchedStep, Zenon DEF Sweep, Untouched

\* The call that is mined rotates to a usable key.
LEMMA RotateKeysStep ==
    ASSUME KeyRotationConstants, IInv, NEW k \in Keys, rotate_keys(k)
    PROVE  IInv'
<1>1. TypeOK'
  <2>1. k \in 0 .. MaxKeyHeight
    BY SMTT(20) DEF Keys, Heights, KeyRotationConstants
  <2>. QED  BY <2>1 DEF rotate_keys, IInv, TypeOK
<1>2. RowsInv' /\ TipsInv' /\ HeldInv'
  <2>1. RowsInv'
    BY Zenon DEF IInv, RowsInv, rotate_keys
  <2>2. TipsInv'
    BY DEF IInv, TipsInv, rotate_keys
  <2>3. HeldInv'
    BY Zenon DEF IInv, HeldInv, rotate_keys
  <2>. QED  BY <2>1, <2>2, <2>3, Zenon
<1>3. InfoInv' /\ TenureInv' /\ SweepsUseRegistryKeys'
  BY DEF IInv, InfoInv, TenureInv, TenureAt, SweepsUseRegistryKeys, rotate_keys
<1>4. RegistryKeyIsUsable'
  BY Zenon DEF IInv, RegistryKeyIsUsable, rotate_keys
<1>. QED  BY <1>1, <1>2, <1>3, <1>4 DEF IInv

-----------------------------------------------------------------------------
(* The theorems.                                                           *)

\* The invariant holds when the signers start without shares.
LEMMA InitKeys ==
    ASSUME KeyRotationConstants
    PROVE  KeyInit => IInv
<1> SUFFICES ASSUME KeyInit PROVE IInv
  OBVIOUS
<1>1. 1 \in Heights /\ Heights \subseteq 0 .. MaxKeyHeight /\ 0 \notin Heights
      /\ registry \in 0 .. MaxKeyHeight /\ (registry # 0 => registry = 1)
  BY DEF KeyInit, Heights, KeyRotationConstants
<1>2. TypeOK
  <2>1. 0 \in 0 .. MaxKeyHeight /\ rotated \subseteq Keys
    BY <1>1 DEF KeyInit, Keys, KeyRotationConstants
  <2>2. shares \in [KeySigners -> [Keys -> Status]]
    BY DEF KeyInit, Status
  <2>3. /\ height \in Heights /\ tip \in [KeySigners -> Heights]
        /\ info \in [KeySigners -> 0 .. MaxKeyHeight] /\ configured \subseteq Keys
    BY <1>1, <2>1 DEF KeyInit
  <2>4. /\ seen \in [Heights -> 0 .. MaxKeyHeight] /\ key \in [Heights -> 0 .. MaxKeyHeight]
        /\ last_dkg \in [Heights -> 0 .. MaxKeyHeight] /\ verifying \in [Heights -> 0 .. MaxKeyHeight]
        /\ swept \in [Heights -> 0 .. MaxKeyHeight] /\ coordinator \in [Heights -> KeySigners]
    BY <2>1, Zenon DEF KeyInit
  <2>. QED  BY <1>1, <2>1, <2>2, <2>3, <2>4 DEF KeyInit, TypeOK
<1>3. RowsInv /\ TipsInv /\ HeldInv /\ InfoInv /\ TenureInv
  BY <1>1 DEF KeyInit, RowsInv, TipsInv, HeldInv, InfoInv, TenureInv, TenureAt, Keys, Heights
<1>4. RegistryKeyIsUsable
  <2>1. \A k \in rotated \cup submitted : {s \in KeySigners : shares[s][k] = "verified"} = KeySigners
    BY <1>1 DEF KeyInit, Keys
  <2>2. Cardinality(KeySigners) >= KeyThreshold
    <3>1. Cardinality(KeySigners) \in Nat
      BY FS_CardinalityType DEF KeyRotationConstants
    <3>. QED  BY <3>1 DEF KeyRotationConstants
  <2>3. \A k \in rotated \cup submitted, s \in KeySigners : shares[s][k] # "none"
    BY <1>1 DEF KeyInit, Keys
  <2>. QED  BY <2>1, <2>2, <2>3, Zenon DEF RegistryKeyIsUsable
<1>5. SweepsUseRegistryKeys
  BY DEF KeyInit, SweepsUseRegistryKeys
<1>. QED  BY <1>2, <1>3, <1>4, <1>5 DEF IInv

\* Every step of a signer, a tenure or the chain keeps the invariant.
LEMMA StepKeys ==
    ASSUME KeyRotationConstants
    PROVE  IInv /\ [KeyNext]_keyvars => IInv'
<1> SUFFICES ASSUME IInv, [KeyNext]_keyvars PROVE IInv'
  OBVIOUS
<1>1. CASE NewBlock
  <2>1. TypeOK' /\ TipsInv'
    <3>1. height' \in Heights /\ height' = height + 1 /\ height \in Int
      BY <1>1 DEF NewBlock, IInv, TypeOK, Heights, KeyRotationConstants
    <3>2. TypeOK'
      BY <1>1, <3>1 DEF NewBlock, IInv, TypeOK
    <3>3. \A s \in KeySigners : tip[s] \in Int /\ tip[s] <= height
      BY DEF IInv, TypeOK, TipsInv, Heights
    <3>4. \A s \in KeySigners : tip'[s] <= height'
      BY <1>1, <3>1, <3>3 DEF NewBlock
    <3>. QED  BY <1>1, <3>2, <3>4 DEF NewBlock, IInv, TipsInv
  <2>2. RowsInv' /\ HeldInv' /\ InfoInv' /\ TenureInv'
    BY <1>1 DEF IInv, RowsInv, HeldInv, InfoInv, TenureInv, TenureAt, NewBlock
  <2>3. RegistryKeyIsUsable' /\ SweepsUseRegistryKeys'
    BY <1>1, Zenon DEF IInv, RegistryKeyIsUsable, SweepsUseRegistryKeys, NewBlock
  <2>. QED  BY <2>1, <2>2, <2>3, Zenon DEF IInv
<1>2. ASSUME NEW s \in KeySigners, ObserveBlock(s) PROVE IInv'
  BY <1>2, ObserveBlockStep
<1>3. ASSUME NEW s \in KeySigners, NEW h \in Heights,
             StartTenure(s, h) \/ StoreShares(s, h) \/ VerificationSuccess(s, h)
      PROVE  IInv'
  BY <1>3, StartTenureStep, StoreSharesStep, VerificationSuccessStep
<1>4. ASSUME NEW h \in Heights,
             \/ DkgBegin(h) \/ DkgDone(h) \/ DkgTimeout(h) \/ CheckRotateKey(h)
             \/ VerificationBegin(h) \/ VerificationDone(h)
             \/ SignRotateKeys(h) \/ SigningTimeout(h) \/ Sweep(h)
      PROVE  IInv'
  BY <1>4, DkgBeginStep, DkgDoneStep, DkgTimeoutStep, CheckRotateKeyStep,
     VerificationBeginStep, VerificationDoneStep, SignRotateKeysStep,
     SigningTimeoutStep, SweepStep
<1>5. ASSUME NEW k \in Keys, rotate_keys(k) PROVE IInv'
  BY <1>5, RotateKeysStep
<1>6. CASE UNCHANGED keyvars
  <2>1. TypeOK' /\ RowsInv' /\ TipsInv' /\ HeldInv'
    BY <1>6 DEF keyvars, IInv, TypeOK, RowsInv, TipsInv, HeldInv
  <2>2. InfoInv' /\ TenureInv' /\ RegistryKeyIsUsable' /\ SweepsUseRegistryKeys'
    BY <1>6 DEF keyvars, IInv, InfoInv, TenureInv, TenureAt, RegistryKeyIsUsable,
                SweepsUseRegistryKeys
  <2>. QED  BY <2>1, <2>2, Zenon DEF IInv
<1>. QED  BY <1>1, <1>2, <1>3, <1>4, <1>5, <1>6 DEF KeyNext

\* RotateKeysV1::validate lets a quorum sign only a key that it has verified and
\* of which every signer holds its share, and no later step takes that away.
THEOREM RegistryKeyStaysUsable ==
    ASSUME KeyRotationConstants
    PROVE  KeySpec => []RegistryKeyIsUsable
<1>1. IInv => RegistryKeyIsUsable
  BY DEF IInv
<1>. QED  BY <1>1, InitKeys, StepKeys, PTL DEF KeySpec

\* A tenure that made a new key but could not rotate to it locks no funds with
\* it, whatever blocks, rounds and rotations interleave with the tenure.
THEOREM SweepsStayWithRegistryKeys ==
    ASSUME KeyRotationConstants
    PROVE  KeySpec => []SweepsUseRegistryKeys
<1>1. IInv => SweepsUseRegistryKeys
  BY DEF IInv
<1>. QED  BY <1>1, InitKeys, StepKeys, PTL DEF KeySpec

\* should_run_dkg keeps every signer from a second round while one is pending.
THEOREM PendingRoundIsSingle ==
    ASSUME KeyRotationConstants
    PROVE  KeySpec => []OnePendingRound
<1>1. IInv => OnePendingRound
  BY OnePending DEF IInv
<1>. QED  BY <1>1, InitKeys, StepKeys, PTL DEF KeySpec


(***************************************************************************)
(* The swarm.                                                              *)
(***************************************************************************)

-----------------------------------------------------------------------------
(* The places of a sequence.                                               *)

\* f is the recursion of Picked up to place k.
PicksUpTo(f, seq, places, k) ==
    f = [n \in 0..k |-> IF n = 0 THEN << >>
                        ELSE IF n \in places THEN Append(f[n - 1], seq[n]) ELSE f[n - 1]]

\* The recursion has a solution up to every place.
LEMMA PicksExist ==
    ASSUME NEW seq, NEW places
    PROVE  \A k \in Nat : \E f : PicksUpTo(f, seq, places, k)
<1> DEFINE Bad == {k \in Nat : ~ \E f : PicksUpTo(f, seq, places, k)}
<1> SUFFICES ASSUME Bad # {} PROVE FALSE
  OBVIOUS
<1>1. PICK k \in Bad : \A j \in Bad : ~(<<j, k>> \in OpToRel(<, Nat))
  BY NatLessThanWellFounded, WFMin, Zenon
<1>2. \A j \in Nat : j < k => \E f : PicksUpTo(f, seq, places, j)
  BY <1>1, Zenon DEF OpToRel
<1>3. CASE k = 0
  <2> DEFINE g == [n \in 0..0 |-> << >>]
  <2>1. g = [n \in 0..0 |-> IF n = 0 THEN << >>
                            ELSE IF n \in places THEN Append(g[n - 1], seq[n]) ELSE g[n - 1]]
    OBVIOUS
  <2>2. PicksUpTo(g, seq, places, 0)
    BY <2>1, Zenon DEF PicksUpTo
  <2> QED
    BY <1>1, <1>3, <2>2, Zenon
<1>4. CASE k # 0
  <2>1. k - 1 \in Nat /\ k - 1 < k
    BY <1>4
  <2>2. PICK f : PicksUpTo(f, seq, places, k - 1)
    BY <1>2, <2>1
  <2> DEFINE g == [n \in 0..k |-> IF n = 0 THEN << >>
                                  ELSE IF n \in places THEN Append(f[n - 1], seq[n]) ELSE f[n - 1]]
  <2>3. \A n \in 0..k : n # 0 => n - 1 \in 0..(k - 1)
    BY <1>4
  <2>4. 0..(k - 1) \subseteq 0..k
    BY <1>4
  <2>5. \A n \in 0..(k - 1) : g[n] = f[n]
    BY <2>2, <2>4, Zenon DEF PicksUpTo
  <2>6. PicksUpTo(g, seq, places, k)
    BY <2>3, <2>5, Zenon DEF PicksUpTo
  <2> QED
    BY <1>1, <2>6, Zenon
<1> QED
  BY <1>3, <1>4

\* What Picked is: the last of a series that grows by one place at a time.
LEMMA PickedIsLast ==
    ASSUME NEW seq, NEW places, Len(seq) \in Nat
    PROVE  \E f : /\ f[0] = << >>
                  /\ Picked(seq, places) = f[Len(seq)]
                  /\ \A n \in 1..Len(seq) :
                       f[n] = IF n \in places THEN Append(f[n - 1], seq[n]) ELSE f[n - 1]
<1> DEFINE f == CHOOSE f : PicksUpTo(f, seq, places, Len(seq))
<1>1. PicksUpTo(f, seq, places, Len(seq))
  BY PicksExist
<1>2. Picked(seq, places) = f[Len(seq)]
  BY Zenon DEF Picked, PicksUpTo
<1> HIDE DEF f
<1>3. \A n \in 0..Len(seq) :
        f[n] = IF n = 0 THEN << >>
               ELSE IF n \in places THEN Append(f[n - 1], seq[n]) ELSE f[n - 1]
  BY <1>1, Zenon DEF PicksUpTo
<1>4. 0 \in 0..Len(seq) /\ \A n \in 1..Len(seq) : n \in 0..Len(seq) /\ n # 0
  OBVIOUS
<1> QED
  BY <1>2, <1>3, <1>4

\* What is picked from a sequence are the entries at the places, and each once
\* where the sequence has each once.
LEMMA PickedEntries ==
    ASSUME NEW T, NEW seq \in Seq(T), NEW places,
           NEW S, \A n \in 1..Len(seq) : n \in places => seq[n] \in S
    PROVE  /\ Picked(seq, places) \in Seq(S)
           /\ (\A m, n \in 1..Len(seq) : seq[m] = seq[n] => m = n) =>
                \A m, n \in 1..Len(Picked(seq, places)) :
                    Picked(seq, places)[m] = Picked(seq, places)[n] => m = n
<1>1. PICK f : /\ f[0] = << >>
               /\ Picked(seq, places) = f[Len(seq)]
               /\ \A n \in 1..Len(seq) :
                    f[n] = IF n \in places THEN Append(f[n - 1], seq[n]) ELSE f[n - 1]
  BY PickedIsLast
<1> DEFINE From(n) == {seq[m] : m \in 1..n}
           Once == \A m, n \in 1..Len(seq) : seq[m] = seq[n] => m = n
           Good(n) == /\ f[n] \in Seq(S) /\ \A m \in 1..Len(f[n]) : f[n][m] \in From(n)
                      /\ Once => \A l, m \in 1..Len(f[n]) : f[n][l] = f[n][m] => l = m
           Bad == {n \in Nat : n \in 0..Len(seq) /\ ~Good(n)}
<1>2. Good(0)
  BY <1>1
<1>3. ASSUME NEW n \in 1..Len(seq), Good(n - 1) PROVE Good(n)
  <2>1. CASE n \notin places
    <3>1. f[n] = f[n - 1]
      BY <1>1, <2>1
    <3>2. From(n - 1) \subseteq From(n)
      OBVIOUS
    <3> QED
      BY <1>3, <3>1, <3>2, Zenon
  <2>2. CASE n \in places
    <3>1. f[n] = Append(f[n - 1], seq[n])
      BY <1>1, <2>2, Zenon
    <3>2. From(n - 1) \subseteq From(n) /\ seq[n] \in From(n)
      OBVIOUS
    <3>3. Once => seq[n] \notin From(n - 1)
      OBVIOUS
    <3>4. f[n - 1] \in Seq(S) /\ seq[n] \in S
      BY <1>3, <2>2
    <3>5. /\ f[n] \in Seq(S) /\ Len(f[n]) = Len(f[n - 1]) + 1
          /\ \A m \in 1..Len(f[n - 1]) : f[n][m] = f[n - 1][m]
          /\ f[n][Len(f[n])] = seq[n]
      BY <3>1, <3>4
    <3>6. \A m \in 1..Len(f[n]) : m \in 1..Len(f[n - 1]) \/ m = Len(f[n])
      BY <3>4, <3>5
    <3>7. \A m \in 1..Len(f[n]) : f[n][m] \in From(n)
      BY <1>3, <3>2, <3>5, <3>6, Zenon
    <3>8. ASSUME Once, NEW l \in 1..Len(f[n]), NEW m \in 1..Len(f[n]), f[n][l] = f[n][m]
          PROVE  l = m
      BY <1>3, <3>3, <3>5, <3>6, <3>8, Zenon
    <3> QED
      BY <3>5, <3>7, <3>8, Zenon
  <2> QED
    BY <2>1, <2>2, Zenon
<1> HIDE DEF Good
<1>4. Bad = {}
  <2> SUFFICES ASSUME Bad # {} PROVE FALSE
    OBVIOUS
  <2>1. PICK n \in Bad : \A j \in Bad : ~(<<j, n>> \in OpToRel(<, Nat))
    BY NatLessThanWellFounded, WFMin, Zenon
  <2>2. \A j \in Nat : j < n => j \notin Bad
    BY <2>1, Zenon DEF OpToRel
  <2>3. n \in 0..Len(seq) /\ ~Good(n) /\ n # 0
    BY <1>2, <2>1, Zenon
  <2>4. n \in 1..Len(seq) /\ n - 1 \in Nat /\ n - 1 < n /\ n - 1 \in 0..Len(seq)
    BY <2>3
  <2>5. Good(n - 1)
    BY <2>2, <2>4
  <2> QED
    BY <1>3, <2>3, <2>4, <2>5
<1>5. Good(Len(seq))
  BY <1>4
<1> QED
  BY <1>1, <1>5, Zenon DEF Good

-----------------------------------------------------------------------------
(* The inductive invariant.                                                *)

\* A dial in the queue or under way.
DialRecords == [id : Nat, address : Peers, peer : Peers \cup {None}]

\* A connection: one that was dialled has the address its peer answers at.
ConnRecords ==
    {c \in [id : Nat, peer : Signers \cup Strangers, dialer : BOOLEAN,
            address : Peers \cup {Ephemeral}] : c.dialer => c.address = c.peer}

\* A row of p2p_peers.
PeerRows ==
    {r \in [peer : Signers \cup {Local}, address : Signers \cup {Local}] : r.address = r.peer}

\* The types, and in `stored` and `known_peers` only addresses of their peer.
SwarmTypeOK ==
    /\ world \in Worlds
    /\ known_peers \in Seq(PeerRows) /\ stored \in Seq(PeerRows)
    /\ pending_events \in Seq(DialRecords) /\ dials \subseteq DialRecords
    /\ events \in Seq(ConnRecords) /\ conns \subseteq ConnRecords
    /\ kademlia \subseteq Peers /\ explicit_peers \subseteq Peers
    /\ connected_peers \in [Peers -> SUBSET Nat]
    /\ denied \subseteq [id : Nat, peer : Signers \cup Strangers]

\* The ids of connections, denied ones included.
Taken == {c.id : c \in conns} \cup {d.id : d \in denied}

\* The ids of dials that the swarm has yet to start.
Queued == {d.id : d \in Range(pending_events)}

\* An id is that of one dial or of one connection.
IdsOK ==
    /\ \A m, n \in 1..Len(pending_events) : pending_events[m].id = pending_events[n].id => m = n
    /\ \A d, e \in dials : d.id = e.id => d = e
    /\ \A c, e \in conns : c.id = e.id => c = e
    /\ \A c \in conns, d \in denied : c.id # d.id
    /\ \A d \in dials : d.id \notin Queued /\ d.id \notin Taken
    /\ Queued \cap Taken = {}

\* The inductive invariant.
SwarmInv == SwarmTypeOK /\ IdsOK /\ BootstrapCountsConnections /\ PendingDialsAreLive

\* The invariant holds at the start.
LEMMA SwarmInitOK == SwarmInit => SwarmInv
<1> SUFFICES ASSUME SwarmInit PROVE SwarmInv
  OBVIOUS
<1>1. SwarmTypeOK
  BY DEF SwarmInit, SwarmTypeOK
<1>2. Taken = {} /\ Queued = {}
  BY DEF SwarmInit, Taken, Queued, Range
<1>3. IdsOK
  BY <1>2 DEF SwarmInit, IdsOK
<1>4. BootstrapCountsConnections /\ PendingDialsAreLive
  BY DEF SwarmInit, BootstrapCountsConnections, PendingDialsAreLive
<1> QED
  BY <1>1, <1>3, <1>4 DEF SwarmInv

\* A free id is not in use, and there is no free id twice.
LEMMA FreeIdsOK ==
    ASSUME SwarmTypeOK
    PROVE  /\ FreeIds \in Seq(Nat \ UsedIds)
           /\ \A m, n \in 1..Len(FreeIds) : FreeIds[m] = FreeIds[n] => m = n
<1> DEFINE all == [n \in Ids |-> n]
<1>1. world.ids \in Nat
  BY SwarmAssumption DEF SwarmTypeOK
<1>2. all \in Seq(Nat) /\ Len(all) = world.ids /\ \A n \in 1..Len(all) : all[n] = n
  BY <1>1 DEF Ids
<1> HIDE DEF all
<1>3. \A n \in 1..Len(all) : n \in Ids \ UsedIds => all[n] \in Nat \ UsedIds
  BY <1>1, <1>2 DEF Ids
<1>4. \A m, n \in 1..Len(all) : all[m] = all[n] => m = n
  BY <1>2
<1>5. FreeIds = Picked(all, Ids \ UsedIds)
  BY DEF FreeIds, all
<1>6. /\ Picked(all, Ids \ UsedIds) \in Seq(Nat \ UsedIds)
      /\ \A m, n \in 1..Len(Picked(all, Ids \ UsedIds)) :
             Picked(all, Ids \ UsedIds)[m] = Picked(all, Ids \ UsedIds)[n] => m = n
  BY <1>2, <1>3, <1>4, PickedEntries, Zenon
<1> QED
  BY <1>5, <1>6, Zenon

\* What bootstrapping dials are addresses of peers.
LEMMA TargetsOK ==
    ASSUME SwarmTypeOK
    PROVE  Targets \in Seq([address : Peers, peer : Peers \cup {None}])
<1> DEFINE R == [address : Peers, peer : Peers \cup {None}]
           first == [n \in 1..Len(Seeds) |-> [address |-> Seeds[n], peer |-> None]]
<1>1. world.seeds \in Seq(Peers)
  BY SwarmAssumption DEF SwarmTypeOK, Peers
<1>2. Seeds \in Seq(Peers)
  <2> DEFINE new == {n \in 1..Len(world.seeds) :
                       \A m \in 1..(n - 1) : world.seeds[m] # world.seeds[n]}
  <2>1. \A n \in 1..Len(world.seeds) : n \in new => world.seeds[n] \in Peers
    BY <1>1
  <2>2. Picked(world.seeds, new) \in Seq(Peers)
    BY <1>1, <2>1, PickedEntries, Zenon
  <2> QED
    BY <2>2, Zenon DEF Seeds, add_seed_addrs
<1>3. first \in Seq(R)
  BY <1>2
<1>4. PeerRows \subseteq R
  BY DEF PeerRows, Peers
<1>5. known_peers \in Seq(R)
  <2>1. known_peers \in Seq(PeerRows)
    BY DEF SwarmTypeOK
  <2> HIDE DEF R
  <2> QED
    BY <1>4, <2>1
<1>6. Targets = first \o known_peers
  BY DEF Targets
<1> HIDE DEF first, R
<1>7. Targets \in Seq(R)
  BY <1>3, <1>5, <1>6
<1> QED
  BY <1>7, Zenon DEF R

\* The first dial in the queue, and those after it.
LEMMA HeadAndTail ==
    ASSUME SwarmTypeOK, pending_events # << >>
    PROVE  /\ Head(pending_events) \in DialRecords
           /\ Tail(pending_events) \in Seq(DialRecords)
           /\ Range(pending_events) = {Head(pending_events)} \cup Range(Tail(pending_events))
           /\ Len(Tail(pending_events)) = Len(pending_events) - 1
           /\ \A n \in 1..Len(Tail(pending_events)) :
                  n + 1 \in 1..Len(pending_events) /\ Tail(pending_events)[n] = pending_events[n + 1]
<1>1. pending_events \in Seq(DialRecords) /\ Len(pending_events) \in Nat \ {0}
  BY DEF SwarmTypeOK
<1>2. /\ Head(pending_events) \in DialRecords /\ Head(pending_events) = pending_events[1]
      /\ Tail(pending_events) \in Seq(DialRecords)
      /\ Len(Tail(pending_events)) = Len(pending_events) - 1
      /\ DOMAIN pending_events = 1..Len(pending_events)
      /\ DOMAIN Tail(pending_events) = 1..(Len(pending_events) - 1)
      /\ \A n \in 1..(Len(pending_events) - 1) : Tail(pending_events)[n] = pending_events[n + 1]
  BY <1>1
<1>3. ASSUME NEW d \in Range(pending_events)
      PROVE  d \in {Head(pending_events)} \cup Range(Tail(pending_events))
  <2>1. PICK n \in 1..Len(pending_events) : d = pending_events[n]
    BY <1>2 DEF Range
  <2>2. CASE n # 1
    <3>1. n - 1 \in 1..(Len(pending_events) - 1) /\ (n - 1) + 1 = n
      BY <1>1, <2>2
    <3> QED
      BY <1>2, <2>1, <3>1, Zenon DEF Range
  <2> QED
    BY <1>2, <2>1, <2>2
<1>4. {Head(pending_events)} \cup Range(Tail(pending_events)) \subseteq Range(pending_events)
  <2>1. 1 \in 1..Len(pending_events)
        /\ \A n \in 1..(Len(pending_events) - 1) : n + 1 \in 1..Len(pending_events)
    BY <1>1
  <2> QED
    BY <1>2, <2>1 DEF Range
<1> QED
  BY <1>1, <1>2, <1>3, <1>4

\* A queued dial is taken up, or dropped.
LEMMA PollDialOK == ASSUME SwarmInv, PollDial PROVE SwarmInv'
<1> DEFINE dial == Head(pending_events)
           rest == Tail(pending_events)
<1>1. SwarmTypeOK /\ pending_events # << >> /\ pending_events' = rest
  BY DEF SwarmInv, PollDial
<1>2. /\ dial \in DialRecords /\ rest \in Seq(DialRecords)
      /\ Range(pending_events) = {dial} \cup Range(rest)
      /\ Len(rest) = Len(pending_events) - 1
      /\ \A n \in 1..Len(rest) : n + 1 \in 1..Len(pending_events) /\ rest[n] = pending_events[n + 1]
  BY <1>1, HeadAndTail, Zenon
<1>3. /\ UNCHANGED <<known_peers, connected_peers, conns, events, loop, denied, world>>
      /\ dials' \subseteq dials \cup {dial} /\ dials \subseteq dials'
      /\ pending_connections' \subseteq pending_connections
      /\ dial \in dials' \/ dial.id \notin pending_connections'
  BY DEF PollDial
<1> HIDE DEF rest, dial
<1>4. SwarmTypeOK'
  BY <1>1, <1>2, <1>3, Zenon DEF SwarmTypeOK, loop
<1>5. Queued = {dial.id} \cup Queued'
  BY <1>1, <1>2, Zenon DEF Queued
<1>6. dial.id \notin Queued'
  <2> SUFFICES ASSUME NEW d \in Range(rest), d.id = dial.id PROVE FALSE
    BY <1>1 DEF Queued
  <2>1. PICK n \in 1..Len(rest) : d = rest[n]
    BY <1>2 DEF Range
  <2>2. /\ pending_events[n + 1].id = pending_events[1].id /\ n + 1 \in 1..Len(pending_events)
        /\ 1 \in 1..Len(pending_events) /\ n + 1 # 1
    BY <1>1, <1>2, <2>1 DEF dial, SwarmTypeOK
  <2> QED
    BY <2>2 DEF SwarmInv, IdsOK
<1>7. UNCHANGED Taken
  BY <1>3 DEF Taken
<1>8. \A m, n \in 1..Len(rest) : rest[m].id = rest[n].id => m = n
  <2> SUFFICES ASSUME NEW m \in 1..Len(rest), NEW n \in 1..Len(rest), rest[m].id = rest[n].id
               PROVE  m = n
    OBVIOUS
  <2>1. m + 1 = n + 1
    BY <1>2, Zenon DEF SwarmInv, IdsOK
  <2> QED
    BY <2>1
<1>9. IdsOK'
  <2>1. \A d, e \in dials' : d.id = e.id => d = e
    BY <1>3, <1>5, Zenon DEF SwarmInv, IdsOK
  <2>2. \A d \in dials' : d.id \notin Queued' /\ d.id \notin Taken'
    BY <1>3, <1>5, <1>6, <1>7, Zenon DEF SwarmInv, IdsOK
  <2>3. Queued' \cap Taken' = {}
    BY <1>5, <1>7, Zenon DEF SwarmInv, IdsOK
  <2>4. /\ \A c, e \in conns' : c.id = e.id => c = e
        /\ \A c \in conns', d \in denied' : c.id # d.id
    BY <1>3 DEF SwarmInv, IdsOK
  <2> QED
    BY <1>1, <1>8, <2>1, <2>2, <2>3, <2>4, Zenon DEF IdsOK
<1>10. BootstrapCountsConnections'
  BY <1>3 DEF SwarmInv, BootstrapCountsConnections
<1>11. PendingDialsAreLive'
  <2>1. \A i \in pending_connections : i \in {d.id : d \in dials} \/ i = dial.id \/ i \in Queued'
    BY <1>5 DEF SwarmInv, PendingDialsAreLive, Queued
  <2>2. pending_connections' \subseteq {d.id : d \in dials'} \cup Queued'
    BY <1>3, <2>1
  <2> QED
    BY <2>2, Zenon DEF PendingDialsAreLive, Queued
<1> QED
  BY <1>4, <1>9, <1>10, <1>11, Zenon DEF SwarmInv

\* Where dials, connections and the database stay, so does the invariant.
LEMMA SameSwarm ==
    ASSUME SwarmInv, kademlia' \subseteq Peers, explicit_peers' \subseteq Peers,
           UNCHANGED <<known_peers, pending_events, connected_peers, pending_connections, dials,
                       conns, events, stored, denied, world>>
    PROVE  SwarmInv'
<1>1. SwarmTypeOK'
  BY Zenon DEF SwarmInv, SwarmTypeOK
<1>2. UNCHANGED <<Taken, Queued>>
  BY Zenon DEF Taken, Queued
<1>3. IdsOK'
  BY <1>2, Zenon DEF SwarmInv, IdsOK
<1>4. BootstrapCountsConnections' /\ PendingDialsAreLive'
  BY DEF SwarmInv, BootstrapCountsConnections, PendingDialsAreLive
<1> QED
  BY <1>1, <1>3, <1>4 DEF SwarmInv

\* Bootstrapping queues a dial for every target, each with a free id.
LEMMA QueueDialsOK ==
    ASSUME SwarmInv, pending_events = << >>, QueueDials,
           UNCHANGED <<known_peers, connected_peers, dials, conns, events, loop, denied, world>>
    PROVE  SwarmInv'
<1> DEFINE k == Len(Targets)
           dial(n) == [id |-> FreeIds[n], address |-> Targets[n].address, peer |-> Targets[n].peer]
<1>1. /\ k \in Nat
      /\ \A n \in 1..k : Targets[n].address \in Peers /\ Targets[n].peer \in Peers \cup {None}
  <2> DEFINE R == [address : Peers, peer : Peers \cup {None}]
  <2>1. Targets \in Seq(R)
    BY TargetsOK DEF SwarmInv
  <2>2. \A r \in R : r.address \in Peers /\ r.peer \in Peers \cup {None}
    OBVIOUS
  <2> HIDE DEF R
  <2> QED
    BY <2>1, <2>2
<1>2. /\ Len(FreeIds) \in Nat
      /\ \A n \in 1..Len(FreeIds) : FreeIds[n] \in Nat /\ FreeIds[n] \notin UsedIds
      /\ \A m, n \in 1..Len(FreeIds) : FreeIds[m] = FreeIds[n] => m = n
  BY FreeIdsOK DEF SwarmInv
<1>3. /\ k <= Len(FreeIds)
      /\ pending_events' = [n \in 1..k |-> dial(n)]
      /\ pending_connections' = pending_connections \cup {FreeIds[n] : n \in 1..k}
  BY Zenon DEF QueueDials
<1>4. \A n \in 1..k : /\ dial(n) \in DialRecords /\ dial(n).id = FreeIds[n]
                      /\ FreeIds[n] \notin UsedIds
                      /\ \A m \in 1..k : FreeIds[m] = FreeIds[n] => m = n
  BY <1>1, <1>2, <1>3 DEF DialRecords
<1> HIDE DEF k, dial
<1>5. pending_events' \in Seq(DialRecords) /\ Len(pending_events') = k
      /\ \A n \in 1..k : pending_events'[n] = dial(n)
  BY <1>1, <1>3, <1>4 DEF k
<1>6. Queued' = {FreeIds[n] : n \in 1..k}
  <2>1. Range(pending_events') = {dial(n) : n \in 1..k}
    BY <1>3, Zenon DEF Range
  <2> QED
    BY <1>4, <2>1 DEF Queued
<1>7. Queued' \cap UsedIds = {}
  BY <1>4, <1>6
<1>8. UNCHANGED Taken /\ Taken \subseteq UsedIds /\ \A d \in dials : d.id \in UsedIds
  BY DEF Taken, UsedIds
<1>9. SwarmTypeOK'
  BY <1>5, Zenon DEF SwarmInv, SwarmTypeOK, loop
<1>10. IdsOK'
  <2>1. \A m, n \in 1..Len(pending_events') :
            pending_events'[m].id = pending_events'[n].id => m = n
    BY <1>4, <1>5
  <2>2. Queued' \cap Taken' = {} /\ \A d \in dials : d.id \notin Queued' /\ d.id \notin Taken'
    BY <1>7, <1>8, Zenon DEF SwarmInv, IdsOK
  <2> QED
    BY <2>1, <2>2, Zenon DEF SwarmInv, IdsOK
<1>11. BootstrapCountsConnections'
  BY DEF SwarmInv, BootstrapCountsConnections
<1>12. PendingDialsAreLive'
  <2>1. Queued = {}
    BY DEF Queued, Range
  <2>2. pending_connections \subseteq {d.id : d \in dials} \cup Queued
    BY DEF SwarmInv, PendingDialsAreLive, Queued
  <2>3. pending_connections' \subseteq {d.id : d \in dials'} \cup Queued'
    BY <1>3, <1>6, <2>1, <2>2
  <2> QED
    BY <2>3 DEF PendingDialsAreLive, Queued
<1> QED
  BY <1>9, <1>10, <1>11, <1>12, Zenon DEF SwarmInv

\* poll, with no dial queued.
LEMMA PollBootstrapOK == ASSUME SwarmInv, PollBootstrap PROVE SwarmInv'
<1>1. /\ pending_events = << >>
      /\ UNCHANGED <<known_peers, connected_peers, dials, conns, events, loop, denied, world>>
      /\ QueueDials \/ UNCHANGED <<pending_events, pending_connections>>
  BY Zenon DEF PollBootstrap
<1>2. CASE QueueDials
  BY <1>1, <1>2, QueueDialsOK
<1>3. CASE UNCHANGED <<pending_events, pending_connections>>
  <2>1. /\ UNCHANGED <<known_peers, pending_events, connected_peers, pending_connections, dials,
                       conns, events, stored, denied, world>>
        /\ kademlia' \subseteq Peers /\ explicit_peers' \subseteq Peers
    BY <1>1, <1>3, Zenon DEF loop, SwarmInv, SwarmTypeOK
  <2> QED
    BY <2>1, SameSwarm
<1> QED
  BY <1>1, <1>2, <1>3

\* A connection with a fresh id is counted, whether it is kept or denied.
LEMMA EstablishOK ==
    ASSUME SwarmTypeOK, IdsOK, BootstrapCountsConnections,
           NEW conn \in ConnRecords, conn.id \notin Taken, Establish(conn)
    PROVE  /\ conns' \subseteq ConnRecords /\ events' \in Seq(ConnRecords)
           /\ connected_peers' \in [Peers -> SUBSET Nat]
           /\ denied' \subseteq [id : Nat, peer : Signers \cup Strangers]
           /\ Taken' = Taken \cup {conn.id}
           /\ \A c, e \in conns' : c.id = e.id => c = e
           /\ \A c \in conns', d \in denied' : c.id # d.id
           /\ BootstrapCountsConnections'
<1>1. /\ conn.peer \in Peers /\ conn.peer \in Signers \cup Strangers /\ conn.peer # Local
      /\ conn.id \in Nat
  BY SwarmAssumption, Zenon DEF ConnRecords, Peers
<1>2. connected_peers' = [connected_peers EXCEPT ![conn.peer] = @ \cup {conn.id}]
  BY <1>1 DEF Establish, peer_connected
<1>3. connected_peers' \in [Peers -> SUBSET Nat]
  BY <1>1, <1>2 DEF SwarmTypeOK
<1>4. \A p \in Peers : connected_peers'[p] =
          connected_peers[p] \cup (IF p = conn.peer THEN {conn.id} ELSE {})
  BY <1>1, <1>2, Zenon DEF SwarmTypeOK
<1>5. CASE conns' = conns \cup {conn} /\ events' = Append(events, conn) /\ denied' = denied
  <2>1. conns' \subseteq ConnRecords /\ events' \in Seq(ConnRecords)
    BY <1>5 DEF SwarmTypeOK
  <2>2. Taken' = Taken \cup {conn.id}
    BY <1>5 DEF Taken
  <2>3. \A c \in conns : c.id # conn.id
    BY DEF Taken
  <2>4. \A d \in denied : d.id # conn.id
    BY DEF Taken
  <2>5. /\ \A c, e \in conns' : c.id = e.id => c = e
        /\ \A c \in conns', d \in denied' : c.id # d.id
    BY <1>5, <2>3, <2>4, Zenon DEF IdsOK
  <2>6. ASSUME NEW p \in Peers
        PROVE  connected_peers'[p] = {c.id : c \in {c \in conns' : c.peer = p}}
                                       \cup {d.id : d \in {d \in denied' : d.peer = p}}
    <3>1. {c.id : c \in {c \in conns' : c.peer = p}} =
             {c.id : c \in {c \in conns : c.peer = p}} \cup (IF p = conn.peer THEN {conn.id} ELSE {})
      BY <1>5, Zenon
    <3> QED
      BY <1>4, <1>5, <3>1 DEF BootstrapCountsConnections
  <2> QED
    BY <1>3, <1>5, <2>1, <2>2, <2>5, <2>6, Zenon DEF SwarmTypeOK, BootstrapCountsConnections
<1>6. CASE /\ denied' = denied \cup {[id |-> conn.id, peer |-> conn.peer]}
           /\ conns' = conns /\ events' = events
  <2> DEFINE new == [id |-> conn.id, peer |-> conn.peer]
  <2>0. /\ new \in [id : Nat, peer : Signers \cup Strangers]
        /\ new.id = conn.id /\ new.peer = conn.peer /\ denied' = denied \cup {new}
    BY <1>1, <1>6
  <2> HIDE DEF new
  <2>1. denied' \subseteq [id : Nat, peer : Signers \cup Strangers]
    BY <2>0 DEF SwarmTypeOK
  <2>2. Taken' = Taken \cup {conn.id}
    BY <1>6, <2>0, Zenon DEF Taken
  <2>3. \A c \in conns : c.id # conn.id
    BY DEF Taken
  <2>5. /\ \A c, e \in conns' : c.id = e.id => c = e
        /\ \A c \in conns', d \in denied' : c.id # d.id
    BY <1>6, <2>0, <2>3, Zenon DEF IdsOK
  <2>6. ASSUME NEW p \in Peers
        PROVE  connected_peers'[p] = {c.id : c \in {c \in conns' : c.peer = p}}
                                       \cup {d.id : d \in {d \in denied' : d.peer = p}}
    <3>1. {d.id : d \in {d \in denied' : d.peer = p}} =
             {d.id : d \in {d \in denied : d.peer = p}} \cup (IF p = conn.peer THEN {conn.id} ELSE {})
      BY <2>0
    <3> QED
      BY <1>4, <1>6, <3>1, Zenon DEF BootstrapCountsConnections
  <2> QED
    BY <1>3, <1>6, <2>1, <2>2, <2>5, <2>6, Zenon DEF SwarmTypeOK, BootstrapCountsConnections
<1> QED
  BY <1>5, <1>6, Zenon DEF Establish

\* A dial succeeds: its id goes from the dials to the connections.
LEMMA DialSucceedsOK == ASSUME SwarmInv, DialSucceeds PROVE SwarmInv'
<1>0. SwarmTypeOK /\ IdsOK /\ BootstrapCountsConnections /\ PendingDialsAreLive
  BY DEF SwarmInv
<1>1. PICK d \in dials :
        /\ d.address # Local /\ dials' = dials \ {d}
        /\ Establish([id |-> d.id, peer |-> d.address, dialer |-> TRUE, address |-> d.address])
  BY Zenon DEF DialSucceeds
<1>2. UNCHANGED <<known_peers, pending_events, loop, world>>
  BY Zenon DEF DialSucceeds
<1> DEFINE conn == [id |-> d.id, peer |-> d.address, dialer |-> TRUE, address |-> d.address]
<1>3. d.id \in Nat /\ d.address \in Signers \cup Strangers
  BY <1>0, <1>1, Zenon DEF SwarmTypeOK, DialRecords, Peers
<1>4. conn \in ConnRecords /\ conn.id = d.id
  BY <1>3 DEF ConnRecords, Peers
<1>5. Establish(conn) /\ conn.id \notin Taken
  BY <1>0, <1>1, <1>4, Zenon DEF IdsOK
<1>6. pending_connections' = pending_connections \ {d.id}
  BY <1>4, <1>5 DEF Establish
<1> HIDE DEF conn
<1>7. /\ conns' \subseteq ConnRecords /\ events' \in Seq(ConnRecords)
      /\ connected_peers' \in [Peers -> SUBSET Nat]
      /\ denied' \subseteq [id : Nat, peer : Signers \cup Strangers]
      /\ Taken' = Taken \cup {d.id}
      /\ \A c, e \in conns' : c.id = e.id => c = e
      /\ \A c \in conns', e \in denied' : c.id # e.id
      /\ BootstrapCountsConnections'
  BY <1>0, <1>4, <1>5, EstablishOK, Zenon
<1>8. SwarmTypeOK'
  BY <1>0, <1>1, <1>2, <1>7 DEF SwarmTypeOK, loop
<1>9. UNCHANGED Queued
  BY <1>2, Zenon DEF Queued
<1>10. \A e \in dials' : e.id # d.id
  BY <1>0, <1>1, Zenon DEF IdsOK
<1>11. IdsOK'
  <2>1. \A m, n \in 1..Len(pending_events') : pending_events'[m].id = pending_events'[n].id => m = n
    BY <1>0, <1>2, Zenon DEF IdsOK
  <2>2. /\ \A e, f \in dials' : e.id = f.id => e = f
        /\ \A e \in dials' : e.id \notin Queued /\ e.id \notin Taken
    BY <1>0, <1>1, Zenon DEF IdsOK
  <2>3. \A e \in dials' : e.id \notin Queued' /\ e.id \notin Taken'
    BY <1>7, <1>9, <1>10, <2>2, Zenon
  <2>4. d.id \notin Queued /\ Queued \cap Taken = {}
    BY <1>0, <1>1, Zenon DEF IdsOK
  <2>5. Queued' \cap Taken' = {}
    BY <1>7, <1>9, <2>4, Zenon
  <2> QED
    BY <1>7, <2>1, <2>2, <2>3, <2>5, Zenon DEF IdsOK
<1>12. PendingDialsAreLive'
  <2>1. pending_connections \subseteq {e.id : e \in dials} \cup Queued
    BY <1>0 DEF PendingDialsAreLive, Queued
  <2>2. pending_connections' \subseteq {e.id : e \in dials'} \cup Queued'
    BY <1>1, <1>6, <1>9, <2>1, Zenon
  <2> QED
    BY <2>2 DEF PendingDialsAreLive, Queued
<1> QED
  BY <1>7, <1>8, <1>11, <1>12 DEF SwarmInv

\* A dial fails: nothing waits for it any more.
LEMMA DialFailsOK == ASSUME SwarmInv, DialFails PROVE SwarmInv'
<1>0. SwarmTypeOK /\ IdsOK /\ BootstrapCountsConnections /\ PendingDialsAreLive
  BY DEF SwarmInv
<1>1. PICK d \in dials : /\ dials' = dials \ {d}
                         /\ pending_connections' = pending_connections \ {d.id}
  BY DEF DialFails
<1>2. UNCHANGED <<known_peers, pending_events, connected_peers, conns, events, loop, denied, world>>
  BY DEF DialFails
<1>3. SwarmTypeOK'
  BY <1>0, <1>1, <1>2, Zenon DEF SwarmTypeOK, loop
<1>4. UNCHANGED <<Queued, Taken>>
  BY <1>2, Zenon DEF Queued, Taken
<1>5. IdsOK'
  BY <1>0, <1>1, <1>2, <1>4, Zenon DEF IdsOK
<1>6. BootstrapCountsConnections'
  BY <1>0, <1>2, Zenon DEF BootstrapCountsConnections
<1>7. PendingDialsAreLive'
  <2>1. pending_connections \subseteq {e.id : e \in dials} \cup Queued
    BY <1>0 DEF PendingDialsAreLive, Queued
  <2>2. pending_connections' \subseteq {e.id : e \in dials'} \cup Queued'
    BY <1>1, <1>4, <2>1
  <2> QED
    BY <2>2 DEF PendingDialsAreLive, Queued
<1> QED
  BY <1>3, <1>5, <1>6, <1>7 DEF SwarmInv

\* The first free id, if there is one.
LEMMA FirstFreeId ==
    ASSUME SwarmTypeOK, FreeIds # << >>
    PROVE  FreeIds[1] \in Nat /\ FreeIds[1] \notin UsedIds
BY FreeIdsOK

\* A peer dials in, with a fresh id.
LEMMA IncomingOK == ASSUME SwarmInv, Incoming PROVE SwarmInv'
<1>0. SwarmTypeOK /\ IdsOK /\ BootstrapCountsConnections /\ PendingDialsAreLive
  BY DEF SwarmInv
<1> DEFINE id == FreeIds[1]
<1>1. id \in Nat /\ id \notin UsedIds
  BY <1>0, FirstFreeId DEF Incoming
<1>2. PICK peer \in world.peers :
        Establish([id |-> id, peer |-> peer, dialer |-> FALSE, address |-> Ephemeral])
  BY Zenon DEF Incoming
<1>3. UNCHANGED <<known_peers, pending_events, dials, loop, world>>
  BY Zenon DEF Incoming
<1> HIDE DEF id
<1> DEFINE conn == [id |-> id, peer |-> peer, dialer |-> FALSE, address |-> Ephemeral]
<1>4. peer \in Signers \cup Strangers
  BY <1>0, <1>2, SwarmAssumption DEF SwarmTypeOK
<1>5. conn \in ConnRecords /\ conn.id = id
  BY <1>1, <1>4, Zenon DEF ConnRecords
<1>6. Taken \subseteq UsedIds /\ (\A d \in dials : d.id \in UsedIds) /\ Queued \subseteq UsedIds
  BY DEF Taken, UsedIds, Queued
<1>7. Establish(conn) /\ conn.id \notin Taken
  BY <1>1, <1>2, <1>5, <1>6, Zenon
<1>8. pending_connections' \subseteq pending_connections
  BY <1>7 DEF Establish
<1> HIDE DEF conn
<1>9. /\ conns' \subseteq ConnRecords /\ events' \in Seq(ConnRecords)
      /\ connected_peers' \in [Peers -> SUBSET Nat]
      /\ denied' \subseteq [id : Nat, peer : Signers \cup Strangers]
      /\ Taken' = Taken \cup {id}
      /\ \A c, e \in conns' : c.id = e.id => c = e
      /\ \A c \in conns', e \in denied' : c.id # e.id
      /\ BootstrapCountsConnections'
  BY <1>0, <1>5, <1>7, EstablishOK, Zenon
<1>10. SwarmTypeOK'
  BY <1>0, <1>3, <1>9, Zenon DEF SwarmTypeOK, loop
<1>11. UNCHANGED Queued
  BY <1>3, Zenon DEF Queued
<1>12. IdsOK'
  BY <1>0, <1>1, <1>3, <1>6, <1>9, <1>11, ZenonT(20) DEF IdsOK
<1>13. PendingDialsAreLive'
  BY <1>0, <1>3, <1>8 DEF PendingDialsAreLive
<1> QED
  BY <1>9, <1>10, <1>12, <1>13, Zenon DEF SwarmInv

\* Kademlia or gossipsub dials, with a fresh id.
LEMMA OtherDialOK == ASSUME SwarmInv, OtherDial PROVE SwarmInv'
<1>0. SwarmTypeOK /\ IdsOK /\ BootstrapCountsConnections /\ PendingDialsAreLive
  BY DEF SwarmInv
<1> DEFINE id == FreeIds[1]
<1>1. id \in Nat /\ id \notin UsedIds
  BY <1>0, FirstFreeId DEF OtherDial
<1>2. PICK peer \in kademlia \cup explicit_peers :
        dials' = dials \cup {[id |-> id, address |-> peer, peer |-> peer]}
  BY Zenon DEF OtherDial
<1>3. UNCHANGED <<known_peers, pending_events, connected_peers, pending_connections, conns,
                  events, loop, denied, world>>
  BY DEF OtherDial, bootstrap
<1> HIDE DEF id
<1> DEFINE dial == [id |-> id, address |-> peer, peer |-> peer]
<1>4. peer \in Peers
  BY <1>0, <1>2 DEF SwarmTypeOK
<1>5. dial \in DialRecords /\ dial.id = id /\ dials' = dials \cup {dial}
  BY <1>1, <1>2, <1>4, Zenon DEF DialRecords
<1> HIDE DEF dial
<1>6. Taken \subseteq UsedIds /\ (\A d \in dials : d.id \in UsedIds) /\ Queued \subseteq UsedIds
  BY DEF Taken, UsedIds, Queued
<1>7. SwarmTypeOK'
  BY <1>0, <1>3, <1>5, Zenon DEF SwarmTypeOK, loop
<1>8. UNCHANGED <<Queued, Taken>>
  BY <1>3 DEF Queued, Taken
<1>9. IdsOK'
  BY <1>0, <1>1, <1>3, <1>5, <1>6, <1>8, Zenon DEF IdsOK
<1>10. BootstrapCountsConnections' /\ PendingDialsAreLive'
  BY <1>0, <1>3, <1>5, Zenon DEF BootstrapCountsConnections, PendingDialsAreLive
<1> QED
  BY <1>7, <1>9, <1>10 DEF SwarmInv

\* Connections of one peer go: the bootstrap behaviour forgets their ids.
LEMMA ConnectionsGo ==
    ASSUME SwarmTypeOK, IdsOK, BootstrapCountsConnections,
           NEW peer, NEW gone, gone \subseteq conns, \A c \in gone : c.peer = peer,
           conns' = conns \ gone, denied' = denied,
           connected_peers' = [connected_peers EXCEPT ![peer] = @ \ {c.id : c \in gone}]
    PROVE  /\ conns' \subseteq ConnRecords /\ connected_peers' \in [Peers -> SUBSET Nat]
           /\ Taken' \subseteq Taken
           /\ \A c, e \in conns' : c.id = e.id => c = e
           /\ \A c \in conns', e \in denied' : c.id # e.id
           /\ BootstrapCountsConnections'
<1>1. conns' \subseteq ConnRecords /\ connected_peers' \in [Peers -> SUBSET Nat]
  BY Zenon DEF SwarmTypeOK
<1>2. Taken' \subseteq Taken
  BY DEF Taken
<1>3. /\ \A c, e \in conns' : c.id = e.id => c = e
      /\ \A c \in conns', e \in denied' : c.id # e.id
  BY Zenon DEF IdsOK
<1>4. ASSUME NEW p \in Peers
      PROVE  connected_peers'[p] = {c.id : c \in {c \in conns' : c.peer = p}}
                                     \cup {d.id : d \in {d \in denied' : d.peer = p}}
  <2> DEFINE now == {c.id : c \in {c \in conns : c.peer = p}}
             later == {c.id : c \in {c \in conns' : c.peer = p}}
             refused == {d.id : d \in {d \in denied : d.peer = p}}
             ended == {c.id : c \in gone}
  <2>1. connected_peers[p] = now \cup refused
    BY Zenon DEF BootstrapCountsConnections
  <2>2. CASE p # peer
    <3>1. now = later
      BY <2>2, Zenon
    <3>2. connected_peers'[p] = connected_peers[p]
      BY <2>2 DEF SwarmTypeOK
    <3> QED
      BY <2>1, <3>1, <3>2, Zenon
  <2>3. CASE p = peer
    <3>1. now \ ended = later
      BY <2>3 DEF IdsOK
    <3>2. refused \ ended = refused
      BY Zenon DEF IdsOK
    <3>3. connected_peers'[p] = connected_peers[p] \ ended
      BY <2>3, Zenon DEF SwarmTypeOK
    <3> HIDE DEF now, later, refused, ended
    <3>4. connected_peers'[p] = later \cup refused
      BY <2>1, <3>1, <3>2, <3>3, Zenon
    <3> QED
      BY <3>4, Zenon DEF later, refused
  <2> QED
    BY <2>2, <2>3, Zenon
<1> QED
  BY <1>1, <1>2, <1>3, <1>4 DEF BootstrapCountsConnections

\* A connection closes.
LEMMA ConnectionClosedOK == ASSUME SwarmInv, ConnectionClosed PROVE SwarmInv'
<1>0. SwarmTypeOK /\ IdsOK /\ BootstrapCountsConnections /\ PendingDialsAreLive
  BY DEF SwarmInv
<1>1. PICK c \in conns : /\ conns' = conns \ {c}
                         /\ connected_peers' = [connected_peers EXCEPT ![c.peer] = @ \ {c.id}]
  BY Zenon DEF ConnectionClosed, peer_disconnected
<1>2. UNCHANGED <<known_peers, pending_events, pending_connections, dials, events, loop, denied, world>>
  BY DEF ConnectionClosed
<1> DEFINE gone == {c}
<1>3. {e.id : e \in gone} = {c.id}
  OBVIOUS
<1>4. /\ connected_peers' = [connected_peers EXCEPT ![c.peer] = @ \ {e.id : e \in gone}]
      /\ gone \subseteq conns /\ (\A e \in gone : e.peer = c.peer) /\ conns' = conns \ gone
  BY <1>1, <1>3, Zenon
<1> HIDE DEF gone
<1>5. /\ conns' \subseteq ConnRecords /\ connected_peers' \in [Peers -> SUBSET Nat]
      /\ Taken' \subseteq Taken
      /\ \A d, e \in conns' : d.id = e.id => d = e
      /\ \A d \in conns', e \in denied' : d.id # e.id
      /\ BootstrapCountsConnections'
  BY <1>0, <1>2, <1>4, ConnectionsGo, Zenon
<1>6. SwarmTypeOK'
  BY <1>0, <1>2, <1>5, Zenon DEF SwarmTypeOK, loop
<1>7. UNCHANGED Queued
  BY <1>2, Zenon DEF Queued
<1>8. IdsOK'
  BY <1>0, <1>2, <1>5, <1>7, Zenon DEF IdsOK
<1>9. PendingDialsAreLive'
  BY <1>0, <1>2 DEF PendingDialsAreLive
<1> QED
  BY <1>5, <1>6, <1>8, <1>9 DEF SwarmInv

\* The event loop is told of a connection: it cuts a stranger off, and it
\* remembers where a signer answered.
LEMMA ConnectionEstablishedOK == ASSUME SwarmInv, ConnectionEstablished PROVE SwarmInv'
<1>0. SwarmTypeOK /\ IdsOK /\ BootstrapCountsConnections /\ PendingDialsAreLive
  BY DEF SwarmInv
<1> DEFINE conn == Head(events)
           gone == {c \in conns : c.peer = conn.peer}
<1>1. /\ events # << >> /\ events' = Tail(events)
      /\ UNCHANGED <<known_peers, pending_events, pending_connections, dials, explicit_peers,
                     denied, world>>
  BY DEF ConnectionEstablished
<1>2. conn \in ConnRecords /\ events' \in Seq(ConnRecords)
  BY <1>0, <1>1 DEF SwarmTypeOK
<1>3. UNCHANGED Queued
  BY <1>1, Zenon DEF Queued
<1>4. PendingDialsAreLive'
  BY <1>0, <1>1 DEF PendingDialsAreLive
<1>5. CASE ~is_allowed_peer(conn.peer)
  <2>1. /\ conns' = {c \in conns : c.peer # conn.peer}
        /\ connected_peers' = [connected_peers EXCEPT ![conn.peer] = @ \ {c.id : c \in conns}]
        /\ UNCHANGED <<kademlia, stored>>
    BY <1>5 DEF ConnectionEstablished
  <2> HIDE DEF conn
  <2>2. connected_peers[conn.peer] \ {c.id : c \in conns} = connected_peers[conn.peer] \ {c.id : c \in gone}
    <3>1. conn.peer \in Peers
      BY <1>2, Zenon DEF ConnRecords, Peers
    <3>2. \A i \in connected_peers[conn.peer] : i \in {c.id : c \in conns} => i \in {c.id : c \in gone}
      BY <1>0, <3>1 DEF BootstrapCountsConnections, IdsOK
    <3> QED
      BY <3>2
  <2>3. connected_peers' = [connected_peers EXCEPT ![conn.peer] = @ \ {c.id : c \in gone}]
    BY <2>1, <2>2, Zenon
  <2>4. conns' = conns \ gone /\ gone \subseteq conns /\ \A c \in gone : c.peer = conn.peer
    BY <2>1, Zenon
  <2> HIDE DEF gone
  <2>5. /\ conns' \subseteq ConnRecords /\ connected_peers' \in [Peers -> SUBSET Nat]
        /\ Taken' \subseteq Taken
        /\ \A d, e \in conns' : d.id = e.id => d = e
        /\ \A d \in conns', e \in denied' : d.id # e.id
        /\ BootstrapCountsConnections'
    BY <1>0, <1>1, <2>3, <2>4, ConnectionsGo, Zenon
  <2>6. SwarmTypeOK'
    BY <1>0, <1>1, <1>2, <2>1, <2>5, Zenon DEF SwarmTypeOK
  <2>7. IdsOK'
    BY <1>0, <1>1, <1>3, <2>5 DEF IdsOK
  <2> QED
    BY <1>4, <2>5, <2>6, <2>7, Zenon DEF SwarmInv
<1>6. CASE is_allowed_peer(conn.peer)
  <2> DEFINE row == [peer |-> conn.peer, address |-> conn.address]
             others == Picked(stored, {n \in 1..Len(stored) : stored[n].peer # conn.peer})
  <2>1. /\ UNCHANGED <<conns, connected_peers>>
        /\ kademlia' \subseteq kademlia \cup {conn.peer}
        /\ stored' = stored \/ (conn.dialer /\ stored' = <<row>> \o others)
    <3>1. UNCHANGED <<conns, connected_peers>>
      BY <1>6, Zenon DEF ConnectionEstablished
    <3>2. /\ conn.dialer => /\ kademlia' = IF world.discovery THEN kademlia \cup {conn.peer}
                                                              ELSE kademlia
                            /\ stored' = <<row>> \o others
          /\ ~conn.dialer => UNCHANGED <<kademlia, stored>>
      BY <1>6, Zenon DEF ConnectionEstablished
    <3>3. kademlia' = kademlia \cup {conn.peer} \/ kademlia' = kademlia
      BY <3>2, Zenon
    <3> QED
      BY <3>1, <3>2, <3>3, Zenon
  <2> HIDE DEF conn
  <2>2. conn.peer \in Peers
    BY <1>2, Zenon DEF ConnRecords, Peers
  <2>3. conn.dialer => row \in PeerRows
    <3>1. conn.dialer => conn.address = conn.peer
      BY <1>2 DEF ConnRecords
    <3>2. conn.peer \in Signers \cup {Local}
      BY <1>6 DEF is_allowed_peer
    <3> QED
      BY <3>1, <3>2 DEF PeerRows
  <2>4. others \in Seq(PeerRows)
    <3>1. stored \in Seq(PeerRows)
      BY <1>0 DEF SwarmTypeOK
    <3>2. \A n \in 1..Len(stored) : stored[n] \in PeerRows
      BY <3>1
    <3> QED
      BY <3>1, <3>2, PickedEntries, Zenon
  <2> HIDE DEF row, others
  <2>5. stored' \in Seq(PeerRows)
    <3>1. row \in PeerRows => <<row>> \o others \in Seq(PeerRows)
      BY <2>4
    <3> QED
      BY <1>0, <2>1, <2>3, <3>1, Zenon DEF SwarmTypeOK
  <2>6. SwarmTypeOK'
    BY <1>0, <1>1, <1>2, <2>1, <2>2, <2>5, Zenon DEF SwarmTypeOK
  <2>7. UNCHANGED Taken
    BY <1>1, <2>1, Zenon DEF Taken
  <2>8. IdsOK' /\ BootstrapCountsConnections'
    BY <1>0, <1>1, <1>3, <2>1, <2>7 DEF IdsOK, BootstrapCountsConnections
  <2> QED
    BY <1>4, <2>6, <2>8 DEF SwarmInv
<1> QED
  BY <1>5, <1>6, Zenon

\* The signer starts again with what the database remembers.
LEMMA RestartOK == ASSUME SwarmInv, Restart PROVE SwarmInv'
<1>1. /\ pending_events' = << >> /\ connected_peers' = [p \in Peers |-> {}]
      /\ pending_connections' = {} /\ dials' = {} /\ conns' = {} /\ events' = << >>
      /\ kademlia' = {} /\ explicit_peers' = {} /\ denied' = {} /\ UNCHANGED <<stored, world>>
  BY DEF Restart
<1>2. PICK window \in 0..Len(stored) : known_peers' = KnownPeers(window)
  BY DEF Restart
<1>3. stored \in Seq(PeerRows)
  BY DEF SwarmInv, SwarmTypeOK
<1>4. known_peers' \in Seq(PeerRows)
  <2> DEFINE places == {n \in 1..window : /\ is_allowed_peer(stored[n].peer)
                                          /\ stored[n].address \notin Range(Seeds)}
             wanted == Picked(stored, places)
  <2>1. \A n \in 1..Len(stored) : n \in places => stored[n] \in PeerRows
    BY <1>3
  <2>2. wanted \in Seq(PeerRows)
    BY <1>3, <2>1, PickedEntries, Zenon
  <2>3. known_peers' = SubSeq(wanted, 1, IF Len(wanted) < MAX_KNOWN_PEERS THEN Len(wanted)
                                                                          ELSE MAX_KNOWN_PEERS)
    BY <1>2, Zenon DEF KnownPeers
  <2> HIDE DEF wanted
  <2> QED
    BY <2>2, <2>3, SwarmAssumption
<1>5. SwarmTypeOK'
  BY <1>1, <1>3, <1>4 DEF SwarmInv, SwarmTypeOK
<1>6. Taken' = {} /\ Queued' = {}
  <2>1. Taken' = {}
    BY <1>1, Zenon DEF Taken
  <2>2. Range(pending_events') = {}
    BY <1>1 DEF Range
  <2>3. Queued' = {}
    BY <2>2, Zenon DEF Queued
  <2> QED
    BY <2>1, <2>3, Zenon
<1>7. IdsOK'
  <2>1. Len(pending_events') = 0
    BY <1>1
  <2>2. 1..0 = {}
    OBVIOUS
  <2> QED
    BY <1>1, <1>6, <2>1, <2>2, Zenon DEF IdsOK
<1>8. BootstrapCountsConnections' /\ PendingDialsAreLive'
  BY <1>1 DEF BootstrapCountsConnections, PendingDialsAreLive
<1> QED
  BY <1>5, <1>7, <1>8, Zenon DEF SwarmInv

\* The invariant is inductive.
LEMMA SwarmStep == ASSUME SwarmInv, [SwarmNext]_swarmVars PROVE SwarmInv'
<1>0. kademlia \subseteq Peers /\ explicit_peers \subseteq Peers
  BY DEF SwarmInv, SwarmTypeOK
<1>1. CASE TimePasses \/ handle_gossipsub_event \/ UNCHANGED swarmVars
  <2>1. UNCHANGED <<known_peers, pending_events, connected_peers, pending_connections, dials,
                    conns, events, stored, denied, world, kademlia, explicit_peers>>
    BY <1>1, Zenon DEF TimePasses, handle_gossipsub_event, swarmVars, bootstrap, loop
  <2> QED
    BY <1>0, <2>1, SameSwarm
<1>2. CASE NewExternalAddrOfPeer \/ handle_mdns_event
  <2>1. UNCHANGED <<known_peers, pending_events, connected_peers, pending_connections, dials,
                    conns, events, stored, denied, world>>
    BY <1>2, Zenon DEF NewExternalAddrOfPeer, handle_mdns_event, bootstrap
  <2>2. \A c \in conns : c.peer \in Peers
    BY DEF SwarmInv, SwarmTypeOK, ConnRecords, Peers
  <2>3. kademlia' \subseteq Peers /\ explicit_peers' \subseteq Peers
    BY <1>0, <1>2, <2>2 DEF NewExternalAddrOfPeer, handle_mdns_event
  <2> QED
    BY <2>1, <2>3, SameSwarm
<1> QED
  BY <1>1, <1>2, PollDialOK, PollBootstrapOK, DialSucceedsOK, DialFailsOK, IncomingOK, OtherDialOK,
     ConnectionClosedOK, ConnectionEstablishedOK, RestartOK, Zenon DEF SwarmNext

\* For any signers, seeds, peers and bounds: the bootstrap behaviour counts the
\* connections that there are and those that the limits denied after it had
\* counted them, waits only for dials that are under way, and p2p_peers has
\* addresses of signers that answered (bootstrap.rs, event_loop.rs).
THEOREM ConnectionsStayTracked == SwarmSpec => []ConnectionsAreTracked
<1>1. SwarmInv => ConnectionsAreTracked
  <2> SUFFICES ASSUME SwarmInv PROVE StoredAddressesAnswer
    BY DEF SwarmInv, ConnectionsAreTracked
  <2>1. stored \in Seq(PeerRows)
    BY DEF SwarmInv, SwarmTypeOK
  <2>2. \A n \in 1..Len(stored) : stored[n] \in PeerRows
    BY <2>1
  <2> QED
    BY <2>2 DEF StoredAddressesAnswer, PeerRows, is_allowed_peer
<1> QED
  BY <1>1, SwarmInitOK, SwarmStep, PTL DEF SwarmSpec
=============================================================================
