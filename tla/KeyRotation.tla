---------------------------- MODULE KeyRotation -----------------------------
(***************************************************************************)
(* The life of the signers' aggregate key: distributed key generation      *)
(* (DKG), its verification by a signing round of all the signers, the      *)
(* expiry of unverified shares, and the rotate-keys contract call.         *)
(*                                                                         *)
(* A tenure belongs to a Bitcoin chain tip and to the coordinator of that  *)
(* tip.  Tips are named by their heights, which grow with every change of  *)
(* the tip; a DKG round, and the key it results in, are named by the tip   *)
(* they started at (the signers' polynomials are seeded with its hash).    *)
(* A signer acts on the messages of the tenure of its own tip only.  Lost  *)
(* messages and slow signers appear as steps that are never taken.         *)
(***************************************************************************)
EXTENDS Integers, FiniteSets, FiniteSetsExt

CONSTANTS
    KeySigners,
    KeyThreshold,                    \* bootstrap_signatures_required
    dkg_verification_window,
    dkg_min_bitcoin_block_height, \* 0 if not configured
    MaxKeyHeight                     \* bound: Bitcoin blocks

\* What the theorems assume of the constants.
KeyRotationConstants ==
    /\ IsFiniteSet(KeySigners)
    /\ KeyThreshold \in 1 .. Cardinality(KeySigners)
    /\ dkg_verification_window \in Nat
    /\ dkg_min_bitcoin_block_height \in Nat
    /\ MaxKeyHeight \in Nat \ {0}

VARIABLES
    height,      \* of the Bitcoin chain tip
    tip,         \* tip[s]: the tip that the block observer of s has processed
    shares,      \* shares[s][k]: status of the dkg_shares row of key k at s
    registry,    \* aggregate key in the sbtc-registry contract, 0 if none
    rotated,     \* keys that a rotate-keys call has set
    configured,  \* keys whose signer set and threshold are the configured ones
    info,        \* info[s]: registry key when s processed its tip
    coordinator, \* coordinator[h]: coordinator of the tenure of tip h
    seen,        \* seen[h]: its info when the tenure started
    key,         \* key[h]: the aggregate key that it works with
    last_dkg,    \* last_dkg[h]: its latest shares when it looked at them
    phase,       \* phase[h]: what that coordinator is doing
    begun,       \* DKG rounds that every signer has joined
    verifying,   \* verifying[h]: key of the verification round of tip h
    submitted,   \* keys with a signed rotate-keys call in the Stacks mempool
    swept        \* swept[h]: key locking the outputs of the sweeps of tip h

keyvars == <<height, tip, shares, registry, rotated, configured, info, coordinator,
          seen, key, last_dkg, phase, begun, verifying, submitted, swept>>

Heights == 1 .. MaxKeyHeight
Keys == Heights
Status == {"none", "unverified", "verified", "failed"}

-----------------------------------------------------------------------------
(* The dkg_shares table of a signer.  Rows are created in order of height. *)

Rows(s, statuses) == {k \in Keys : shares[s][k] \in statuses}
LastRow(S) == IF S = {} THEN 0 ELSE Max(S)

get_latest_encrypted_dkg_shares(s) ==
    LastRow(Rows(s, {"unverified", "verified", "failed"}))

get_latest_non_failed_dkg_shares(s) ==
    LastRow(Rows(s, {"unverified", "verified"}))

PastWindow(k, h) == h > k + dkg_verification_window

write_encrypted_dkg_shares(s, k) ==
    shares' = [shares EXCEPT ![s] = [shares[s] EXCEPT ![k] =
                  IF shares[s][k] = "none" THEN "unverified" ELSE shares[s][k]]]

\* Only pending entries can fail.
revoke_dkg_shares(row) == IF row = "unverified" THEN "failed" ELSE row

\* Only pending entries can be verified.
verify_dkg_shares(row) == IF row = "unverified" THEN "verified" ELSE row

\* mutant: pending shares do not stop a new DKG round
should_run_dkg_pending(s, h) ==
    LET k == get_latest_non_failed_dkg_shares(s)
    IN  k # 0 =>
            \/ info[s] # 0 /\ info[s] \notin configured /\ k \notin configured
            \/ /\ dkg_min_bitcoin_block_height # 0
               /\ k < dkg_min_bitcoin_block_height
               /\ h >= dkg_min_bitcoin_block_height

\* Whether s would run DKG at the tip h: it has no shares at all, or verified
\* ones that are not for the configured signer set or are too old.
should_run_dkg(s, h) ==
    LET k == get_latest_non_failed_dkg_shares(s)
    IN  k # 0 =>
            /\ shares[s][k] # "unverified"
            /\ \/ info[s] # 0 /\ info[s] \notin configured /\ k \notin configured
               \/ /\ dkg_min_bitcoin_block_height # 0
                  /\ k < dkg_min_bitcoin_block_height
                  /\ h >= dkg_min_bitcoin_block_height

-----------------------------------------------------------------------------
(* Blocks.                                                                 *)

NewBlock ==
    /\ height < MaxKeyHeight
    /\ height' = height + 1
    /\ UNCHANGED <<tip, shares, registry, rotated, configured, info,
                   coordinator, seen, key, phase, last_dkg, begun, verifying,
                   submitted, swept>>

\* The pending row of the latest round fails when its window is over.
check_pending_dkg_shares(s, h) ==
    LET k == get_latest_encrypted_dkg_shares(s)
    IN  shares' = IF k # 0 /\ shares[s][k] = "unverified" /\ PastWindow(k, h)
                  THEN [shares EXCEPT ![s] = [shares[s] EXCEPT ![k] =
                           revoke_dkg_shares(shares[s][k])]]
                  ELSE shares

\* The block observer of s processes the tip and caches the registry.
ObserveBlock(s) ==
    /\ tip[s] # height
    /\ check_pending_dkg_shares(s, height)
    /\ info' = [info EXCEPT ![s] = registry]
    /\ tip' = [tip EXCEPT ![s] = height]
    /\ UNCHANGED <<height, registry, rotated, configured, coordinator, seen,
                   key, phase, last_dkg, begun, verifying, submitted, swept>>

-----------------------------------------------------------------------------
(* The tenure of tip h.                                                    *)

Go(h, next) == phase' = [phase EXCEPT ![h] = next]

\* The coordinator of the tip, c, finds out whether DKG is due.
\* It runs one tenure at a time.
StartTenure(c, h) ==
    /\ h = tip[c]
    /\ phase[h] = "idle"
    /\ \A g \in Heights : coordinator[g] = c => phase[g] \in {"idle", "over"}
    /\ coordinator' = [coordinator EXCEPT ![h] = c]
    /\ seen' = [seen EXCEPT ![h] = info[c]]
    /\ key' = [key EXCEPT ![h] =
                  IF info[c] # 0 THEN info[c] ELSE get_latest_encrypted_dkg_shares(c)]
    /\ Go(h, IF should_run_dkg(c, h) THEN "dkg" ELSE "rotate")
    /\ UNCHANGED <<height, tip, shares, registry, rotated, configured, info,
                   last_dkg, begun, verifying, submitted, swept>>

\* A signer takes part in the DKG round of its own tip if DKG is due.
JoinsDkg(s, h) == tip[s] = h /\ should_run_dkg(s, h)

\* Every signer gets DkgBegin and joins: dkg_threshold is all of them, and
\* without one of them no signer gets beyond the public shares.
DkgBegin(h) ==
    /\ phase[h] = "dkg"
    /\ h \notin begun
    /\ \A s \in KeySigners : JoinsDkg(s, h)
    /\ begun' = begun \cup {h}
    /\ UNCHANGED <<height, tip, shares, registry, rotated, configured, info,
                   coordinator, seen, key, phase, verifying, submitted, swept,
                   last_dkg>>

\* s has the shares of all the others: it stores its own and sends DkgEnd.
StoreShares(s, h) ==
    /\ h \in begun
    /\ tip[s] = h
    /\ shares[s][h] = "none"
    /\ write_encrypted_dkg_shares(s, h)
    /\ configured' = configured \cup {h}
    /\ UNCHANGED <<height, tip, registry, rotated, info, coordinator, seen,
                   key, phase, last_dkg, begun, verifying, submitted, swept>>

\* The coordinator gets DkgEnd from all the signers.
DkgDone(h) ==
    /\ phase[h] = "dkg"
    /\ \A s \in KeySigners : shares[s][h] # "none"
    /\ key' = [key EXCEPT ![h] = h]
    /\ Go(h, "rotate")
    /\ UNCHANGED <<height, tip, shares, registry, rotated, configured, info,
                   coordinator, seen, last_dkg, begun, verifying, submitted,
                   swept>>

\* DKG failed: go on with the key of the registry, if there is one.
DkgTimeout(h) ==
    /\ phase[h] = "dkg"
    /\ Go(h, IF seen[h] # 0 THEN "fallback" ELSE "over")
    /\ UNCHANGED <<height, tip, shares, registry, rotated, configured, info,
                   coordinator, seen, key, last_dkg, begun, verifying,
                   submitted, swept>>

\* Whether the coordinator verifies its latest shares in this tenure.
NeedsVerification(c, h) ==
    LET k == get_latest_encrypted_dkg_shares(c)
    IN  /\ ~PastWindow(k, h)
        /\ shares[c][k] = "verified" => k # info[c]

\* Whether it asks for a rotation to their key.
NeedsRotateKey(c, h) ==
    LET k == get_latest_encrypted_dkg_shares(c)
    IN  /\ k # info[c]
        /\ shares[c][k] = "unverified" => ~PastWindow(k, h)

\* The coordinator decides what its latest shares need; latest shares that
\* failed end the tenure with an error, and so does a missing registry key.
\* Both the shares and the need of a rotation are settled here, before the
\* verification round.
CheckRotateKey(h) ==
    LET c == coordinator[h]
        k == get_latest_encrypted_dkg_shares(c)
    IN  /\ phase[h] \in {"rotate", "fallback"}
        /\ last_dkg' = [last_dkg EXCEPT ![h] = k]
        /\ Go(h, IF k # 0 /\ shares[c][k] = "failed" THEN "over"
                 ELSE IF k # 0 /\ NeedsVerification(c, h)
                      THEN IF NeedsRotateKey(c, h) THEN "verify" ELSE "verify_only"
                 ELSE IF k # 0 /\ NeedsRotateKey(c, h) THEN "sign"
                 ELSE IF seen[h] # 0 THEN "sweep" ELSE "over")
        /\ UNCHANGED <<height, tip, shares, registry, rotated, configured, info,
                       coordinator, seen, key, begun, verifying, submitted,
                       swept>>

\* Whether s takes part in the verification of the key k at the tip h.
AcceptsVerification(s, k, h) ==
    /\ tip[s] = h
    /\ get_latest_encrypted_dkg_shares(s) = k
    /\ shares[s][k] # "failed"
    /\ ~PastWindow(k, h)

\* mutant: a threshold of signers suffices for the signing round
VerificationBeginThreshold(h) ==
    /\ phase[h] \in {"verify", "verify_only"}
    /\ verifying[h] = 0
    /\ Cardinality({s \in KeySigners : AcceptsVerification(s, last_dkg[h], h)})
           >= KeyThreshold
    /\ verifying' = [verifying EXCEPT ![h] = last_dkg[h]]
    /\ UNCHANGED <<height, tip, shares, registry, rotated, configured,
                   info, coordinator, seen, key, phase, last_dkg, begun,
                   submitted, swept>>

\* All the signers join the FROST signing round: without one of them it does
\* not end.
VerificationBegin(h) ==
    /\ phase[h] \in {"verify", "verify_only"}
    /\ verifying[h] = 0
    /\ \A s \in KeySigners : AcceptsVerification(s, last_dkg[h], h)
    /\ verifying' = [verifying EXCEPT ![h] = last_dkg[h]]
    /\ UNCHANGED <<height, tip, shares, registry, rotated, configured,
                   info, coordinator, seen, key, phase, last_dkg, begun,
                   submitted, swept>>

\* s has got all the signature shares, and the signature is valid.
VerificationSuccess(s, h) ==
    /\ verifying[h] # 0
    /\ AcceptsVerification(s, verifying[h], h)
    /\ shares[s][verifying[h]] = "unverified"
    /\ shares' = [shares EXCEPT ![s] = [shares[s] EXCEPT ![verifying[h]] =
                      verify_dkg_shares(shares[s][verifying[h]])]]
    /\ UNCHANGED <<height, tip, registry, rotated, configured, info,
                   coordinator, seen, key, phase, last_dkg, begun, verifying,
                   submitted, swept>>

\* The coordinator's own state machine has the signature.
VerificationDone(h) ==
    /\ phase[h] \in {"verify", "verify_only"}
    /\ verifying[h] # 0
    /\ Go(h, IF phase[h] = "verify" THEN "sign"
             ELSE IF seen[h] # 0 THEN "sweep" ELSE "over")
    /\ UNCHANGED <<height, tip, shares, registry, rotated, configured, info,
                   coordinator, seen, key, last_dkg, begun, verifying,
                   submitted, swept>>

\* RotateKeysV1::validate at the signer s.
ValidatesRotateKeys(s, k) ==
    /\ get_latest_encrypted_dkg_shares(s) = k
    /\ shares[s][k] = "verified"
    /\ k \notin rotated

\* A quorum signs the rotate-keys call, which ends the tenure.
SignRotateKeys(h) ==
    LET k == last_dkg[h]
    IN  /\ phase[h] = "sign"
        /\ Cardinality({s \in KeySigners : tip[s] = h /\ ValidatesRotateKeys(s, k)})
               >= KeyThreshold
        /\ submitted' = submitted \cup {k}
        /\ Go(h, "over")
        /\ UNCHANGED <<height, tip, shares, registry, rotated, configured,
                       info, coordinator, seen, key, last_dkg, begun,
                       verifying, swept>>

\* mutant: the error is logged, and the tenure goes on
SigningTimeoutIgnored(h) ==
    /\ phase[h] \in {"verify", "verify_only", "sign"}
    /\ Go(h, IF seen[h] # 0 THEN "sweep" ELSE "over")
    /\ UNCHANGED <<height, tip, shares, registry, rotated, configured, info,
                   coordinator, seen, key, last_dkg, begun, verifying,
                   submitted, swept>>

\* A round of signatures times out: the error ends the tenure.
SigningTimeout(h) ==
    /\ phase[h] \in {"verify", "verify_only", "sign"}
    /\ Go(h, "over")
    /\ UNCHANGED <<height, tip, shares, registry, rotated, configured, info,
                   coordinator, seen, key, last_dkg, begun, verifying,
                   submitted, swept>>

\* The sweeps of the tenure lock the signers' funds with its key.  The last of
\* the answers they are signed with is from a signer that is still at the tip.
Sweep(h) ==
    /\ phase[h] = "sweep"
    /\ \E s \in KeySigners : tip[s] = h
    /\ swept' = [swept EXCEPT ![h] = key[h]]
    /\ Go(h, "over")
    /\ UNCHANGED <<height, tip, shares, registry, rotated, configured, info,
                   coordinator, seen, key, last_dkg, begun, verifying,
                   submitted>>

\* One of the submitted calls is mined; the others have its nonce and are void.
rotate_keys(k) ==
    /\ k \in submitted
    /\ k \notin rotated
    /\ registry' = k
    /\ rotated' = rotated \cup {k}
    /\ submitted' = {}
    /\ UNCHANGED <<height, tip, shares, configured, info, coordinator, seen,
                   key, phase, last_dkg, begun, verifying, swept>>

-----------------------------------------------------------------------------
(* The specification.                                                      *)

\* Either nothing has happened yet, or the signers use key 1, which was made
\* for the configured signer set or for another one.
KeyInit ==
    /\ height = 1
    /\ tip = [s \in KeySigners |-> 1]
    /\ registry \in {0, 1}
    /\ shares = [s \in KeySigners |-> [k \in Keys |->
                    IF k = registry THEN "verified" ELSE "none"]]
    /\ rotated = {registry} \ {0}
    /\ configured \in SUBSET rotated
    /\ info = [s \in KeySigners |-> registry]
    /\ coordinator \in [Heights -> KeySigners]
    /\ coordinator = [h \in Heights |-> coordinator[1]]
    /\ seen = [h \in Heights |-> 0]
    /\ key = [h \in Heights |-> 0]
    /\ last_dkg = [h \in Heights |-> 0]
    /\ phase = [h \in Heights |-> IF h = 1 /\ registry = 1 THEN "over" ELSE "idle"]
    /\ begun = {}
    /\ verifying = [h \in Heights |-> 0]
    /\ submitted = {}
    /\ swept = [h \in Heights |-> 0]

KeyNext ==
    \/ NewBlock
    \/ \E s \in KeySigners : ObserveBlock(s)
    \/ \E s \in KeySigners, h \in Heights :
           StartTenure(s, h) \/ StoreShares(s, h) \/ VerificationSuccess(s, h)
    \/ \E h \in Heights :
           \/ DkgBegin(h) \/ DkgDone(h) \/ DkgTimeout(h)
           \/ CheckRotateKey(h)
           \/ VerificationBegin(h) \/ VerificationDone(h)
           \/ SignRotateKeys(h) \/ SigningTimeout(h)
           \/ Sweep(h)
    \/ \E k \in Keys : rotate_keys(k)

KeySpec == KeyInit /\ [][KeyNext]_keyvars

-----------------------------------------------------------------------------
(* Properties.                                                             *)

\* Types of the signers' tables, of the tenures and of the registry.
TypeOK ==
    /\ height \in Heights
    /\ tip \in [KeySigners -> Heights]
    /\ shares \in [KeySigners -> [Keys -> Status]]
    /\ registry \in 0 .. MaxKeyHeight
    /\ rotated \subseteq Keys
    /\ configured \subseteq Keys
    /\ info \in [KeySigners -> 0 .. MaxKeyHeight]
    /\ coordinator \in [Heights -> KeySigners]
    /\ seen \in [Heights -> 0 .. MaxKeyHeight]
    /\ key \in [Heights -> 0 .. MaxKeyHeight]
    /\ last_dkg \in [Heights -> 0 .. MaxKeyHeight]
    /\ phase \in [Heights -> {"idle", "dkg", "fallback", "rotate", "verify",
                              "verify_only", "sign", "sweep", "over"}]
    /\ begun \subseteq Heights
    /\ verifying \in [Heights -> 0 .. MaxKeyHeight]
    /\ submitted \subseteq Keys
    /\ swept \in [Heights -> 0 .. MaxKeyHeight]

\* A key that may become, or is, the key of the registry is known to be good
\* by a quorum, and every signer holds its share of it: the shares are stored
\* by all before one signer counts them as verified, and verified ones are
\* never revoked.
RegistryKeyIsUsable ==
    \A k \in rotated \cup submitted :
        /\ Cardinality({s \in KeySigners : shares[s][k] = "verified"}) >= KeyThreshold
        /\ \A s \in KeySigners : shares[s][k] # "none"

\* Sweeps lock the signers' funds with a key that the registry has held, never
\* with one that is still being verified or rotated to.
SweepsUseRegistryKeys ==
    \A h \in Heights : swept[h] # 0 => swept[h] \in rotated

\* A signer never holds two rounds of pending shares: only the latest row is
\* ever verified or failed, so that an older pending one would stay for good.
OnePendingRound ==
    \A s \in KeySigners :
        Cardinality(Rows(s, {"unverified"})) <= 1

\* Pending shares that could not be verified are marked as failed, and then
\* the signers run DKG again (unless a quorum can still rotate to them).
ResumesDkg ==
    \A s \in KeySigners :
        LET k == get_latest_encrypted_dkg_shares(s)
        IN  /\ k # 0 /\ shares[s][k] = "failed"
            /\ \A t \in KeySigners : tip[t] = height /\ Rows(t, {"unverified"}) = {}
            /\ should_run_dkg(s, height)
            => \/ \A t \in KeySigners : should_run_dkg(t, height)
               \/ Cardinality({t \in KeySigners : shares[t][k] = "verified"}) >= KeyThreshold
=============================================================================
