------------------------------ MODULE DkgProofs -----------------------------
(***************************************************************************)
(* Making a key and trying it, with any signers: the round of distributed  *)
(* key generation (DkgRound), then the round that verifies the key         *)
(* (DkgVerification).                                                      *)
(*                                                                         *)
(* All that a round of key generation stores and reports is one key, with  *)
(* any number of restarts; and without restarts no signer ends the round   *)
(* unheard.  The first rests on the seeded generator (PolyInv): every      *)
(* share that is published, held or stored in the round is of the one      *)
(* polynomial that create_rng gives.  The second follows a signer's        *)
(* private shares, which come before the request that could end the round  *)
(* (OnceInv).                                                              *)
(*                                                                         *)
(* The round that verifies a key refuses no message, lets a signer verify  *)
(* only what all have signed, and implements UnanimousRound, in whatever   *)
(* order the messages arrive.  The argument follows the signature shares:  *)
(* Got(s) are the signers whose share has reached s, and the FROST         *)
(* coordinator of s has counted or queued no other (Follows).  It succeeds *)
(* with the share of every signer, so that by then all have sent theirs    *)
(* and none is on its way to s.                                            *)
(***************************************************************************)
EXTENDS DkgRounds, TLAPS

-----------------------------------------------------------------------------
(* The round of key generation.                                            *)

\* The shares of the one polynomial of every signer: the key of the round.
TheKey == [s \in DkgSigners |-> 1]

\* What a signer can hold of the others: nothing, or the polynomial of the round.
Held == [DkgSigners -> {0, 1}]

\* The shape of a signer's machine, all of whose shares are of the round's polynomial.
IsDkgMachine(m) ==
    /\ DOMAIN m = {"state", "poly", "public", "private", "private_begin", "end_begin"}
    /\ m.public \in Held
    /\ m.private \in Held
    /\ m.state = "public_gather" => m.poly = 1

\* Everything published, held or stored is of the polynomials that create_rng gives.
PolyInv ==
    /\ \A q, p : DkgPublicShares(q, p) \in log => p = 1
    /\ \A q, p : DkgPrivateShares(q, p) \in log => p = 1
    /\ DOMAIN dkg_machine = DkgSigners
    /\ \A s \in DkgSigners : IsDkgMachine(dkg_machine[s])
    /\ DOMAIN stored = DkgSigners
    /\ \A s \in DkgSigners : stored[s] \in {NoShares, TheKey}
    /\ \A s \in DkgSigners : \A bad : DkgEnd(s, bad) \in log => stored[s] = TheKey

\* What the coordinator has gathered.
ResultInv ==
    /\ DOMAIN dkg_round = {"state", "wait", "public", "private", "reports"}
    /\ dkg_round.public \in Held /\ DOMAIN dkg_round.private = DkgSigners
    /\ dkg_round.state = "public_gather" => \A q \in DkgSigners \ dkg_round.wait : dkg_round.public[q] = 1
    /\ dkg_round.state \in {"private_gather", "end_gather", "dkg"} => dkg_round.public = TheKey
    /\ dkg_round.state = "end_gather" => \A q \in DkgSigners \ dkg_round.wait : stored[q] = TheKey
    /\ dkg_round.state = "dkg" => \A q \in DkgSigners : stored[q] = TheKey

\* The invariant behind the one key.
KInv == PolyInv /\ ResultInv

\* The signer has published its private shares.
PrivateSent(s) == \E p : DkgPrivateShares(s, p) \in log

\* Without restarts a signer has one machine, its private shares follow the
\* public ones, and the request to end the round follows all private shares.
OnceInv ==
    /\ DOMAIN seen = DkgSigners
    /\ \A s \in DkgSigners :
        /\ dkg_machine[s].state # "none" \/ PrivateSent(s) => Request("DkgBegin") \in seen[s]
        /\ PrivateSent(s) => dkg_machine[s].state # "public_gather"
        /\ dkg_machine[s].end_begin => Request("DkgEndBegin") \in log
    /\ Request("DkgEndBegin") \in log => \A s \in DkgSigners : PrivateSent(s)
    /\ dkg_round.state = "private_gather" => \A s \in DkgSigners \ dkg_round.wait : PrivateSent(s)

\* The invariant behind the end of the round, which restarts excuse.
EInv ==
    /\ restarts \in Nat
    /\ restarts = 0 => OnceInv /\ ignored = {}

-----------------------------------------------------------------------------
(* One key.                                                                *)

\* The messages of the round are told apart by their type.
LEMMA TypesDiffer ==
    /\ \A t : Request(t).type = t
    /\ \A q, p : DkgPublicShares(q, p).type = "DkgPublicShares" /\ DkgPublicShares(q, p).poly = p
    /\ \A q, p : /\ DkgPrivateShares(q, p).type = "DkgPrivateShares"
                 /\ DkgPrivateShares(q, p).poly = p /\ DkgPrivateShares(q, p).from = q
    /\ \A q, b : DkgEnd(q, b).type = "DkgEnd" /\ DkgEnd(q, b).from = q
BY DEF Request, DkgPublicShares, DkgPrivateShares, DkgEnd

\* Shares of every signer are the key of the round.
LEMMA AllHeld ==
    ASSUME NEW f \in Held, \A q \in DkgSigners : f[q] # 0
    PROVE  f = TheKey
BY DEF Held, TheKey

\* A machine that ends the round stores the key of the round, as none of the
\* shares it holds is bad.
LEMMA RelayStep ==
    ASSUME PolyInv, NEW s \in DkgSigners, NEW m, IsDkgMachine(m), relay_message(s, m)
    PROVE  PolyInv' /\ \A q \in DkgSigners : stored[q] = TheKey => stored'[q] = TheKey
<1>1. CASE ~can_dkg_end(m)
  BY <1>1 DEF relay_message, PolyInv
<1>2. CASE can_dkg_end(m)
  <2>1. m.public = TheKey /\ m.private = TheKey
    BY <1>2, AllHeld DEF can_dkg_end, IsDkgMachine
  <2>2. BadShares(m.public, m.private) = {}
    BY <2>1 DEF BadShares
  <2>3. dkg_ended(s, m).bad = {} /\ dkg_ended(s, m) = DkgEnd(s, {})
    BY <2>2 DEF dkg_ended, DkgEnd
  <2>4. /\ log' = log \cup {DkgEnd(s, {})}
        /\ stored' = [stored EXCEPT ![s] = TheKey]
        /\ dkg_machine' = [dkg_machine EXCEPT ![s] = NoDkgMachine]
    BY <1>2, <2>1, <2>3 DEF relay_message
  <2>5. IsDkgMachine(NoDkgMachine)
    BY DEF IsDkgMachine, NoDkgMachine, NoShares, Held
  <2> QED
    BY <2>4, <2>5, TypesDiffer DEF PolyInv
<1> QED
  BY <1>1, <1>2

\* DkgBegin makes a new machine, with the polynomial of the round.
LEMMA BeginStep ==
    ASSUME PolyInv, NEW s \in DkgSigners, DkgBegin(s)
    PROVE  PolyInv' /\ UNCHANGED stored
<1> DEFINE m == dkg_public_share(dkg_public_begin(1), s, 1)
<1>1. CASE stored[s] # NoShares
  BY <1>1 DEF DkgBegin, RefuseDkg, PolyInv
<1>2. CASE stored[s] = NoShares
  <2>1. /\ dkg_machine' = [dkg_machine EXCEPT ![s] = m]
        /\ log' = log \cup {DkgPublicShares(s, 1)}
        /\ UNCHANGED stored
    BY <1>2 DEF DkgBegin, create_rng
  <2>2. IsDkgMachine(m)
    BY DEF IsDkgMachine, dkg_public_share, dkg_public_begin, NoDkgMachine, NoShares, Held
  <2> HIDE DEF m
  <2> QED
    BY <2>1, <2>2, TypesDiffer DEF PolyInv
<1> QED
  BY <1>1, <1>2

\* The private shares that a signer sends are of the same polynomial.
LEMMA PrivateBeginStep ==
    ASSUME PolyInv, NEW s \in DkgSigners, DkgPrivateBegin(s)
    PROVE  PolyInv' /\ UNCHANGED <<stored, dkg_round>>
<1> DEFINE m == dkg_machine[s]
           own == dkg_private_shares(dkg_private_begin(m), s, m.poly)
<1>1. CASE m.state # "public_gather"
  BY <1>1 DEF DkgPrivateBegin, RefuseDkg, PolyInv
<1>2. CASE m.state = "public_gather"
  <2>1. IsDkgMachine(m) /\ m.poly = 1
    BY <1>2 DEF PolyInv, IsDkgMachine
  <2>2. IsDkgMachine(own) /\ IsDkgMachine([own EXCEPT !.state = "idle"])
    BY <2>1 DEF IsDkgMachine, dkg_private_shares, dkg_private_begin, Held
  <2>3. /\ log' = log \cup {DkgPrivateShares(s, 1)}
        /\ \/ dkg_machine' = [dkg_machine EXCEPT ![s] = own]
           \/ dkg_machine' = [dkg_machine EXCEPT ![s] = [own EXCEPT !.state = "idle"]]
        /\ UNCHANGED <<stored, dkg_round>>
    BY <1>2, <2>1, Zenon DEF DkgPrivateBegin
  <2> HIDE DEF own
  <2> QED
    BY <2>2, <2>3, TypesDiffer DEF PolyInv
<1> QED
  BY <1>1, <1>2

\* The messages that end in relay_message.
LEMMA AnswersStep ==
    ASSUME PolyInv, NEW s \in DkgSigners, NEW q \in DkgSigners, NEW p,
           DkgEndBegin(s) \/ ReceivePublicShares(s, q, p) \/ ReceivePrivateShares(s, q, p)
    PROVE  PolyInv' /\ \A t \in DkgSigners : stored[t] = TheKey => stored'[t] = TheKey
<1>1. CASE UNCHANGED <<log, dkg_machine, stored>>
  BY <1>1 DEF PolyInv
<1>2. CASE relay_message(s, dkg_end_begin(dkg_machine[s]))
  <2>1. IsDkgMachine(dkg_end_begin(dkg_machine[s]))
    BY DEF PolyInv, IsDkgMachine, dkg_end_begin
  <2> QED
    BY <1>2, <2>1, RelayStep
<1>3. CASE p = 1 /\ relay_message(s, dkg_public_share(dkg_machine[s], q, p))
  <2>1. IsDkgMachine(dkg_public_share(dkg_machine[s], q, p))
    BY <1>3 DEF PolyInv, IsDkgMachine, dkg_public_share, Held
  <2> QED
    BY <1>3, <2>1, RelayStep
<1>4. CASE p = 1 /\ relay_message(s, dkg_private_shares(dkg_machine[s], q, p))
  <2>1. IsDkgMachine(dkg_private_shares(dkg_machine[s], q, p))
    BY <1>4 DEF PolyInv, IsDkgMachine, dkg_private_shares, Held
  <2> QED
    BY <1>4, <2>1, RelayStep
<1>5. ReceivePublicShares(s, q, p) \/ ReceivePrivateShares(s, q, p) => p = 1
  BY DEF ReceivePublicShares, ReceivePrivateShares, Receive, PolyInv
<1> QED
  BY <1>1, <1>2, <1>3, <1>4, <1>5 DEF DkgEndBegin, ReceivePublicShares, ReceivePrivateShares, RefuseDkg

\* What the coordinator has gathered stays true while the signers go on.
LEMMA ResultStable ==
    ASSUME ResultInv, UNCHANGED dkg_round,
           \A q \in DkgSigners : stored[q] = TheKey => stored'[q] = TheKey
    PROVE  ResultInv'
BY DEF ResultInv

\* A step of a signer.
LEMMA SignerKey ==
    ASSUME KInv, NEW s \in DkgSigners, DkgSignerLoop(s)
    PROVE  KInv'
<1>1. CASE DkgBegin(s)
  BY <1>1, BeginStep, ResultStable, Zenon DEF KInv, DkgBegin, Receive
<1>2. CASE DkgPrivateBegin(s)
  BY <1>2, PrivateBeginStep, ResultStable DEF KInv
<1>3. CASE DkgEndBegin(s)
  BY <1>3, AnswersStep, ResultStable, Zenon DEF KInv, DkgEndBegin, Receive
<1>4. ASSUME NEW q \in DkgSigners, NEW p \in Polynomials,
             ReceivePublicShares(s, q, p) \/ ReceivePrivateShares(s, q, p)
      PROVE  KInv'
  BY <1>4, AnswersStep, ResultStable DEF KInv, ReceivePublicShares, ReceivePrivateShares, Receive
<1> QED
  BY <1>1, <1>2, <1>3, <1>4 DEF DkgSignerLoop

\* A request of the coordinator carries no shares.
LEMMA RequestStep ==
    ASSUME PolyInv, NEW t \in {"DkgBegin", "DkgPrivateBegin", "DkgEndBegin"},
           log' = log \cup {Request(t)} \/ UNCHANGED log, UNCHANGED <<dkg_machine, stored>>
    PROVE  PolyInv'
BY TypesDiffer DEF PolyInv

\* A message that reaches the coordinator: shares are of the polynomial of the
\* round, and a signer that ends the round has stored the key.
LEMMA DriveKey ==
    ASSUME KInv, NEW msg \in log, drive_dkg_state_machine(msg)
    PROVE  KInv'
<1>1. UNCHANGED <<dkg_machine, stored>>
  BY DEF drive_dkg_state_machine
<1>2. CASE UNCHANGED <<dkg_round, log>>
  BY <1>1, <1>2 DEF KInv, PolyInv, ResultInv
<1>3. /\ msg.type = "DkgPublicShares" => msg.poly = 1 /\ msg.from \in DkgSigners
      /\ msg.type = "DkgPrivateShares" => msg.from \in DkgSigners
      /\ msg.type = "DkgEnd" => stored[msg.from] = TheKey
  <2>1. msg \in ShareMessages \/ msg \in EndMessages
    BY DEF drive_dkg_state_machine
  <2>2. CASE msg \in ShareMessages
    <3>1. msg.type = "DkgPublicShares" => msg = DkgPublicShares(msg.from, msg.poly)
      BY <2>2 DEF ShareMessages, DkgPublicShares
    <3> QED
      BY <2>2, <3>1 DEF ShareMessages, KInv, PolyInv
  <2>3. CASE msg \in EndMessages
    <3>1. msg = DkgEnd(msg.from, msg.bad) /\ msg.from \in DkgSigners /\ msg.type = "DkgEnd"
      BY <2>3 DEF EndMessages, DkgEnd
    <3> QED
      BY <3>1 DEF KInv, PolyInv
  <2> QED
    BY <2>1, <2>2, <2>3
<1>4. CASE dkg_round.state = "public_gather" /\ msg.type = "DkgPublicShares" /\ gather_public_shares(msg)
  <2> DEFINE shares == [dkg_round EXCEPT !.public[msg.from] = msg.poly]
  <2>1. Gathered(shares, msg.from, "private_gather", "DkgPrivateBegin")
    BY <1>4 DEF gather_public_shares
  <2>2. /\ DOMAIN shares = DOMAIN dkg_round /\ shares.public \in Held /\ shares.private = dkg_round.private
        /\ \A q \in DkgSigners \ dkg_round.wait : shares.public[q] = 1
        /\ shares.public[msg.from] = 1
        /\ shares.state = dkg_round.state /\ shares.wait = dkg_round.wait
    BY <1>3, <1>4 DEF KInv, ResultInv, Held
  <2> HIDE DEF shares
  <2>3. PolyInv'
    BY <1>1, <2>1, RequestStep DEF KInv, Gathered
  <2>4. CASE dkg_round.wait \subseteq {msg.from}
    <3>1. dkg_round' = [shares EXCEPT !.state = "private_gather", !.wait = DkgSigners]
      BY <2>1, <2>4 DEF Gathered
    <3>2. shares.public = TheKey
      BY <2>2, <2>4, AllHeld
    <3> QED
      BY <2>2, <2>3, <3>1, <3>2, <1>1 DEF KInv, ResultInv
  <2>5. CASE ~(dkg_round.wait \subseteq {msg.from})
    <3>1. dkg_round' = [shares EXCEPT !.wait = @ \ {msg.from}]
      BY <2>1, <2>5 DEF Gathered
    <3> QED
      BY <2>2, <2>3, <3>1, <1>1, <1>4 DEF KInv, ResultInv
  <2> QED
    BY <2>4, <2>5
<1>5. CASE dkg_round.state = "private_gather" /\ msg.type = "DkgPrivateShares" /\ gather_private_shares(msg)
  <2> DEFINE shares == [dkg_round EXCEPT !.private[msg.from] = msg.poly]
  <2>1. Gathered(shares, msg.from, "end_gather", "DkgEndBegin")
    BY <1>5 DEF gather_private_shares
  <2>2. /\ DOMAIN shares = DOMAIN dkg_round /\ shares.public = dkg_round.public
        /\ DOMAIN shares.private = DkgSigners /\ shares.state = dkg_round.state
    BY <1>3, <1>5 DEF KInv, ResultInv
  <2> HIDE DEF shares
  <2>3. PolyInv'
    BY <1>1, <2>1, RequestStep DEF KInv, Gathered
  <2>4. \/ dkg_round' = [shares EXCEPT !.state = "end_gather", !.wait = DkgSigners]
        \/ dkg_round' = [shares EXCEPT !.wait = @ \ {msg.from}]
    BY <2>1 DEF Gathered
  <2> QED
    BY <2>2, <2>3, <2>4, <1>1, <1>5, Zenon DEF KInv, ResultInv
<1>6. CASE dkg_round.state = "end_gather" /\ gather_dkg_end(msg) /\ dkg_round' # dkg_round
  <2> DEFINE next == [dkg_round EXCEPT !.wait = @ \ {msg.from}, !.reports = dkg_round.reports \cup {msg.bad}]
             outcome == IF dkg_failures(dkg_round.reports \cup {msg.bad}) = {} THEN "dkg" ELSE "failed"
  <2>1. /\ UNCHANGED log /\ msg.type = "DkgEnd"
        /\ IF next.wait # {} THEN dkg_round' = next ELSE dkg_round' = [next EXCEPT !.state = outcome]
    BY <1>6, Zenon DEF gather_dkg_end
  <2>2. /\ DOMAIN next = DOMAIN dkg_round /\ next.public = dkg_round.public /\ next.private = dkg_round.private
        /\ next.state = dkg_round.state /\ next.wait = dkg_round.wait \ {msg.from}
    BY DEF KInv, ResultInv
  <2>3. outcome \in {"dkg", "failed"}
    OBVIOUS
  <2> HIDE DEF next, outcome
  <2>4. PolyInv'
    BY <1>1, <2>1 DEF KInv, PolyInv
  <2>5. \A q \in DkgSigners \ next.wait : stored[q] = TheKey
    BY <1>3, <1>6, <2>1, <2>2 DEF KInv, ResultInv
  <2>6. ResultInv'
    BY <1>1, <1>6, <2>1, <2>2, <2>3, <2>5 DEF KInv, ResultInv
  <2> QED
    BY <2>4, <2>6 DEF KInv
<1> QED
  BY <1>2, <1>4, <1>5, <1>6 DEF drive_dkg_state_machine, gather_public_shares,
                                gather_private_shares, gather_dkg_end

\* The other steps: the coordinator starts or gives up, or a process restarts,
\* which forgets all but the stored shares.
LEMMA OtherKey ==
    ASSUME KInv, start_public_shares \/ DkgCoordinatorTimeout \/ (\E s \in DkgSigners : Restart(s))
                 \/ UNCHANGED dkgvars
    PROVE  KInv'
<1>1. CASE start_public_shares
  <2>1. PolyInv'
    BY <1>1, RequestStep DEF start_public_shares, KInv
  <2>2. ResultInv'
    BY <1>1 DEF start_public_shares, KInv, ResultInv
  <2> QED
    BY <2>1, <2>2 DEF KInv
<1>2. CASE DkgCoordinatorTimeout
  <2>1. PolyInv'
    BY <1>2 DEF DkgCoordinatorTimeout, KInv, PolyInv
  <2>2. ResultInv'
    BY <1>2 DEF DkgCoordinatorTimeout, KInv, ResultInv
  <2> QED
    BY <2>1, <2>2 DEF KInv
<1>3. ASSUME NEW s \in DkgSigners, Restart(s) PROVE KInv'
  <2>1. IsDkgMachine(NoDkgMachine)
    BY DEF IsDkgMachine, NoDkgMachine, NoShares, Held
  <2>2. PolyInv'
    BY <1>3, <2>1 DEF Restart, KInv, PolyInv
  <2>3. ResultInv'
    BY <1>3 DEF Restart, KInv, ResultInv, NoShares, Held
  <2> QED
    BY <2>2, <2>3 DEF KInv
<1>4. CASE UNCHANGED dkgvars
  BY <1>4 DEF dkgvars, KInv, PolyInv, ResultInv
<1> QED
  BY <1>1, <1>2, <1>3, <1>4

\* The invariant is one of the specification.
LEMMA KeyInvariant == DkgSpec => []KInv
<1>1. DkgInit => KInv
  BY DEF DkgInit, KInv, PolyInv, ResultInv, IsDkgMachine, NoDkgMachine, NoShares, Held
<1>2. KInv /\ [DkgNext]_dkgvars => KInv'
  BY SignerKey, DriveKey, OtherKey DEF DkgNext, DkgCoordinatorLoop
<1> QED
  BY <1>1, <1>2, PTL DEF DkgSpec

\* For any signers and any number of restarts: all stored shares and the
\* coordinator's result are of one key, since create_rng seeds the generator of
\* the polynomials with the block, and when the coordinator reports the key
\* every signer has stored its shares of it (store_dkg_shares).
THEOREM OneKeyPerRound == DkgSpec => []SameKey
<1>1. KInv => OneKey
  BY DEF KInv, PolyInv, ResultInv, OneKey
<1>2. KInv => ResultIsStored
  <2>1. \A s \in DkgSigners : TheKey[s] # NoShares[s]
    BY DEF TheKey, NoShares
  <2> QED
    BY <2>1, Zenon DEF KInv, ResultInv, ResultIsStored
<1> QED
  BY <1>1, <1>2, KeyInvariant, PTL DEF SameKey

-----------------------------------------------------------------------------
(* No signer ends the round unheard.                                       *)

\* The steps that start no machine and send no private shares or request to
\* end.
LEMMA OnceStable ==
    ASSUME OnceInv, DOMAIN seen' = DkgSigners, UNCHANGED dkg_round,
           \A q \in DkgSigners :
               /\ Request("DkgBegin") \in seen[q] => Request("DkgBegin") \in seen'[q]
               /\ PrivateSent(q)' <=> PrivateSent(q)
               /\ dkg_machine'[q].state # "none" => dkg_machine[q].state # "none"
               /\ dkg_machine'[q].state = "public_gather" => dkg_machine[q].state = "public_gather"
               /\ dkg_machine'[q].end_begin => dkg_machine[q].end_begin \/ Request("DkgEndBegin") \in log,
           Request("DkgEndBegin") \in log' <=> Request("DkgEndBegin") \in log
    PROVE  OnceInv'
BY DEF OnceInv

\* The messages that end in relay_message.
LEMMA RelayOnce ==
    ASSUME KInv, OnceInv, NEW s \in DkgSigners, NEW m, relay_message(s, m),
           DOMAIN m = DOMAIN dkg_machine[s], m.state = dkg_machine[s].state,
           m.end_begin => dkg_machine[s].end_begin \/ Request("DkgEndBegin") \in log,
           NEW msg, Receive(s, msg)
    PROVE  OnceInv'
<1>1. /\ seen' = [seen EXCEPT ![s] = @ \cup {msg}] /\ UNCHANGED dkg_round
      /\ DOMAIN seen' = DkgSigners /\ \A q \in DkgSigners : seen[q] \subseteq seen'[q]
  BY DEF Receive, OnceInv
<1>2. log' = log \/ log' = log \cup {dkg_ended(s, m)}
  BY DEF relay_message
<1>3. /\ \A q \in DkgSigners : PrivateSent(q)' <=> PrivateSent(q)
      /\ Request("DkgEndBegin") \in log' <=> Request("DkgEndBegin") \in log
  BY <1>2, TypesDiffer DEF dkg_ended, PrivateSent
<1>4. \/ dkg_machine' = [dkg_machine EXCEPT ![s] = m]
      \/ dkg_machine' = [dkg_machine EXCEPT ![s] = NoDkgMachine]
      \/ dkg_machine' = [dkg_machine EXCEPT ![s] = [m EXCEPT !.state = "idle"]] /\ can_dkg_end(m)
  BY DEF relay_message
<1>5. /\ DOMAIN dkg_machine = DkgSigners
      /\ DOMAIN m = {"state", "poly", "public", "private", "private_begin", "end_begin"}
  BY DEF KInv, PolyInv, IsDkgMachine
<1>6. \A q \in DkgSigners :
          /\ dkg_machine'[q].state # "none" => dkg_machine[q].state # "none"
          /\ dkg_machine'[q].state = "public_gather" => dkg_machine[q].state = "public_gather"
          /\ dkg_machine'[q].end_begin => dkg_machine[q].end_begin \/ Request("DkgEndBegin") \in log
  BY <1>4, <1>5 DEF NoDkgMachine, can_dkg_end
<1> QED
  BY <1>1, <1>3, <1>6, OnceStable

\* A message that is refused, or only noted.
LEMMA RefusedOnce ==
    ASSUME OnceInv, NEW s \in DkgSigners, NEW msg, Receive(s, msg), UNCHANGED <<log, dkg_machine>>
    PROVE  OnceInv'
<1>1. /\ UNCHANGED dkg_round
      /\ DOMAIN seen' = DkgSigners /\ \A q \in DkgSigners : seen[q] \subseteq seen'[q]
  BY DEF Receive, OnceInv
<1>2. \A q \in DkgSigners : PrivateSent(q)' <=> PrivateSent(q)
  BY DEF PrivateSent
<1> QED
  BY <1>1, <1>2, OnceStable

\* DkgBegin starts the one machine of the signer: it has had none, and its
\* private shares are still to come.
LEMMA BeginOnce ==
    ASSUME KInv, OnceInv, NEW s \in DkgSigners, DkgBegin(s)
    PROVE  OnceInv'
<1>1. CASE stored[s] # NoShares
  BY <1>1, RefusedOnce DEF DkgBegin, RefuseDkg
<1>2. CASE stored[s] = NoShares
  <2> DEFINE m == dkg_public_share(dkg_public_begin(1), s, 1)
  <2>1. /\ dkg_machine' = [dkg_machine EXCEPT ![s] = m]
        /\ log' = log \cup {DkgPublicShares(s, 1)}
        /\ seen' = [seen EXCEPT ![s] = @ \cup {Request("DkgBegin")}]
        /\ Request("DkgBegin") \notin seen[s] /\ UNCHANGED dkg_round
    BY <1>2 DEF DkgBegin, create_rng, Receive
  <2>2. ~PrivateSent(s)
    BY <2>1 DEF OnceInv
  <2>3. ~m.end_begin
    BY DEF dkg_public_share, dkg_public_begin, NoDkgMachine
  <2> HIDE DEF m
  <2>4. /\ \A q \in DkgSigners : PrivateSent(q)' <=> PrivateSent(q)
        /\ Request("DkgEndBegin") \in log' <=> Request("DkgEndBegin") \in log
    BY <2>1, TypesDiffer DEF PrivateSent
  <2>5. DOMAIN dkg_machine = DkgSigners
    BY DEF KInv, PolyInv
  <2>6. ASSUME NEW q \in DkgSigners
        PROVE  /\ dkg_machine'[q].state # "none" \/ PrivateSent(q)' => Request("DkgBegin") \in seen'[q]
               /\ PrivateSent(q)' => dkg_machine'[q].state # "public_gather"
               /\ dkg_machine'[q].end_begin => Request("DkgEndBegin") \in log'
    <3>1. CASE q = s
      BY <3>1, <2>1, <2>2, <2>3, <2>4, <2>5 DEF OnceInv
    <3>2. CASE q # s
      BY <3>2, <2>1, <2>4, <2>5 DEF OnceInv
    <3> QED
      BY <3>1, <3>2
  <2> QED
    BY <2>1, <2>4, <2>6 DEF OnceInv
<1> QED
  BY <1>1, <1>2

\* The signer's own private shares do not end the round: before they are sent,
\* the coordinator has not requested the end.
LEMMA PrivateBeginOnce ==
    ASSUME KInv, OnceInv, NEW s \in DkgSigners, DkgPrivateBegin(s)
    PROVE  OnceInv' /\ UNCHANGED ignored
<1> DEFINE m == dkg_machine[s]
           own == dkg_private_shares(dkg_private_begin(m), s, m.poly)
           request == Request("DkgPrivateBegin")
           shares == DkgPrivateShares(s, m.poly)
<1>1. CASE m.state # "public_gather"
  <2>1. Receive(s, request) /\ UNCHANGED <<log, dkg_machine, ignored>>
    BY <1>1 DEF DkgPrivateBegin, RefuseDkg, Receive
  <2> QED
    BY <2>1, RefusedOnce
<1>2. CASE m.state = "public_gather"
  <2>1. ~PrivateSent(s)
    BY <1>2 DEF OnceInv
  <2>2. ~m.end_begin /\ Request("DkgEndBegin") \notin log
    BY <2>1 DEF OnceInv
  <2>3. own.end_begin = m.end_begin /\ own.state = "private_gather"
    BY DEF dkg_private_shares, dkg_private_begin, KInv, PolyInv, IsDkgMachine
  <2>4. ~can_dkg_end(own)
    BY <2>2, <2>3, Zenon DEF can_dkg_end
  <2>5. /\ dkg_machine' = [dkg_machine EXCEPT ![s] = own] /\ UNCHANGED <<ignored, dkg_round>>
        /\ log' = log \cup {shares}
        /\ seen' = Unseen([seen EXCEPT ![s] = @ \cup {request}], shares)
    BY <1>2, <2>4, Zenon DEF DkgPrivateBegin
  <2> HIDE DEF own
  <2>6. /\ DOMAIN seen' = DkgSigners
        /\ \A q \in DkgSigners : Request("DkgBegin") \in seen[q] => Request("DkgBegin") \in seen'[q]
    BY <2>5, TypesDiffer DEF Unseen, OnceInv
  <2>7. /\ \A q \in DkgSigners \ {s} : PrivateSent(q)' <=> PrivateSent(q)
        /\ Request("DkgEndBegin") \notin log'
    BY <2>2, <2>5, TypesDiffer DEF PrivateSent
  <2>8. \A q \in DkgSigners : PrivateSent(q) => PrivateSent(q)'
    BY <2>5 DEF PrivateSent
  <2>9. DOMAIN dkg_machine = DkgSigners
    BY DEF KInv, PolyInv
  <2>10. ASSUME NEW q \in DkgSigners
         PROVE  /\ dkg_machine'[q].state # "none" \/ PrivateSent(q)' => Request("DkgBegin") \in seen'[q]
                /\ PrivateSent(q)' => dkg_machine'[q].state # "public_gather"
                /\ dkg_machine'[q].end_begin => Request("DkgEndBegin") \in log'
    <3>1. CASE q = s
      BY <3>1, <1>2, <2>2, <2>3, <2>5, <2>6, <2>9, Zenon DEF OnceInv
    <3>2. CASE q # s
      BY <3>2, <2>2, <2>5, <2>6, <2>7, <2>9, Zenon DEF OnceInv
    <3> QED
      BY <3>1, <3>2
  <2> QED
    BY <2>5, <2>6, <2>7, <2>8, <2>10, Zenon DEF OnceInv
<1> QED
  BY <1>1, <1>2

\* A step of a signer.
LEMMA SignerOnce ==
    ASSUME KInv, OnceInv, NEW s \in DkgSigners, DkgSignerLoop(s)
    PROVE  OnceInv' /\ UNCHANGED ignored
<1>1. CASE DkgBegin(s)
  BY <1>1, BeginOnce DEF DkgBegin, RefuseDkg
<1>2. CASE DkgPrivateBegin(s)
  BY <1>2, PrivateBeginOnce
<1> DEFINE m == dkg_machine[s]
<1>3. DOMAIN m = {"state", "poly", "public", "private", "private_begin", "end_begin"}
  BY DEF KInv, PolyInv, IsDkgMachine
<1>4. CASE DkgEndBegin(s)
  <2>1. CASE m.state = "none"
    BY <1>4, <2>1, RefusedOnce DEF DkgEndBegin, RefuseDkg
  <2>2. CASE m.state # "none"
    <3> DEFINE n == dkg_end_begin(m)
    <3>1. /\ Receive(s, Request("DkgEndBegin")) /\ relay_message(s, n)
          /\ UNCHANGED ignored /\ Request("DkgEndBegin") \in log
      BY <1>4, <2>2 DEF DkgEndBegin, Receive
    <3>2. DOMAIN n = DOMAIN m /\ n.state = m.state
      BY <1>3 DEF dkg_end_begin
    <3> HIDE DEF n
    <3> QED
      BY <3>1, <3>2, RelayOnce
  <2> QED
    BY <2>1, <2>2
<1>5. ASSUME NEW q \in DkgSigners, NEW p \in Polynomials,
             ReceivePublicShares(s, q, p) \/ ReceivePrivateShares(s, q, p)
      PROVE  OnceInv' /\ UNCHANGED ignored
  <2>1. PICK msg : Receive(s, msg)
    BY <1>5 DEF ReceivePublicShares, ReceivePrivateShares
  <2>2. CASE m.state = "none"
    BY <1>5, <2>1, <2>2, RefusedOnce DEF ReceivePublicShares, ReceivePrivateShares, RefuseDkg
  <2>3. CASE m.state # "none"
    <3>1. PICK n : /\ n = dkg_public_share(m, q, p) \/ n = dkg_private_shares(m, q, p)
                   /\ relay_message(s, n) /\ UNCHANGED ignored
      BY <1>5, <2>3 DEF ReceivePublicShares, ReceivePrivateShares
    <3>2. DOMAIN n = DOMAIN m /\ n.state = m.state /\ n.end_begin = m.end_begin
      BY <1>3, <3>1 DEF dkg_public_share, dkg_private_shares
    <3> QED
      BY <2>1, <3>1, <3>2, RelayOnce
  <2> QED
    BY <2>2, <2>3
<1> QED
  BY <1>1, <1>2, <1>4, <1>5 DEF DkgSignerLoop

\* The coordinator requests the end with the last private shares.
LEMMA DriveOnce ==
    ASSUME KInv, OnceInv, NEW msg \in log, drive_dkg_state_machine(msg)
    PROVE  OnceInv'
<1>1. UNCHANGED dkg_machine
  BY DEF drive_dkg_state_machine
<1>2. ASSUME NEW t \in {"DkgPrivateBegin", "DkgEndBegin"}, log' = log \cup {Request(t)},
             seen' = Unseen(seen, Request(t))
      PROVE  /\ DOMAIN seen' = DkgSigners
             /\ \A q \in DkgSigners : Request("DkgBegin") \in seen[q] => Request("DkgBegin") \in seen'[q]
             /\ \A q \in DkgSigners : PrivateSent(q)' <=> PrivateSent(q)
             /\ Request("DkgEndBegin") \in log' =>
                    t = "DkgEndBegin" \/ Request("DkgEndBegin") \in log
  BY <1>2, TypesDiffer DEF Unseen, OnceInv, PrivateSent
<1>3. ASSUME UNCHANGED <<log, seen>>,
             dkg_round'.state = "private_gather" =>
                 \A q \in DkgSigners \ dkg_round'.wait : PrivateSent(q)
      PROVE  OnceInv'
  BY <1>1, <1>3 DEF OnceInv, PrivateSent
<1>4. CASE dkg_round.state = "public_gather" /\ gather_public_shares(msg)
  <2>1. CASE msg.type # "DkgPublicShares"
    BY <1>3, <1>4, <2>1 DEF gather_public_shares
  <2>2. CASE msg.type = "DkgPublicShares"
    <3> DEFINE shares == [dkg_round EXCEPT !.public[msg.from] = msg.poly]
    <3>1. Gathered(shares, msg.from, "private_gather", "DkgPrivateBegin")
      BY <1>4, <2>2 DEF gather_public_shares
    <3>2. DOMAIN shares = DOMAIN dkg_round /\ shares.state = "public_gather"
      BY <1>4 DEF KInv, ResultInv
    <3> HIDE DEF shares
    <3>3. CASE dkg_round.wait \subseteq {msg.from}
      <4>1. /\ dkg_round' = [shares EXCEPT !.state = "private_gather", !.wait = DkgSigners]
            /\ log' = log \cup {Request("DkgPrivateBegin")}
            /\ seen' = Unseen(seen, Request("DkgPrivateBegin"))
        BY <3>1, <3>3 DEF Gathered
      <4>2. dkg_round'.wait = DkgSigners
        BY <3>2, <4>1 DEF KInv, ResultInv
      <4>3. Request("DkgEndBegin") \in log' <=> Request("DkgEndBegin") \in log
        BY <1>2, <4>1
      <4> QED
        BY <1>1, <1>2, <4>1, <4>2, <4>3 DEF OnceInv
    <3>4. CASE ~(dkg_round.wait \subseteq {msg.from})
      <4>1. dkg_round' = [shares EXCEPT !.wait = @ \ {msg.from}] /\ UNCHANGED <<log, seen>>
        BY <3>1, <3>4 DEF Gathered
      <4>2. dkg_round'.state = "public_gather"
        BY <3>2, <4>1 DEF KInv, ResultInv
      <4> QED
        BY <1>3, <4>1, <4>2
    <3> QED
      BY <3>3, <3>4
  <2> QED
    BY <2>1, <2>2
<1>5. CASE dkg_round.state = "private_gather" /\ gather_private_shares(msg)
  <2>1. CASE msg.type # "DkgPrivateShares"
    BY <1>3, <1>5, <2>1 DEF gather_private_shares, OnceInv
  <2>2. CASE msg.type = "DkgPrivateShares"
    <3> DEFINE shares == [dkg_round EXCEPT !.private[msg.from] = msg.poly]
    <3>1. Gathered(shares, msg.from, "end_gather", "DkgEndBegin")
      BY <1>5, <2>2 DEF gather_private_shares
    <3>2. DOMAIN shares = DOMAIN dkg_round /\ shares.wait = dkg_round.wait
      BY DEF KInv, ResultInv
    <3>3. PrivateSent(msg.from)
      <4>1. msg = DkgPrivateShares(msg.from, msg.poly)
        BY <2>2 DEF drive_dkg_state_machine, ShareMessages, EndMessages, DkgPrivateShares
      <4> QED
        BY <4>1 DEF PrivateSent
    <3> HIDE DEF shares
    <3>4. CASE dkg_round.wait \subseteq {msg.from}
      <4>1. /\ dkg_round' = [shares EXCEPT !.state = "end_gather", !.wait = DkgSigners]
            /\ log' = log \cup {Request("DkgEndBegin")}
            /\ seen' = Unseen(seen, Request("DkgEndBegin"))
        BY <3>1, <3>4 DEF Gathered
      <4>2. dkg_round'.state = "end_gather"
        BY <3>2, <4>1 DEF KInv, ResultInv
      <4>3. \A q \in DkgSigners : PrivateSent(q)
        BY <1>5, <3>3, <3>4 DEF OnceInv
      <4> QED
        BY <1>1, <1>2, <4>1, <4>2, <4>3 DEF OnceInv
    <3>5. CASE ~(dkg_round.wait \subseteq {msg.from})
      <4>1. dkg_round' = [shares EXCEPT !.wait = @ \ {msg.from}] /\ UNCHANGED <<log, seen>>
        BY <3>1, <3>5 DEF Gathered
      <4>2. dkg_round'.wait = dkg_round.wait \ {msg.from}
        BY <3>2, <4>1 DEF KInv, ResultInv
      <4> QED
        BY <1>3, <1>5, <3>3, <4>1, <4>2 DEF OnceInv
    <3> QED
      BY <3>4, <3>5
  <2> QED
    BY <2>1, <2>2
<1>6. CASE dkg_round.state = "end_gather" /\ gather_dkg_end(msg)
  <2>1. UNCHANGED <<log, seen>>
    BY <1>6, Zenon DEF gather_dkg_end
  <2>2. dkg_round'.state # "private_gather"
    BY <1>6, Zenon DEF gather_dkg_end, KInv, ResultInv
  <2> QED
    BY <1>3, <2>1, <2>2
<1> QED
  BY <1>4, <1>5, <1>6 DEF drive_dkg_state_machine

\* Without restarts, the invariant is kept by every step.
LEMMA OnceStep == ASSUME KInv, EInv, [DkgNext]_dkgvars PROVE EInv'
<1>1. ASSUME NEW s \in DkgSigners, DkgSignerLoop(s) PROVE EInv'
  <2>1. UNCHANGED restarts
    BY <1>1, Zenon DEF DkgSignerLoop, DkgBegin, DkgPrivateBegin, DkgEndBegin, ReceivePublicShares,
                       ReceivePrivateShares, Receive
  <2> QED
    BY <1>1, <2>1, SignerOnce DEF EInv
<1>2. ASSUME NEW msg \in log, drive_dkg_state_machine(msg) PROVE EInv'
  <2>1. UNCHANGED <<restarts, ignored>>
    BY <1>2 DEF drive_dkg_state_machine
  <2> QED
    BY <1>2, <2>1, DriveOnce DEF EInv
<1>3. CASE start_public_shares
  <2>1. dkg_round'.state = "public_gather"
    BY <1>3 DEF start_public_shares, KInv, ResultInv
  <2>2. /\ \A q \in DkgSigners : PrivateSent(q)' <=> PrivateSent(q)
        /\ Request("DkgEndBegin") \in log' <=> Request("DkgEndBegin") \in log
    BY <1>3, TypesDiffer DEF start_public_shares, PrivateSent
  <2> QED
    BY <1>3, <2>1, <2>2 DEF start_public_shares, EInv, OnceInv
<1>4. CASE DkgCoordinatorTimeout
  <2>1. dkg_round'.state = "timeout"
    BY <1>4 DEF DkgCoordinatorTimeout, KInv, ResultInv
  <2> QED
    BY <1>4, <2>1 DEF DkgCoordinatorTimeout, EInv, OnceInv, PrivateSent
<1>5. ASSUME NEW s \in DkgSigners, Restart(s) PROVE EInv'
  BY <1>5 DEF Restart, EInv
<1>6. CASE UNCHANGED dkgvars
  BY <1>6 DEF dkgvars, EInv, OnceInv, PrivateSent
<1> QED
  BY <1>1, <1>2, <1>3, <1>4, <1>5, <1>6 DEF DkgNext, DkgCoordinatorLoop

\* For any signers: without restarts no signer ends the round on its own
\* private shares, when relay_message would ignore the DkgEnd that results.
THEOREM NoEndIsIgnored == DkgSpec => []NoEndIgnored
<1>1. DkgInit => EInv
  BY DEF DkgInit, EInv, OnceInv, PrivateSent, NoDkgMachine
<1>2. KInv /\ EInv /\ [DkgNext]_dkgvars => EInv'
  BY OnceStep
<1>3. EInv => NoEndIgnored
  BY DEF EInv, NoEndIgnored
<1> QED
  BY <1>1, <1>2, <1>3, KeyInvariant, PTL DEF DkgSpec

-----------------------------------------------------------------------------
(* The round that verifies the key.                                        *)

\* The coordinator's second request.
SignatureShareRequested == [type |-> "SignatureShareRequest"]

\* The signers whose signature share has reached s, or is its own.
Got(s) == {q \in sent : SignatureShareResponse(q) \notin inbox[s]}

\* The signers that have answered the nonce request.
Joined == signing \cup verified

\* The shape of a FROST coordinator's record.
IsMachine(m) ==
    /\ DOMAIN m = {"state", "frost", "queue", "awaited"}
    /\ m.frost \in {"idle", "nonce_gather", "share_gather"}
    /\ m.awaited \subseteq Signers

\* A FROST coordinator has counted and queued only shares of the signers in X,
\* and has succeeded only with the shares of all.
Follows(m, X) ==
    /\ IsMachine(m)
    /\ \A msg \in m.queue : msg.type = "SignatureShareResponse" => msg.from \in X
    /\ m.frost = "share_gather" => Signers \ m.awaited \subseteq X
    /\ m.state = "success" => Signers \subseteq X

\* What the signers' FROST coordinators have counted.
SignersInv ==
    \A s \in Signers :
        /\ Follows(machine[s], Got(s))
        /\ \A q \in Signers : SignatureShareResponse(q) \in inbox[s] => q \in sent
        /\ s \in verified => Signers \subseteq Got(s)
        /\ s \in signing => machine[s].state # "none"

\* The signature shares are requested once, when all the signers have joined.
RequestInv ==
    /\ \A s \in Signers : SignatureShareRequested \in inbox[s] => s \notin sent /\ Signers \subseteq Joined
    /\ sent # {} => Signers \subseteq Joined
    /\ \A q \in Signers : NonceResponse(q) \in mail => q \in Joined
    /\ IsMachine(round)
    /\ round.state = "none" \/ round.frost = "nonce_gather" =>
          sent = {} /\ \A s \in Signers : SignatureShareRequested \notin inbox[s]
    /\ round.frost = "nonce_gather" => Signers \ round.awaited \subseteq Joined
    /\ round.state = "none" => round = NoMachine

\* The domains of the variables, as far as the proofs need them.
TypesInv ==
    /\ DOMAIN inbox = Signers /\ DOMAIN machine = Signers
    /\ signing \subseteq Signers /\ sent \subseteq Signers /\ verified \subseteq Signers

\* The inductive invariant.
VInv == TypesInv /\ SignersInv /\ RequestInv /\ NothingRefused

-----------------------------------------------------------------------------
(* The FROST coordinator behind its queue.                                 *)

\* One turn of process_queued_messages counts only shares that are there.
LEMMA QueueStep ==
    ASSUME NEW m, NEW X, Follows(m, X)
    PROVE  /\ Follows(process_queued_messages(m), X)
           /\ m.state # "none" => process_queued_messages(m).state # "none"
<1> DEFINE ready == {msg \in m.queue : msg.type = current_processable_message_type(m)}
           from == {msg.from : msg \in ready}
           rest == [m EXCEPT !.queue = m.queue \ ready]
           n == process_queued_messages(m)
<1>0. /\ DOMAIN rest = DOMAIN m /\ rest.queue = m.queue \ ready
      /\ rest.frost = m.frost /\ rest.awaited = m.awaited /\ rest.state = m.state
  BY DEF Follows, IsMachine
<1>1. CASE ready = {}
  BY <1>1, Zenon DEF process_queued_messages
<1> HIDE DEF rest
<1>2. CASE ready # {} /\ m.frost = "idle"
  <2>1. n = request_nonces(rest)
    BY <1>2, Zenon DEF process_queued_messages, rest
  <2> QED
    BY <2>1, <1>0, <1>2 DEF Follows, IsMachine, request_nonces, ids_to_await
<1>3. CASE ready # {} /\ m.frost = "nonce_gather"
  <2>1. n = gather_nonces(rest, from)
    <3>1. n = Gather(rest, from)
      BY <1>3, Zenon DEF process_queued_messages, rest
    <3> QED
      BY <3>1, <1>0, <1>3 DEF Gather
  <2> HIDE DEF ready, from
  <2> QED
    BY <2>1, <1>0, <1>3 DEF Follows, IsMachine, gather_nonces, ids_to_await
<1>4. CASE ready # {} /\ m.frost = "share_gather"
  <2>1. n = gather_sig_shares(rest, from)
    <3>1. n = Gather(rest, from)
      BY <1>4, Zenon DEF process_queued_messages, rest
    <3> QED
      BY <3>1, <1>0, <1>4 DEF Gather
  <2>2. from \subseteq X
    BY <1>4 DEF Follows, current_processable_message_type
  <2>3. Signers \ m.awaited \subseteq X
    BY <1>4 DEF Follows
  <2> HIDE DEF ready, from
  <2> QED
    BY <2>1, <2>2, <2>3, <1>0, <1>4 DEF Follows, IsMachine, gather_sig_shares
<1> QED
  BY <1>1, <1>2, <1>3, <1>4 DEF Follows, IsMachine

\* A message that reaches the coordinator, and all that its queue then allows.
LEMMA MessageStep ==
    ASSUME NEW m, NEW X, NEW msg, Follows(m, X),
           msg.type = "SignatureShareResponse" => msg.from \in X
    PROVE  /\ Follows(process_message(m, msg), X)
           /\ process_message(m, msg).state # "none"
<1> DEFINE a == Enqueued(m, msg)
           b == process_queued_messages(a)
           c == process_queued_messages(b)
<1>1. Follows(a, X) /\ a.state # "none"
  BY DEF Enqueued, Follows, IsMachine
<1> HIDE DEF a
<1>2. Follows(b, X) /\ b.state # "none"
  BY <1>1, QueueStep
<1> HIDE DEF b
<1>3. Follows(c, X) /\ c.state # "none"
  BY <1>2, QueueStep
<1> HIDE DEF c
<1>4. Follows(process_queued_messages(c), X) /\ process_queued_messages(c).state # "none"
  BY <1>3, QueueStep
<1>5. process_message(m, msg) = process_queued_messages(c)
  <2>1. \A x : Turn({x}) = {process_queued_messages(x)}
    BY DEF Turn
  <2>2. Turn(Turn(Turn({Enqueued(m, msg)}))) = {process_queued_messages(c)}
    BY <2>1, Zenon DEF a, b, c
  <2> QED
    BY <2>2 DEF process_message
<1> QED
  BY <1>4, <1>5

\* More shares may arrive.
LEMMA FollowsGrows ==
    ASSUME NEW m, NEW X, NEW Y, Follows(m, X), X \subseteq Y
    PROVE  Follows(m, Y)
BY DEF Follows

\* The state machine that a nonce message finds or starts.
LEMMA EnsuredFollows ==
    ASSUME NEW s \in Signers, NEW X, Follows(machine[s], X)
    PROVE  Follows(ensure_dkg_verification_state_machine(s), X)
BY DEF ensure_dkg_verification_state_machine, Follows, IsMachine, NewMachine, NoMachine

-----------------------------------------------------------------------------
(* The steps of a signer.                                                  *)

\* The coordinator's first request.
NonceRequested == [type |-> "NonceRequest"]

\* The messages of the round are different ones.
LEMMA MessagesDiffer ==
    /\ \A p, q : SignatureShareResponse(p) = SignatureShareResponse(q) => p = q
    /\ \A p, q : SignatureShareResponse(p) # NonceResponse(q)
    /\ \A p : /\ SignatureShareResponse(p) # SignatureShareRequested
              /\ SignatureShareResponse(p) # NonceRequested
              /\ NonceResponse(p) # SignatureShareRequested
              /\ NonceResponse(p) # NonceRequested
              /\ SignatureShareResponse(p).from = p
              /\ NonceResponse(p).type # "SignatureShareResponse"
    /\ SignatureShareRequested # NonceRequested
    /\ SignatureShareRequested.type # "SignatureShareResponse"
    /\ NonceRequested.type # "SignatureShareResponse"
<1>1. \A p : /\ SignatureShareResponse(p).from = p
             /\ SignatureShareResponse(p).type = "SignatureShareResponse"
             /\ NonceResponse(p).type = "NonceResponse"
  BY DEF SignatureShareResponse, NonceResponse
<1>2. /\ SignatureShareRequested.type = "SignatureShareRequest"
      /\ NonceRequested.type = "NonceRequest"
  BY DEF SignatureShareRequested, NonceRequested
<1> QED
  BY <1>1, <1>2

\* What the outcome m of a message does to the signer s: only a signer that has
\* the share of every signer marks the key as verified.
LEMMA OutcomeStep ==
    ASSUME VInv, NEW s \in Signers, NEW m,
           process_dkg_verification_message(s, m),
           Follows(m, Got(s)'), m.state # "none",
           sent' \subseteq Joined
    PROVE  /\ DOMAIN machine' = Signers
           /\ Follows(machine'[s], Got(s)')
           /\ \A q \in Signers \ {s} : machine'[q] = machine[q]
           /\ signing' \subseteq Signers /\ verified' \subseteq Signers
           /\ \A q \in Signers \ {s} : q \in signing' => q \in signing
           /\ s \in signing' => machine'[s].state # "none"
           /\ \/ verified' = verified
              \/ verified' = verified \cup {s} /\ Signers \subseteq Got(s)'
           /\ Joined' = Joined
<1>1. CASE m.state = "success"
  <2>1. Signers \subseteq Got(s)'
    BY <1>1 DEF Follows
  <2>2. s \in Joined
    BY <2>1 DEF Got
  <2>3. /\ machine' = [machine EXCEPT ![s] = NoMachine]
        /\ signing' = signing \ {s}
        /\ verified' = verified \cup {s}
    BY <1>1 DEF process_dkg_verification_message
  <2>4. Follows(NoMachine, Got(s)')
    BY DEF Follows, IsMachine, NoMachine
  <2> QED
    BY <2>1, <2>2, <2>3, <2>4 DEF VInv, TypesInv, Joined
<1>2. CASE m.state # "success"
  <2>1. machine' = [machine EXCEPT ![s] = m] /\ UNCHANGED <<signing, verified>>
    BY <1>2 DEF process_dkg_verification_message
  <2> QED
    BY <2>1 DEF VInv, TypesInv, Joined
<1> QED
  BY <1>1, <1>2

\* The shares that have been sent are of signers that take part.
LEMMA SentJoined == ASSUME VInv PROVE sent \subseteq Joined
BY DEF VInv, RequestInv, TypesInv

\* A nonce request starts the state machine and publishes the signer's nonces.
LEMMA NonceRequestStep ==
    ASSUME VInv, NEW s \in Signers, NonceRequest(s)
    PROVE  VInv'
<1> DEFINE m == process_message(ensure_dkg_verification_state_machine(s), NonceRequested)
           own == process_message(m, NonceResponse(s))
<1>1. /\ machine' = [machine EXCEPT ![s] = own]
      /\ signing' = signing \cup {s}
      /\ Publish(s, inbox[s] \ {NonceRequested}, NonceResponse(s))
      /\ UNCHANGED <<round, sent, verified, gone, dropped>>
  BY Zenon DEF NonceRequest, NonceRequested
<1>2. Follows(own, Got(s)) /\ own.state # "none"
  <2>1. Follows(m, Got(s))
    BY MessageStep, EnsuredFollows, MessagesDiffer DEF VInv, SignersInv
  <2> HIDE DEF m
  <2> QED
    BY <2>1, MessageStep, MessagesDiffer
<1> HIDE DEF own
<1>3. /\ inbox' = [q \in Signers |-> IF q = s THEN inbox[s] \ {NonceRequested}
                                     ELSE inbox[q] \cup {NonceResponse(s)}]
      /\ mail' = mail \cup {NonceResponse(s)}
  BY <1>1 DEF Publish
<1>4. \A p, q \in Signers : SignatureShareResponse(p) \in inbox'[q] <=> SignatureShareResponse(p) \in inbox[q]
  BY <1>3, MessagesDiffer
<1>5. \A q \in Signers : SignatureShareRequested \in inbox'[q] => SignatureShareRequested \in inbox[q]
  BY <1>3, MessagesDiffer
<1>6. \A q \in Signers : Got(q)' = Got(q)
  BY <1>1, <1>4 DEF Got, VInv, TypesInv
<1>7. TypesInv'
  BY <1>1, <1>3 DEF VInv, TypesInv
<1>8. SignersInv'
  <2>1. \A q \in Signers : Follows(machine'[q], Got(q)') /\ (q \in signing' => machine'[q].state # "none")
    BY <1>1, <1>2, <1>6 DEF VInv, TypesInv, SignersInv
  <2> QED
    BY <2>1, <1>1, <1>4, <1>6 DEF VInv, SignersInv
<1>9. RequestInv'
  <2>1. Joined \subseteq Joined' /\ s \in Joined'
    BY <1>1 DEF Joined
  <2>2. \A q \in Signers : NonceResponse(q) \in mail' => q \in Joined'
    <3>1. \A q \in Signers : NonceResponse(q) = NonceResponse(s) => q = s
      BY DEF NonceResponse
    <3> QED
      BY <2>1, <3>1, <1>3 DEF VInv, RequestInv
  <2>3. round' = round /\ sent' = sent
    BY <1>1
  <2> QED
    BY <2>1, <2>2, <2>3, <1>5 DEF VInv, RequestInv
<1> QED
  BY <1>1, <1>7, <1>8, <1>9 DEF VInv, NothingRefused

\* A signature share request finds the signer's state machines, and its share
\* is published after it has passed through the FROST coordinator.
LEMMA ShareRequestStep ==
    ASSUME VInv, NEW s \in Signers, SignatureShareRequest(s)
    PROVE  VInv'
<1> DEFINE m == process_message(machine[s], SignatureShareRequested)
           own == process_message(m, SignatureShareResponse(s))
<1>1. SignatureShareRequested \in inbox[s]
  BY Zenon DEF SignatureShareRequest, SignatureShareRequested
<1>2. s \notin sent /\ Signers \subseteq Joined
  BY <1>1 DEF VInv, RequestInv
<1>3. verified = {}
  BY <1>2, Zenon DEF VInv, TypesInv, SignersInv, Got
<1>4. s \in signing /\ machine[s].state # "none"
  BY <1>2, <1>3 DEF Joined, VInv, SignersInv
<1>5. /\ process_dkg_verification_message(s, own)
      /\ sent' = sent \cup {s}
      /\ Publish(s, inbox[s] \ {SignatureShareRequested}, SignatureShareResponse(s))
      /\ UNCHANGED <<round, gone, dropped>>
  BY <1>4, Zenon DEF SignatureShareRequest, SignatureShareRequested
<1>6. /\ inbox' = [q \in Signers |-> IF q = s THEN inbox[s] \ {SignatureShareRequested}
                                     ELSE inbox[q] \cup {SignatureShareResponse(s)}]
      /\ mail' = mail \cup {SignatureShareResponse(s)}
  BY <1>5 DEF Publish
<1>7. \A q \in Signers : Got(q) \subseteq Got(q)'
  BY <1>2, <1>5, <1>6, MessagesDiffer DEF Got, VInv, TypesInv
<1>8. s \in Got(s)'
  <2>1. SignatureShareResponse(s) \notin inbox[s]
    BY <1>2 DEF VInv, SignersInv
  <2> QED
    BY <2>1, <1>5, <1>6 DEF Got
<1>9. Follows(own, Got(s)') /\ own.state # "none"
  <2>1. Follows(machine[s], Got(s)')
    BY <1>7, FollowsGrows DEF VInv, SignersInv
  <2>2. Follows(m, Got(s)')
    BY <2>1, MessageStep, MessagesDiffer
  <2> HIDE DEF m
  <2> QED
    BY <2>2, <1>8, MessageStep, MessagesDiffer
<1> HIDE DEF own
<1>10. sent' \subseteq Joined
  BY <1>2, <1>5 DEF VInv, TypesInv
<1>11. /\ DOMAIN machine' = Signers
       /\ Follows(machine'[s], Got(s)')
       /\ \A q \in Signers \ {s} : machine'[q] = machine[q]
       /\ signing' \subseteq Signers /\ verified' \subseteq Signers
       /\ \A q \in Signers \ {s} : q \in signing' => q \in signing
       /\ s \in signing' => machine'[s].state # "none"
       /\ \/ verified' = verified
          \/ verified' = verified \cup {s} /\ Signers \subseteq Got(s)'
       /\ Joined' = Joined
  BY <1>5, <1>9, <1>10, OutcomeStep, Zenon
<1>12. TypesInv'
  BY <1>5, <1>6, <1>11 DEF VInv, TypesInv
<1>13. SignersInv'
  <2> SUFFICES ASSUME NEW q \in Signers
               PROVE  /\ Follows(machine'[q], Got(q)')
                      /\ \A p \in Signers : SignatureShareResponse(p) \in inbox'[q] => p \in sent'
                      /\ q \in verified' => Signers \subseteq Got(q)'
                      /\ q \in signing' => machine'[q].state # "none"
    BY DEF SignersInv
  <2>1. Follows(machine'[q], Got(q)')
    BY <1>7, <1>11, FollowsGrows, Zenon DEF VInv, SignersInv
  <2>2. \A p \in Signers : SignatureShareResponse(p) \in inbox'[q] => p \in sent'
    BY <1>5, <1>6, MessagesDiffer DEF VInv, SignersInv
  <2>3. q \in verified' => Signers \subseteq Got(q)'
    BY <1>3, <1>11, Zenon
  <2> QED
    BY <2>1, <2>2, <2>3, <1>11 DEF VInv, SignersInv
<1>14. RequestInv'
  <2>1. \A q \in Signers : SignatureShareRequested \in inbox'[q] => q # s /\ SignatureShareRequested \in inbox[q]
    BY <1>6, MessagesDiffer
  <2>2. \A q \in Signers : NonceResponse(q) \in mail' => NonceResponse(q) \in mail
    BY <1>6, MessagesDiffer
  <2>3. ~(round.state = "none" \/ round.frost = "nonce_gather")
    BY <1>1 DEF VInv, RequestInv
  <2> QED
    BY <2>1, <2>2, <2>3, <1>2, <1>5, <1>11 DEF VInv, RequestInv
<1> QED
  BY <1>5, <1>12, <1>13, <1>14 DEF VInv, NothingRefused

\* The answer of a peer, msg, reaches the signer s, whose state machine m it
\* finds or starts.
LEMMA AnswerStep ==
    ASSUME VInv, NEW s \in Signers, NEW msg, NEW m, Follows(m, Got(s)),
           msg.type = "SignatureShareResponse" =>
               msg.from \in sent /\ msg = SignatureShareResponse(msg.from),
           process_dkg_verification_message(s, process_message(m, msg)),
           inbox' = [inbox EXCEPT ![s] = @ \ {msg}],
           UNCHANGED <<mail, round, sent, gone, dropped>>
    PROVE  VInv'
<1> DEFINE n == process_message(m, msg)
<1>1. \A q \in Signers : inbox'[q] \subseteq inbox[q]
  BY DEF VInv, TypesInv
<1>2. \A q \in Signers : Got(q) \subseteq Got(q)'
  BY <1>1 DEF Got, VInv, TypesInv
<1>3. msg.type = "SignatureShareResponse" => msg.from \in Got(s)'
  BY DEF Got, VInv, TypesInv
<1>4. Follows(n, Got(s)') /\ n.state # "none"
  <2>1. Follows(m, Got(s)')
    BY <1>2, FollowsGrows
  <2> QED
    BY <2>1, <1>3, MessageStep
<1> HIDE DEF n
<1>5. sent' \subseteq Joined
  BY SentJoined
<1>6. process_dkg_verification_message(s, n)
  BY DEF n
<1>7. /\ DOMAIN machine' = Signers
      /\ Follows(machine'[s], Got(s)')
      /\ \A q \in Signers \ {s} : machine'[q] = machine[q]
      /\ signing' \subseteq Signers /\ verified' \subseteq Signers
      /\ \A q \in Signers \ {s} : q \in signing' => q \in signing
      /\ s \in signing' => machine'[s].state # "none"
      /\ \/ verified' = verified
         \/ verified' = verified \cup {s} /\ Signers \subseteq Got(s)'
      /\ Joined' = Joined
  BY <1>4, <1>5, <1>6, OutcomeStep, Zenon
<1>8. TypesInv'
  BY <1>7 DEF VInv, TypesInv
<1>9. SignersInv'
  <2> SUFFICES ASSUME NEW q \in Signers
               PROVE  /\ Follows(machine'[q], Got(q)')
                      /\ \A p \in Signers : SignatureShareResponse(p) \in inbox'[q] => p \in sent'
                      /\ q \in verified' => Signers \subseteq Got(q)'
                      /\ q \in signing' => machine'[q].state # "none"
    BY DEF SignersInv
  <2>1. Follows(machine'[q], Got(q)')
    BY <1>2, <1>7, FollowsGrows DEF VInv, SignersInv
  <2>2. \A p \in Signers : SignatureShareResponse(p) \in inbox'[q] => p \in sent'
    BY <1>1 DEF VInv, SignersInv
  <2>3. q \in verified' => Signers \subseteq Got(q)'
    BY <1>2, <1>7 DEF VInv, SignersInv
  <2> QED
    BY <2>1, <2>2, <2>3, <1>7 DEF VInv, SignersInv
<1>10. RequestInv'
  BY <1>1, <1>7 DEF VInv, RequestInv
<1> QED
  BY <1>8, <1>9, <1>10 DEF VInv, NothingRefused

\* The nonces of a peer.
LEMMA ReceiveNonceStep ==
    ASSUME VInv, NEW s \in Signers, NEW q \in Signers, ReceiveNonce(s, q)
    PROVE  VInv'
<1> DEFINE m == ensure_dkg_verification_state_machine(s)
<1>1. /\ process_dkg_verification_message(s, process_message(m, NonceResponse(q)))
      /\ inbox' = [inbox EXCEPT ![s] = @ \ {NonceResponse(q)}]
      /\ UNCHANGED <<mail, round, sent, gone, dropped>>
  BY Zenon DEF ReceiveNonce
<1>2. Follows(m, Got(s))
  BY EnsuredFollows DEF VInv, SignersInv
<1> HIDE DEF m
<1> QED
  BY <1>1, <1>2, AnswerStep, MessagesDiffer, Zenon

\* The signature share of a peer finds the signer's state machine: it is removed
\* with the last share.
LEMMA ReceiveShareStep ==
    ASSUME VInv, NEW s \in Signers, NEW q \in Signers, ReceiveShare(s, q)
    PROVE  VInv'
<1>1. SignatureShareResponse(q) \in inbox[s]
  BY Zenon DEF ReceiveShare
<1>2. q \in sent
  BY <1>1 DEF VInv, SignersInv
<1>3. s \notin verified
  BY <1>1, Zenon DEF VInv, SignersInv, Got
<1>4. machine[s].state # "none"
  BY <1>2, <1>3 DEF VInv, SignersInv, RequestInv, Joined
<1>5. /\ process_dkg_verification_message(s, process_message(machine[s], SignatureShareResponse(q)))
      /\ inbox' = [inbox EXCEPT ![s] = @ \ {SignatureShareResponse(q)}]
      /\ UNCHANGED <<mail, round, sent, gone, dropped>>
  BY <1>4, Zenon DEF ReceiveShare
<1>6. Follows(machine[s], Got(s))
  BY DEF VInv, SignersInv
<1> QED
  BY <1>2, <1>5, <1>6, AnswerStep, MessagesDiffer, Zenon

-----------------------------------------------------------------------------
(* The coordinator, and the chain.                                         *)

\* The round starts with an empty mailbox for the signature shares.
LEMMA StartStep ==
    ASSUME VInv, start_signing_round
    PROVE  VInv'
<1> DEFINE first == [request_nonces(NewMachine) EXCEPT !.state = "signing"]
<1>1. /\ round.state = "none" /\ round' = first
      /\ inbox' = [s \in Signers |-> inbox[s] \cup {NonceRequested}]
      /\ UNCHANGED <<mail, machine, signing, sent, verified, gone, dropped>>
  BY Zenon DEF start_signing_round, Broadcast, NonceRequested
<1>2. IsMachine(first) /\ first.state = "signing" /\ first.awaited = Signers
  BY DEF IsMachine, request_nonces, ids_to_await, NewMachine, NoMachine
<1> HIDE DEF first
<1>3. \A p, q \in Signers : SignatureShareResponse(p) \in inbox'[q] <=> SignatureShareResponse(p) \in inbox[q]
  BY <1>1, MessagesDiffer
<1>4. \A q \in Signers : SignatureShareRequested \in inbox'[q] <=> SignatureShareRequested \in inbox[q]
  BY <1>1, MessagesDiffer
<1>5. \A q \in Signers : Got(q)' = Got(q)
  BY <1>1, <1>3 DEF Got, VInv, TypesInv
<1>6. Joined' = Joined
  BY <1>1 DEF Joined
<1>7. TypesInv' /\ SignersInv'
  BY <1>1, <1>3, <1>5 DEF VInv, TypesInv, SignersInv
<1>8. RequestInv'
  BY <1>1, <1>2, <1>4, <1>6, Zenon DEF VInv, RequestInv
<1> QED
  BY <1>1, <1>7, <1>8 DEF VInv, NothingRefused

\* The coordinator requests the signature shares with the last nonces, when all
\* the signers have joined and none has sent its share.
LEMMA DriveStep ==
    ASSUME VInv, NEW msg \in Responses, drive_wsts_state_machine(msg)
    PROVE  VInv'
<1> DEFINE next == Gather(round, {msg.from})
<1>1. /\ round.state = "signing" /\ msg \in mail /\ mail' = mail \ {msg}
      /\ UNCHANGED <<machine, signing, sent, verified, gone, dropped>>
  BY Zenon DEF drive_wsts_state_machine
<1>2. /\ msg.from \in Signers
      /\ msg.type = "NonceResponse" => msg = NonceResponse(msg.from)
      /\ msg.type # "NonceRequest"
  BY DEF Responses, NonceResponse
<1>3. Joined' = Joined
  BY <1>1 DEF Joined
<1>4. ASSUME inbox' = inbox, IsMachine(round'), round'.state # "none",
             round'.frost = "nonce_gather" =>
                 round.frost = "nonce_gather" /\ Signers \ round'.awaited \subseteq Joined
      PROVE  VInv'
  <2>1. \A q \in Signers : Got(q)' = Got(q)
    BY <1>1, <1>4, Zenon DEF Got
  <2>2. TypesInv' /\ SignersInv'
    BY <1>1, <1>4, <2>1, Zenon DEF VInv, TypesInv, SignersInv
  <2>3. RequestInv'
    BY <1>1, <1>3, <1>4 DEF VInv, RequestInv
  <2> QED
    BY <1>1, <2>2, <2>3 DEF VInv, NothingRefused
<1>5. CASE msg.type # current_processable_message_type(round)
  <2>1. UNCHANGED <<round, inbox>>
    BY <1>5, Zenon DEF drive_wsts_state_machine
  <2> QED
    BY <2>1, <1>1, <1>4 DEF VInv, RequestInv
<1>6. CASE msg.type = current_processable_message_type(round) /\ round.frost = "share_gather"
  <2>1. round' = next /\ UNCHANGED inbox
    BY <1>6, Zenon DEF drive_wsts_state_machine
  <2>2. next = gather_sig_shares(round, {msg.from})
    BY <1>6, Zenon DEF Gather
  <2> HIDE DEF next
  <2>3. IsMachine(next) /\ next.state # "none" /\ next.frost # "nonce_gather"
    BY <2>2, <1>1, <1>6 DEF gather_sig_shares, VInv, RequestInv, IsMachine
  <2> QED
    BY <2>1, <2>3, <1>4
<1>7. CASE msg.type = current_processable_message_type(round) /\ round.frost = "nonce_gather"
  <2>1. /\ round' = next
        /\ IF next.frost = "share_gather" THEN Broadcast(SignatureShareRequested) ELSE UNCHANGED inbox
    BY <1>7, Zenon DEF drive_wsts_state_machine, SignatureShareRequested
  <2>2. next = gather_nonces(round, {msg.from})
    BY <1>7, Zenon DEF Gather
  <2>3. msg.from \in Joined
    BY <1>1, <1>2, <1>7 DEF current_processable_message_type, VInv, RequestInv
  <2> HIDE DEF next
  <2>4. CASE ~(round.awaited \subseteq {msg.from})
    <3>1. /\ IsMachine(next) /\ next.state # "none" /\ next.frost = "nonce_gather"
          /\ next.awaited = round.awaited \ {msg.from}
      BY <2>2, <2>4, <1>1, <1>7 DEF gather_nonces, VInv, RequestInv, IsMachine
    <3>2. Signers \ next.awaited \subseteq Joined
      BY <3>1, <2>3, <1>7 DEF VInv, RequestInv
    <3> QED
      BY <3>1, <3>2, <2>1, <1>4, <1>7
  <2>5. CASE round.awaited \subseteq {msg.from}
    <3>1. IsMachine(next) /\ next.state = "signing" /\ next.frost = "share_gather"
      BY <2>2, <2>5, <1>1, <1>7 DEF gather_nonces, ids_to_await, VInv, RequestInv, IsMachine
    <3>2. inbox' = [s \in Signers |-> inbox[s] \cup {SignatureShareRequested}]
      BY <2>1, <3>1 DEF Broadcast
    <3>3. Signers \subseteq Joined /\ sent = {}
      BY <2>3, <2>5, <1>7 DEF VInv, RequestInv
    <3>4. \A p, q \in Signers : SignatureShareResponse(p) \in inbox'[q] <=> SignatureShareResponse(p) \in inbox[q]
      BY <3>2, MessagesDiffer
    <3>5. \A q \in Signers : Got(q)' = Got(q)
      BY <1>1, <3>3 DEF Got
    <3>6. TypesInv' /\ SignersInv'
      BY <1>1, <3>2, <3>4, <3>5, Zenon DEF VInv, TypesInv, SignersInv
    <3>7. RequestInv'
      BY <1>1, <1>3, <2>1, <3>1, <3>3 DEF VInv, RequestInv
    <3> QED
      BY <1>1, <3>6, <3>7 DEF VInv, NothingRefused
  <2> QED
    BY <2>4, <2>5
<1>8. CASE msg.type = current_processable_message_type(round) /\ round.frost = "idle"
  BY <1>2, <1>8 DEF current_processable_message_type
<1> QED
  BY <1>5, <1>6, <1>7, <1>8 DEF VInv, RequestInv, IsMachine

\* A step that changes neither messages nor keys: the coordinator's timeout, a
\* new chain tip, or none.
LEMMA QuietStep ==
    ASSUME VInv, CoordinatorTimeout \/ (\E s \in Signers : NewChainTip(s)) \/ UNCHANGED vars
    PROVE  VInv'
<1>1. /\ UNCHANGED <<inbox, mail, machine, signing, sent, verified, dropped>>
      /\ round' = round \/ (round.state = "signing" /\ round' = [round EXCEPT !.state = "timeout"])
  BY DEF CoordinatorTimeout, NewChainTip, vars
<1>2. Joined' = Joined /\ \A q \in Signers : Got(q)' = Got(q)
  BY <1>1 DEF Joined, Got
<1>3. TypesInv' /\ SignersInv'
  BY <1>1, <1>2 DEF VInv, TypesInv, SignersInv
<1>4. RequestInv'
  <2>1. /\ IsMachine(round') /\ round'.frost = round.frost /\ round'.awaited = round.awaited
        /\ round'.state = "none" => round' = round
    BY <1>1 DEF VInv, RequestInv, IsMachine
  <2> QED
    BY <2>1, <1>1, <1>2 DEF VInv, RequestInv
<1> QED
  BY <1>1, <1>3, <1>4 DEF VInv, NothingRefused

\* Nothing has been sent when the round begins.
LEMMA InitRound == ASSUME Init PROVE VInv
<1>1. \A s \in Signers : Follows(machine[s], Got(s))
  BY DEF Init, Follows, IsMachine, NoMachine
<1> QED
  BY <1>1 DEF Init, VInv, TypesInv, SignersInv, RequestInv, NothingRefused, IsMachine, NoMachine

\* Every step keeps the invariant.
LEMMA StepRound == ASSUME VInv, [Next]_vars PROVE VInv'
<1>1. CASE CoordinatorLoop
  BY <1>1, StartStep, DriveStep DEF CoordinatorLoop
<1>2. ASSUME NEW s \in Signers, SignerLoop(s) PROVE VInv'
  BY <1>2, NonceRequestStep, ShareRequestStep, ReceiveNonceStep, ReceiveShareStep DEF SignerLoop
<1>3. CASE CoordinatorTimeout \/ (\E s \in Signers : NewChainTip(s)) \/ UNCHANGED vars
  BY <1>3, QuietStep
<1> QED
  BY <1>1, <1>2, <1>3 DEF Next

\* The invariant is one of the specification.
LEMMA RoundInvariant == Spec => []VInv
<1>1. Init => VInv
  BY InitRound
<1>2. VInv /\ [Next]_vars => VInv'
  BY StepRound
<1> QED
  BY <1>1, <1>2, PTL DEF Spec

-----------------------------------------------------------------------------
(* Results.                                                                *)

\* For any signers and any order of the messages: a signer marks the shares as
\* verified (process_dkg_verification_message) only once every signer has
\* published its signature share.
THEOREM VerifiedRoundsAreSigned == Spec => []VerifiedIsSigned
<1>1. VInv => VerifiedIsSigned
  BY Zenon DEF VInv, TypesInv, SignersInv, Got, VerifiedIsSigned
<1> QED
  BY <1>1, RoundInvariant, PTL

\* No message of the round meets a missing state machine
\* (Error::MissingStateMachine), in whatever order the messages arrive.
THEOREM NoMessageRefused == Spec => []NothingRefused
<1>1. VInv => NothingRefused
  BY DEF VInv
<1> QED
  BY <1>1, RoundInvariant, PTL

\* Every step of the round is a step of UnanimousRound, or none of its steps.
LEMMA RoundStep ==
    ASSUME VInv, VInv', [Next]_vars
    PROVE  [Round!Next]_<<signing \cup verified, verified>>
<1>1. ASSUME NEW s \in Signers, NEW m, process_dkg_verification_message(s, m), sent' \subseteq Joined
      PROVE  Round!Finish(s) \/ UNCHANGED <<signing \cup verified, verified>>
  <2>1. CASE m.state = "success"
    <3>1. signing' = signing \ {s} /\ verified' = verified \cup {s}
      BY <1>1, <2>1 DEF process_dkg_verification_message
    <3>2. Signers \subseteq Joined
      BY <1>1, <3>1, Zenon DEF VInv, SignersInv, Got
    <3> QED
      BY <3>1, <3>2 DEF Round!Finish, Joined, VInv, TypesInv
  <2>2. CASE m.state # "success"
    BY <1>1, <2>2 DEF process_dkg_verification_message
  <2> QED
    BY <2>1, <2>2
<1>2. ASSUME NEW s \in Signers, NonceRequest(s)
      PROVE  Round!Join(s) \/ UNCHANGED <<signing \cup verified, verified>>
  <2>1. signing' = signing \cup {s} /\ verified' = verified
    BY <1>2, Zenon DEF NonceRequest
  <2> QED
    BY <2>1 DEF Round!Join
<1>3. ASSUME NEW s \in Signers, SignatureShareRequest(s)
      PROVE  Round!Finish(s) \/ UNCHANGED <<signing \cup verified, verified>>
  <2>1. CASE machine[s].state = "none" \/ s \notin signing
    BY <1>3, <2>1 DEF SignatureShareRequest, Refuse
  <2>2. CASE ~(machine[s].state = "none" \/ s \notin signing)
    <3>1. PICK m : process_dkg_verification_message(s, m) /\ sent' = sent \cup {s}
      BY <1>3, <2>2, Zenon DEF SignatureShareRequest
    <3>2. sent' \subseteq Joined
      BY <2>2, <3>1, SentJoined DEF Joined
    <3> QED
      BY <1>1, <3>1, <3>2
  <2> QED
    BY <2>1, <2>2
<1>4. ASSUME NEW s \in Signers, NEW q \in Signers, ReceiveNonce(s, q) \/ ReceiveShare(s, q)
      PROVE  Round!Finish(s) \/ UNCHANGED <<signing \cup verified, verified>>
  <2>1. \/ UNCHANGED <<signing, verified>>
        \/ \E m : process_dkg_verification_message(s, m) /\ sent' = sent
    BY <1>4, Zenon DEF ReceiveNonce, ReceiveShare, Refuse
  <2> QED
    BY <1>1, <2>1, SentJoined
<1>5. CASE CoordinatorLoop \/ CoordinatorTimeout \/ (\E s \in Signers : NewChainTip(s)) \/ UNCHANGED vars
  <2>1. UNCHANGED <<signing, verified>>
    BY <1>5, Zenon DEF CoordinatorLoop, start_signing_round, drive_wsts_state_machine,
                       CoordinatorTimeout, NewChainTip, vars
  <2> QED
    BY <2>1
<1> QED
  BY <1>2, <1>3, <1>4, <1>5 DEF Next, SignerLoop, Round!Next

\* The round, message by message, implements UnanimousRound: a signer joins
\* when it answers the nonce request, and marks the shares as verified only in
\* a round that all have joined.  KeyRotation takes the round in these steps.
THEOREM RoundIsUnanimous == Spec => RoundSpec
<1>1. Init => Round!Init
  BY DEF Init, Round!Init
<1>2. VInv /\ VInv' /\ [Next]_vars => [Round!Next]_<<signing \cup verified, verified>>
  BY RoundStep
<1> QED
  BY <1>1, <1>2, RoundInvariant, PTL DEF Spec, RoundSpec, Round!Spec

\* For any signers: no message of the two rounds is lost on a signer, neither
\* for want of a state machine, in whatever order the messages arrive, nor
\* because a round without restarts ends on a signer's own private shares.
THEOREM NoMessageIsLost == Spec /\ DkgSpec => []NoMessageLost
<1>1. NothingRefused /\ NoEndIgnored => NoMessageLost
  BY DEF NoMessageLost
<1> QED
  BY <1>1, NoMessageRefused, NoEndIsIgnored, PTL
=============================================================================
