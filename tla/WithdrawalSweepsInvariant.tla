--------------------- MODULE WithdrawalSweepsInvariant ----------------------
(***************************************************************************)
(* The inductive invariant of WithdrawalSweeps, and the steps that keep it *)
(* as the signers record, sign and reject and as Bitcoin mines and         *)
(* reorganises; WithdrawalSweepsProofs has the other steps and the         *)
(* theorems.                                                               *)
(*                                                                         *)
(* A reorg drops at most WITHDRAWAL_MIN_CONFIRMATIONS blocks.  What is     *)
(* buried as deep as that stays for good, and the invariant IInv says      *)
(* which facts are: the requests that sweeps pay, those that are rejected, *)
(* and the sweep that conflicts with a payment given up.                   *)
(***************************************************************************)
EXTENDS WithdrawalSweeps, FiniteSetTheorems, WellFoundedInduction, TLAPS

-----------------------------------------------------------------------------
(* Sequences.                                                              *)

\* A sequence has elements of its set at the places up to its length.
LEMMA ElementOfSeq ==
    \A S : \A s \in Seq(S) : \A n \in 1 .. Len(s) : s[n] \in S
OBVIOUS

\* The length is a number, and the places are its domain.
LEMMA LenProperties ==
    \A S : \A s \in Seq(S) : Len(s) \in Nat /\ DOMAIN s = 1 .. Len(s)
OBVIOUS

\* The sequence of length 0 is the empty one.
LEMMA EmptySeq ==
    \A S : /\ << >> \in Seq(S) /\ Len(<< >>) = 0
           /\ \A s \in Seq(S) : s # << >> => Len(s) # 0
OBVIOUS

\* What Append does.
LEMMA AppendProperties ==
    \A S : \A s \in Seq(S), e \in S :
        /\ Append(s, e) \in Seq(S) /\ Len(Append(s, e)) = Len(s) + 1
        /\ Append(s, e)[Len(s) + 1] = e
        /\ \A i \in 1 .. Len(s) : Append(s, e)[i] = s[i]
OBVIOUS

\* What a change of one element does.
LEMMA ExceptSeq ==
    \A S : \A s \in Seq(S), i \in Nat, e \in S :
        i \in 1 .. Len(s) =>
            /\ [s EXCEPT ![i] = e] \in Seq(S) /\ Len([s EXCEPT ![i] = e]) = Len(s)
            /\ \A j \in 1 .. Len(s) : [s EXCEPT ![i] = e][j] = IF j = i THEN e ELSE s[j]
OBVIOUS

\* What Head and Tail give.
LEMMA HeadTailProperties ==
    \A S : \A s \in Seq(S) : s # << >> =>
        /\ Head(s) \in S /\ Tail(s) \in Seq(S) /\ Len(Tail(s)) = Len(s) - 1
        /\ \A i \in 1 .. Len(Tail(s)) : Tail(s)[i] = s[i + 1]
OBVIOUS

\* The first n elements of a sequence.
LEMMA SubSeqProperties ==
    \A S : \A s \in Seq(S) : \A n \in 1 .. Len(s) :
        /\ SubSeq(s, 1, n) \in Seq(S) /\ Len(SubSeq(s, 1, n)) = n
        /\ \A i \in 1 .. n : SubSeq(s, 1, n)[i] = s[i]
OBVIOUS

\* One sequence after another.
LEMMA ConcatProperties ==
    \A S : \A s, t \in Seq(S) :
        /\ s \o t \in Seq(S) /\ Len(s \o t) = Len(s) + Len(t)
        /\ \A i \in 1 .. Len(s) + Len(t) :
              (s \o t)[i] = IF i <= Len(s) THEN s[i] ELSE t[i - Len(s)]
OBVIOUS

-----------------------------------------------------------------------------
(* The inductive invariant.                                                *)

\* The height of the chain once a fork has all of its blocks.
FinalHeight == Height + pending

\* What the variables range over.
Shape ==
    /\ world \in Worlds
    /\ chain \in Seq(Block)
    /\ Height \in 1 .. world.height
    /\ pending \in Nat
    /\ requests \in Seq(Request)
    /\ Len(requests) <= world.requests
    /\ txs \in Seq(Tx)
    /\ Len(txs) <= world.txs
    /\ sighashes \in [Signers -> SUBSET (1 .. Len(txs))]
    /\ outputs \in [Signers -> [TxIds -> 0 .. MaxHeight]]
    /\ round \in Round
    /\ signed \subseteq 1 .. Len(txs)
    /\ rejects \subseteq 1 .. Len(requests)

\* The line of a sweep is a line: a sweep of it descends from the earlier ones.
LinesAreLinear ==
    \A t \in 1 .. Len(txs) :
        /\ t \in txs[t].line
        /\ txs[t].line \subseteq 1 .. t
        /\ \A u \in txs[t].line : \A v \in TxIds :
               v \in txs[u].line <=> v \in txs[t].line /\ v <= u
        /\ txs[t].in < t
        /\ txs[t].line = Line(txs[t].in) \cup {t}

\* The sweeps of a line pay different requests.
LinesPayOnce ==
    \A t \in 1 .. Len(txs) : \A a, b \in txs[t].line : a # b =>
        \A q \in txs[a].pays, r \in txs[b].pays : requests[q].id # requests[r].id

\* A chain confirms one line of signed sweeps, a longer part of it at each block.
ChainIsALine ==
    \A h \in 1 .. Height :
        /\ chain[h].utxo \in {0} \cup signed
        /\ chain[h].sweeps = Line(chain[h].utxo)
        /\ chain[h].sweeps \subseteq signed
        /\ \A g \in 1 .. h : chain[g].utxo \in {0} \cup chain[h].sweeps

\* The requests created up to the block at h have the numbers from 1 on.
NumbersAt(h) ==
    \E n \in 0 .. MaxRequests : \A i \in RequestIds : chain[h].created[i] # 0 <=> i <= n

\* The request with number i at h was created at some block up to h.
OriginAt(h, i) ==
    chain[h].created[i] # 0 =>
        /\ chain[h].created[i] \in i .. Len(requests)
        /\ requests[chain[h].created[i]].id = i
        /\ requests[chain[h].created[i]].height \in 1 .. h
        /\ chain[requests[chain[h].created[i]].height].created[i] = chain[h].created[i]

\* A fork numbers its requests from 1 on, and keeps them from the block of their
\* creation on.
RequestsAreNumbered ==
    \A h \in 1 .. Height :
        /\ NumbersAt(h)
        /\ \A i \in RequestIds : OriginAt(h, i)
        /\ \A g \in 1 .. h : \A i \in RequestIds : chain[g].created[i] # 0 =>
               chain[h].created[i] = chain[g].created[i]

\* At every block the accepted requests are paid, and not rejected; a rejected
\* one has a signed call.
DecisionsAreBacked ==
    \A h \in 1 .. Height :
        /\ \A i \in chain[h].accepted :
               \E t \in chain[h].sweeps : chain[h].created[i] \in txs[t].pays
        /\ chain[h].accepted \cap chain[h].rejected = {}
        /\ \A i \in chain[h].rejected : \E q \in rejects : requests[q].id = i

\* The request q is on the canonical chain, n blocks deep once it is complete.
Settled(q, n) ==
    /\ q \in 1 .. Len(requests)
    /\ requests[q].height <= Height
    /\ requests[q].height + n <= FinalHeight
    /\ chain[requests[q].height].created[requests[q].id] = q

\* Sweeps pay settled requests.
PaidAreSettled ==
    \A t \in 1 .. Len(txs) : \A q \in txs[t].pays :
        Settled(q, WITHDRAWAL_MIN_CONFIRMATIONS)

\* Rejections are of expired requests.
RejectedAreSettled ==
    \A q \in rejects : Settled(q, WITHDRAWAL_BLOCKS_EXPIRY + 1)

\* The signer s holds both rows of the sweep t.
Holds(s, t) == t \in sighashes[s] /\ outputs[s][t] # 0

\* The sweeps still to be signed pay requests that have not expired, and the
\* signers that acknowledged the proposal hold its rows.
RoundIsRecorded ==
    \A i \in 1 .. Len(round.left) :
        LET t == round.left[i] IN
        /\ pending = 0
        /\ t \in 1 .. Len(txs)
        /\ \A q \in txs[t].pays : requests[q].height + WITHDRAWAL_BLOCKS_EXPIRY >= Height
        /\ \A s \in round.acks : txs[t].pays # {} => Holds(s, t)

\* A quorum holds the rows of a signed sweep.
SignedAreHeld ==
    \A t \in signed : txs[t].pays # {} =>
        \E Q \in SUBSET Signers :
            Cardinality(Q) >= Threshold /\ \A s \in Q : Holds(s, t)

\* Where no proposal is missed every signer has all sighashes; without reorgs a
\* signer has those on the way from the signers' UTXO to a sweep it has.
RowsAreLinked ==
    /\ \A s \in Signers : \A t \in TxIds : outputs[s][t] # 0 => t \in 1 .. Len(txs)
    /\ ~world.lossy => \A s \in Signers : sighashes[s] = 1 .. Len(txs)
    /\ world.reorg = 0 => \A s \in Signers : \A t \in sighashes[s] :
           txs[t].line \subseteq Tip.sweeps \cup sighashes[s]

\* A sweep other than t was confirmed after a signer recorded t, before t, and
\* so deep that it stays.
Conflicted(t) ==
    \E s \in Signers : \E g \in 2 .. Height - 1 :
        /\ outputs[s][t] \in 1 .. g - 1
        /\ chain[g].utxo # chain[g - 1].utxo
        /\ t \notin chain[g].sweeps
        /\ g + WITHDRAWAL_MIN_CONFIRMATIONS < FinalHeight

\* The chain has left the line of t.
Abandoned(t) ==
    /\ Tip.utxo # 0
    /\ Tip.utxo \notin txs[t].line
    /\ t \notin Tip.sweeps

\* Signed sweeps that pay a rejected request have lost against another one.
RejectedAreGivenUp ==
    \A q \in rejects : \A t \in signed : q \in txs[t].pays =>
        /\ Conflicted(t)
        /\ world.reorg = 0 => Abandoned(t)

\* The inductive invariant.
IInv ==
    /\ Shape
    /\ LinesAreLinear
    /\ LinesPayOnce
    /\ ChainIsALine
    /\ RequestsAreNumbered
    /\ DecisionsAreBacked
    /\ PaidAreSettled
    /\ RejectedAreSettled
    /\ RoundIsRecorded
    /\ SignedAreHeld
    /\ RowsAreLinked
    /\ RejectedAreGivenUp

-----------------------------------------------------------------------------
(* What follows from the invariant.                                        *)

\* The bounds of the conditions that a behaviour runs under.
LEMMA WorldFacts ==
    ASSUME world \in Worlds
    PROVE  /\ world.reorg \in Nat
           /\ world.reorg <= WITHDRAWAL_MIN_CONFIRMATIONS
           /\ world.height \in 1 .. MaxHeight
           /\ world.requests \in 0 .. MaxRequests
           /\ world.txs \in 0 .. MaxTxs
           /\ world.lossy \in BOOLEAN
           /\ world.package \in Nat
BY WorldsAssumption, ReorgsAssumption

\* The types of what the sequences hold.
LEMMA ShapeFacts ==
    ASSUME Shape
    PROVE  /\ Height \in Nat /\ Height >= 1 /\ Height <= MaxHeight
           /\ \A h \in 1 .. Height : chain[h] \in Block
           /\ Tip \in Block
           /\ Len(requests) \in Nat /\ Len(requests) <= MaxRequests
           /\ \A q \in 1 .. Len(requests) : requests[q] \in Request
           /\ Len(txs) \in Nat /\ Len(txs) <= MaxTxs
           /\ \A t \in 1 .. Len(txs) : txs[t] \in Tx
           /\ 1 .. Len(txs) \subseteq TxIds
           /\ FinalHeight \in Nat /\ FinalHeight >= Height
<1>1. /\ Height \in Nat /\ Height >= 1 /\ Height <= MaxHeight
      /\ \A h \in 1 .. Height : chain[h] \in Block
  BY WorldFacts, BoundsAssumption, ElementOfSeq, LenProperties DEF Shape, Height
<1>2. Tip \in Block
  BY <1>1 DEF Tip
<1>3. /\ Len(requests) \in Nat /\ Len(requests) <= MaxRequests
      /\ \A q \in 1 .. Len(requests) : requests[q] \in Request
  BY WorldFacts, BoundsAssumption, ElementOfSeq, LenProperties DEF Shape
<1>4. /\ Len(txs) \in Nat /\ Len(txs) <= MaxTxs
      /\ \A t \in 1 .. Len(txs) : txs[t] \in Tx
  BY WorldFacts, BoundsAssumption, ElementOfSeq, LenProperties DEF Shape
<1>5. 1 .. Len(txs) \subseteq TxIds
  BY <1>4, BoundsAssumption DEF TxIds
<1>6. FinalHeight \in Nat /\ FinalHeight >= Height
  BY <1>1 DEF FinalHeight, Shape
<1>. QED  BY <1>1, <1>2, <1>3, <1>4, <1>5, <1>6

\* A sweep of a line descends from all the earlier ones of it.
LEMMA LineFacts ==
    ASSUME Shape, LinesAreLinear, NEW t \in 1 .. Len(txs), NEW u \in txs[t].line
    PROVE  /\ u \in 1 .. Len(txs)
           /\ u <= t
           /\ u \in txs[u].line
           /\ txs[u].line \subseteq txs[t].line
           /\ txs[u].line \subseteq 1 .. u
           /\ \A v \in txs[t].line : v <= u => v \in txs[u].line
<1>1. Len(txs) \in Nat /\ txs[t] \in Tx
  BY ShapeFacts
<1>2. u \in 1 .. t
  BY DEF LinesAreLinear
<1>3. u \in 1 .. Len(txs)
  BY <1>1, <1>2
<1>4. txs[t].line \subseteq TxIds /\ txs[u].line \subseteq TxIds
  BY <1>1, <1>3, ShapeFacts DEF Tx
<1>5. u \in txs[u].line /\ txs[u].line \subseteq 1 .. u
  BY <1>3 DEF LinesAreLinear
<1>6. \A v \in TxIds : v \in txs[u].line <=> v \in txs[t].line /\ v <= u
  BY DEF LinesAreLinear
<1>. QED  BY <1>2, <1>3, <1>4, <1>5, <1>6

\* The sweeps confirmed at a block are confirmed at every later one, and each
\* was created before the output that it leads to.
LEMMA ChainFacts ==
    ASSUME Shape, LinesAreLinear, ChainIsALine, NEW h \in 1 .. Height
    PROVE  /\ chain[h].utxo = 0 => chain[h].sweeps = {}
           /\ chain[h].utxo # 0 =>
                  /\ chain[h].utxo \in 1 .. Len(txs)
                  /\ chain[h].sweeps = txs[chain[h].utxo].line
                  /\ chain[h].utxo \in chain[h].sweeps
                  /\ chain[h].sweeps \subseteq 1 .. chain[h].utxo
           /\ chain[h].sweeps \subseteq 1 .. Len(txs)
           /\ \A g \in 1 .. h : chain[g].sweeps \subseteq chain[h].sweeps
<1>1. chain[h].utxo = 0 => chain[h].sweeps = {}
  BY DEF ChainIsALine, Line
<1>2. ASSUME NEW g \in 1 .. Height, chain[g].utxo # 0
      PROVE  /\ chain[g].utxo \in 1 .. Len(txs)
             /\ chain[g].sweeps = txs[chain[g].utxo].line
             /\ chain[g].utxo \in chain[g].sweeps
             /\ chain[g].sweeps \subseteq 1 .. chain[g].utxo
  <2>1. chain[g].utxo \in 1 .. Len(txs)
    BY <1>2, Zenon DEF ChainIsALine, Shape
  <2>2. chain[g].sweeps = txs[chain[g].utxo].line
    BY <1>2 DEF ChainIsALine, Line
  <2>. QED  BY <2>1, <2>2 DEF LinesAreLinear
<1>3. chain[h].sweeps \subseteq 1 .. Len(txs)
  BY Zenon DEF ChainIsALine, Shape
<1>4. ASSUME NEW g \in 1 .. h PROVE chain[g].sweeps \subseteq chain[h].sweeps
  <2>1. g \in 1 .. Height
    BY ShapeFacts
  <2>2. CASE chain[g].utxo = 0
    BY <2>1, <2>2 DEF ChainIsALine, Line
  <2>3. CASE chain[g].utxo # 0
    <3>1. chain[g].utxo \in chain[h].sweeps
      BY <2>3 DEF ChainIsALine
    <3>2. chain[h].utxo # 0
      BY <3>1, <1>1
    <3>. QED  BY <1>2, <2>1, <2>3, <3>1, <3>2, LineFacts
  <2>. QED  BY <2>2, <2>3
<1>. QED  BY <1>1, <1>2, <1>3, <1>4

-----------------------------------------------------------------------------
(* What every step keeps.                                                  *)

\* Sweeps, requests, rows, signatures and rejections stay once they are there,
\* and so do the blocks that a reorg does not reach.
Grows ==
    /\ world' = world
    /\ \A t \in 1 .. Len(txs) : t \in 1 .. Len(txs') /\ txs'[t] = txs[t]
    /\ \A q \in 1 .. Len(requests) :
           q \in 1 .. Len(requests') /\ requests'[q] = requests[q]
    /\ \A s \in Signers : sighashes[s] \subseteq sighashes'[s]
    /\ \A s \in Signers : \A t \in TxIds :
           outputs[s][t] # 0 => outputs'[s][t] = outputs[s][t]
    /\ signed \subseteq signed'
    /\ rejects \subseteq rejects'
    /\ FinalHeight' \in Nat /\ FinalHeight <= FinalHeight'
    /\ Height' \in Nat
    /\ \A h \in 1 .. Height :
           h + WITHDRAWAL_MIN_CONFIRMATIONS <= FinalHeight => h <= Height'
    /\ \A h \in 1 .. Height : h <= Height' =>
           /\ chain'[h].utxo = chain[h].utxo
           /\ chain'[h].sweeps = chain[h].sweeps
           /\ \A i \in RequestIds : chain[h].created[i] # 0 =>
                  chain'[h].created[i] = chain[h].created[i]

\* A request as deep as any reorg stays on the chain.
LEMMA SettledStays ==
    ASSUME Shape, Grows, NEW q, NEW n \in Nat, n >= WITHDRAWAL_MIN_CONFIRMATIONS,
           Settled(q, n)
    PROVE  Settled(q, n)'
<1>1. q \in 1 .. Len(requests) /\ requests[q] \in Request
  BY ShapeFacts DEF Settled
<1>2. requests'[q] = requests[q] /\ q \in 1 .. Len(requests')
  BY <1>1 DEF Grows
<1>3. requests[q].height \in 1 .. Height /\ requests[q].id \in RequestIds
  BY <1>1, ShapeFacts, BoundsAssumption DEF Settled, Request
<1>4. requests[q].height <= Height'
  BY <1>3, ShapeFacts, BoundsAssumption DEF Settled, Grows
<1>5. requests[q].height + n <= FinalHeight'
  BY <1>3, ShapeFacts DEF Settled, Grows
<1>6. chain'[requests[q].height].created[requests[q].id] = q
  <2>1. chain[requests[q].height].created[requests[q].id] = q /\ q # 0
    BY <1>1, ShapeFacts DEF Settled
  <2>. QED  BY <2>1, <1>3, <1>4 DEF Grows
<1>. QED  BY <1>2, <1>4, <1>5, <1>6 DEF Settled

\* The rows of a sweep stay.
LEMMA HoldsStays ==
    ASSUME Shape, Grows, NEW s \in Signers, NEW t \in TxIds, Holds(s, t)
    PROVE  Holds(s, t)'
BY DEF Holds, Grows

\* A conflict that is as deep as any reorg stays.
LEMMA ConflictedStays ==
    ASSUME Shape, Grows, NEW t \in 1 .. Len(txs), Conflicted(t)
    PROVE  Conflicted(t)'
<1>1. PICK s \in Signers, g \in Nat :
        /\ g \in 2 .. Height - 1
        /\ outputs[s][t] \in 1 .. g - 1
        /\ chain[g].utxo # chain[g - 1].utxo
        /\ t \notin chain[g].sweeps
        /\ g + WITHDRAWAL_MIN_CONFIRMATIONS < FinalHeight
  BY ShapeFacts DEF Conflicted
<1>2. /\ g \in 1 .. Height /\ g - 1 \in 1 .. Height /\ g + 1 \in 1 .. Height
      /\ (g + 1) + WITHDRAWAL_MIN_CONFIRMATIONS <= FinalHeight
  BY <1>1, ShapeFacts, BoundsAssumption
<1>3. g + 1 <= Height' /\ Height' \in Nat
  BY <1>2 DEF Grows
<1>4. g <= Height' /\ g - 1 <= Height' /\ g \in 2 .. Height' - 1
  BY <1>1, <1>3, ShapeFacts
<1>5. /\ chain'[g].utxo = chain[g].utxo
      /\ chain'[g].sweeps = chain[g].sweeps
      /\ chain'[g - 1].utxo = chain[g - 1].utxo
  BY <1>2, <1>4 DEF Grows
<1>6. outputs'[s][t] = outputs[s][t]
  <2>1. t \in TxIds
    BY ShapeFacts
  <2>2. outputs[s][t] # 0
    BY <1>1
  <2>. QED  BY <2>1, <2>2 DEF Grows
<1>7. g + WITHDRAWAL_MIN_CONFIRMATIONS < FinalHeight'
  BY <1>1, ShapeFacts, BoundsAssumption DEF Grows
<1>. QED  BY <1>1, <1>4, <1>5, <1>6, <1>7 DEF Conflicted

\* What the invariant says of old sweeps and rejections holds after any step.
LEMMA OldStay ==
    ASSUME IInv, Grows
    PROVE  /\ \A t \in 1 .. Len(txs) : \A q \in txs[t].pays :
                  Settled(q, WITHDRAWAL_MIN_CONFIRMATIONS)'
           /\ \A q \in rejects : Settled(q, WITHDRAWAL_BLOCKS_EXPIRY + 1)'
           /\ \A t \in signed : txs[t].pays # {} =>
                  \E Q \in SUBSET Signers :
                      Cardinality(Q) >= Threshold /\ \A s \in Q : Holds(s, t)'
           /\ \A q \in rejects : \A t \in signed : q \in txs[t].pays => Conflicted(t)'
<1>. USE DEF IInv
<1>1. ASSUME NEW t \in 1 .. Len(txs), NEW q \in txs[t].pays
      PROVE  Settled(q, WITHDRAWAL_MIN_CONFIRMATIONS)'
  <2>1. Settled(q, WITHDRAWAL_MIN_CONFIRMATIONS)
    BY DEF PaidAreSettled
  <2>. QED  BY <2>1, SettledStays, BoundsAssumption
<1>2. ASSUME NEW q \in rejects PROVE Settled(q, WITHDRAWAL_BLOCKS_EXPIRY + 1)'
  <2>1. Settled(q, WITHDRAWAL_BLOCKS_EXPIRY + 1)
    BY DEF RejectedAreSettled
  <2>2. /\ WITHDRAWAL_BLOCKS_EXPIRY + 1 \in Nat
        /\ WITHDRAWAL_BLOCKS_EXPIRY + 1 >= WITHDRAWAL_MIN_CONFIRMATIONS
    BY BoundsAssumption, ReorgsAssumption
  <2>. QED  BY <2>1, <2>2, SettledStays
<1>3. ASSUME NEW t \in signed, txs[t].pays # {}
      PROVE  \E Q \in SUBSET Signers :
                 Cardinality(Q) >= Threshold /\ \A s \in Q : Holds(s, t)'
  <2>1. t \in TxIds
    BY ShapeFacts, Zenon DEF Shape
  <2>2. PICK Q \in SUBSET Signers :
            Cardinality(Q) >= Threshold /\ \A s \in Q : Holds(s, t)
    BY <1>3 DEF SignedAreHeld
  <2>3. \A s \in Q : Holds(s, t)'
    BY <2>1, <2>2, HoldsStays
  <2>. QED  BY <2>2, <2>3
<1>4. ASSUME NEW q \in rejects, NEW t \in signed, q \in txs[t].pays
      PROVE  Conflicted(t)'
  <2>1. Conflicted(t)
    BY <1>4 DEF RejectedAreGivenUp
  <2>2. t \in 1 .. Len(txs)
    BY DEF Shape
  <2>. QED  BY <2>1, <2>2, ConflictedStays
<1>. QED  BY <1>1, <1>2, <1>3, <1>4

\* Lines are made of sweeps, and no sweep changes.
LEMMA LinesStay ==
    ASSUME IInv, Grows, UNCHANGED txs
    PROVE  LinesAreLinear' /\ LinesPayOnce' /\ PaidAreSettled'
<1>1. LinesAreLinear'
  BY DEF IInv, LinesAreLinear, Line
<1>2. LinesPayOnce'
  <2>1. \A t \in 1 .. Len(txs) : \A q \in txs[t].pays : requests'[q] = requests[q]
    BY DEF IInv, PaidAreSettled, Settled, Grows
  <2>2. \A t \in 1 .. Len(txs) : \A u \in txs[t].line : u \in 1 .. Len(txs)
    BY LineFacts DEF IInv
  <2>. QED  BY <2>1, <2>2 DEF IInv, LinesPayOnce
<1>3. PaidAreSettled'
  BY OldStay DEF PaidAreSettled
<1>. QED  BY <1>1, <1>2, <1>3

\* The blocks stay as they are while sweeps are proposed and calls are signed.
LEMMA ChainStays ==
    ASSUME IInv, Grows, UNCHANGED <<chain, requests>>
    PROVE  ChainIsALine' /\ RequestsAreNumbered' /\ DecisionsAreBacked'
<1>1. UNCHANGED Height
  BY DEF Height
<1>2. ASSUME NEW h \in 1 .. Height PROVE Line(chain[h].utxo)' = Line(chain[h].utxo)
  BY ChainFacts DEF IInv, Line, Grows
<1>3. ChainIsALine'
  BY <1>1, <1>2, Zenon DEF IInv, ChainIsALine, Grows
<1>4. RequestsAreNumbered'
  BY <1>1 DEF IInv, RequestsAreNumbered, NumbersAt, OriginAt
<1>5. DecisionsAreBacked'
  <2>1. \A h \in 1 .. Height : \A t \in chain[h].sweeps : txs'[t] = txs[t]
    BY ChainFacts DEF IInv, Grows
  <2>. QED  BY <1>1, <2>1 DEF IInv, DecisionsAreBacked, Grows
<1>. QED  BY <1>3, <1>4, <1>5

\* No sweep is signed and none rejected.
LEMMA SignaturesStay ==
    ASSUME IInv, Grows, UNCHANGED <<txs, signed>>
    PROVE  SignedAreHeld'
BY OldStay DEF SignedAreHeld

\* No request is rejected.
LEMMA RejectsStay ==
    ASSUME IInv, Grows, UNCHANGED rejects
    PROVE  RejectedAreSettled'
BY OldStay DEF RejectedAreSettled

\* Sweeps that were given up stay so while the chain tip has the same sweeps.
LEMMA GivenUpStay ==
    ASSUME IInv, Grows, UNCHANGED <<txs, Tip.utxo, Tip.sweeps>>,
           NEW q \in rejects, NEW t \in signed, q \in txs[t].pays
    PROVE  Conflicted(t)' /\ (world'.reorg = 0 => Abandoned(t)')
<1>1. Conflicted(t)'
  BY OldStay
<1>2. world.reorg = 0 => Abandoned(t)
  BY DEF IInv, RejectedAreGivenUp
<1>3. Abandoned(t) => Abandoned(t)'
  BY DEF Abandoned
<1>. QED  BY <1>1, <1>2, <1>3 DEF Grows

\* No row is written.
LEMMA RowsStay ==
    ASSUME IInv, Grows, UNCHANGED <<txs, sighashes, outputs>>,
           world.reorg = 0 => Tip.sweeps \subseteq Tip'.sweeps
    PROVE  RowsAreLinked'
BY DEF IInv, RowsAreLinked, Grows

-----------------------------------------------------------------------------
(* Signing.                                                                *)

\* The next transaction of the package gets its signatures.
LEMMA SignSweepStep ==
    ASSUME IInv, SignSweep
    PROVE  IInv'
<1>1. /\ UNCHANGED <<world, chain, pending, requests, txs, sighashes, outputs, rejects>>
      /\ pending = 0
  BY DEF SignSweep
<1>2. UNCHANGED <<Height, FinalHeight, Tip, Tip.utxo, Tip.sweeps>>
  BY <1>1 DEF Height, FinalHeight, Tip
<1>3. PICK t : t = Head(round.left)
  OBVIOUS
<1>4. /\ round.left \in Seq(TxIds) /\ round.left # << >> /\ round.acks \subseteq Signers
      /\ Len(round.left) \in Nat
      /\ round'.left = Tail(round.left) /\ round'.acks = round.acks
      /\ round' = [left |-> Tail(round.left), acks |-> round.acks]
  BY LenProperties, Zenon DEF IInv, Shape, Round, SignSweep
<1>5. /\ Tail(round.left) \in Seq(TxIds)
      /\ Len(Tail(round.left)) = Len(round.left) - 1
      /\ \A i \in 1 .. Len(Tail(round.left)) : Tail(round.left)[i] = round.left[i + 1]
      /\ t = round.left[1] /\ 1 \in 1 .. Len(round.left)
  BY <1>3, <1>4, HeadTailProperties, EmptySeq, LenProperties
<1>6. /\ t \in 1 .. Len(txs)
      /\ \A q \in txs[t].pays : requests[q].height + WITHDRAWAL_BLOCKS_EXPIRY >= Height
      /\ \A s \in round.acks : txs[t].pays # {} => Holds(s, t)
  BY <1>5 DEF IInv, RoundIsRecorded
<1>7. signed' = signed \cup {t} /\ Cardinality(round.acks) >= Threshold
  BY <1>3 DEF SignSweep
<1>8. Shape'
  BY <1>1, <1>2, <1>4, <1>5, <1>6, <1>7, Zenon DEF IInv, Shape, Round
<1>9. Grows
  BY <1>1, <1>2, <1>7, ShapeFacts DEF IInv, Grows
<1>10. RoundIsRecorded'
  <2>1. ASSUME NEW i \in 1 .. Len(round'.left)
        PROVE  i + 1 \in 1 .. Len(round.left) /\ round'.left[i] = round.left[i + 1]
    BY <1>4, <1>5
  <2>2. \A s \in Signers : \A u : Holds(s, u) => Holds(s, u)'
    BY <1>1 DEF Holds
  <2>. QED  BY <1>1, <1>2, <1>4, <2>1, <2>2 DEF IInv, RoundIsRecorded
<1>11. SignedAreHeld'
  <2>1. \A s \in Signers : \A u : Holds(s, u) => Holds(s, u)'
    BY <1>1 DEF Holds
  <2>. QED  BY <1>1, <1>4, <1>6, <1>7, <2>1 DEF IInv, SignedAreHeld
<1>12. \A q \in rejects : q \notin txs[t].pays
  <2>1. ASSUME NEW q \in rejects, q \in txs[t].pays PROVE FALSE
    <3>1. requests[q].height + (WITHDRAWAL_BLOCKS_EXPIRY + 1) <= FinalHeight
      BY DEF IInv, RejectedAreSettled, Settled
    <3>2. FinalHeight = Height
      BY <1>1, ShapeFacts DEF FinalHeight, IInv
    <3>3. requests[q].height \in Nat
      BY ShapeFacts, BoundsAssumption DEF IInv, Shape, Request
    <3>. QED  BY <1>6, <2>1, <3>1, <3>2, <3>3, ShapeFacts, BoundsAssumption DEF IInv
  <2>. QED  BY <2>1
<1>13. RejectedAreGivenUp'
  BY <1>1, <1>2, <1>7, <1>9, <1>12, GivenUpStay DEF RejectedAreGivenUp
<1>14. RowsAreLinked'
  BY <1>1, <1>2, <1>9, RowsStay
<1>. QED
  BY <1>1, <1>8, <1>9, <1>10, <1>11, <1>13, <1>14, LinesStay, ChainStays, RejectsStay DEF IInv

-----------------------------------------------------------------------------
(* Rejecting.                                                              *)

\* Two quorums have a signer in common.
LEMMA QuorumsMeet ==
    ASSUME NEW Q \in SUBSET Signers, NEW R \in SUBSET Signers,
           Cardinality(Q) >= Threshold, Cardinality(R) >= Threshold
    PROVE  \E s \in Q : s \in R
<1>1. /\ Cardinality(Signers) \in Nat /\ Cardinality(Q) \in Nat /\ Cardinality(R) \in Nat
  BY FS_CardinalityType, FS_Subset, SignersAssumption
<1>2. Cardinality(Q) + Cardinality(R) > Cardinality(Signers)
  BY <1>1, SignersAssumption
<1>3. Q \cap R # {}
  BY <1>2, FS_MajoritiesIntersect, SignersAssumption
<1>. QED  BY <1>3

\* A set of heights has a greatest one.
LEMMA GreatestHeight ==
    ASSUME NEW S \in SUBSET (0 .. MaxHeight), S # {}
    PROVE  \E h \in S : \A g \in S : g <= h
<1> DEFINE D == {n \in Nat : MaxHeight - n \in S}
<1>1. D # {} /\ D \subseteq Nat
  <2>1. PICK h \in S : TRUE
    BY Zenon
  <2>2. MaxHeight - h \in D
    BY <2>1, BoundsAssumption
  <2>. QED  BY <2>2
<1>2. \E x \in D : \A y \in D : ~(<<y, x>> \in OpToRel(<, Nat))
  BY <1>1, NatLessThanWellFounded, WFMin, Zenon
<1>3. PICK x \in D : \A y \in D : ~(<<y, x>> \in OpToRel(<, Nat))
  BY <1>2, Zenon
<1>4. \A y \in D : ~(y < x)
  BY <1>1, <1>3, Zenon DEF OpToRel
<1>5. ASSUME NEW g \in S PROVE g <= MaxHeight - x
  <2>1. MaxHeight - g \in D
    BY BoundsAssumption
  <2>2. ~(MaxHeight - g < x)
    BY <1>4, <2>1
  <2>. QED  BY <2>2, BoundsAssumption
<1>. QED  BY <1>5, Zenon

\* A signer that holds a sweep paying an expired request rejects the request only
\* after another sweep took the place of this one (is_withdrawal_active), and
\* when no sweeps lead to this one (is_withdrawal_inflight).
LEMMA RejectsTheConflicted ==
    ASSUME IInv, pending = 0, NEW s \in Signers, NEW q, ValidatesReject(s, q),
           NEW t \in 1 .. Len(txs), q \in txs[t].pays, Holds(s, t)
    PROVE  /\ Conflicted(t)
           /\ world.reorg = 0 \/ ~world.lossy => Abandoned(t)
<1> DEFINE considered == {outputs[s][u] : u \in {v \in 1 .. Len(txs) :
                             outputs[s][v] # 0 /\ q \in txs[v].pays}}
<1>1. considered \in SUBSET (0 .. MaxHeight) /\ outputs[s][t] \in considered
  <2>1. \A u \in 1 .. Len(txs) : outputs[s][u] \in 0 .. MaxHeight
    BY ShapeFacts DEF IInv, Shape
  <2>2. outputs[s][t] # 0
    BY DEF Holds
  <2>3. considered \in SUBSET (0 .. MaxHeight)
    BY <2>1
  <2>. QED  BY <2>2, <2>3
<1>2. PICK h \in considered : \A g \in considered : g <= h
  BY <1>1, GreatestHeight, Zenon
<1>3. PICK g \in TxoHeights(h + 1) : ~(Height - g <= WITHDRAWAL_MIN_CONFIRMATIONS)
  <2>1. ~is_withdrawal_active(s, q)
    BY DEF ValidatesReject
  <2>. QED  BY <1>2, <2>1, Zenon DEF is_withdrawal_active
<1>4. /\ g \in Nat /\ g >= 2 /\ g <= Height /\ g >= h + 1
      /\ chain[g].utxo # chain[g - 1].utxo
  BY <1>3, ShapeFacts DEF TxoHeights, IInv
<1>5. g + WITHDRAWAL_MIN_CONFIRMATIONS < Height /\ g \in 2 .. Height - 1
  BY <1>3, <1>4, ShapeFacts, BoundsAssumption DEF IInv
<1>6. outputs[s][t] \in 1 .. g - 1
  <2>1. outputs[s][t] <= h /\ h \in 0 .. MaxHeight /\ outputs[s][t] \in 0 .. MaxHeight
    BY <1>1, <1>2
  <2>2. outputs[s][t] # 0
    BY DEF Holds
  <2>. QED  BY <1>4, <2>1, <2>2, BoundsAssumption
<1>7. t \notin Tip.sweeps
  <2>1. ~Swept(q)
    BY DEF ValidatesReject
  <2>2. requests[q].id \in PaysIds(t)
    BY DEF PaysIds
  <2>. QED  BY <2>1, <2>2 DEF Swept
<1>8. t \notin chain[g].sweeps
  <2>1. g \in 1 .. Height /\ Height \in 1 .. Height
    BY <1>4, ShapeFacts DEF IInv
  <2>2. chain[g].sweeps \subseteq chain[Height].sweeps
    BY <2>1, ChainFacts DEF IInv
  <2>. QED  BY <1>7, <2>2 DEF Tip
<1>9. FinalHeight = Height
  BY ShapeFacts DEF FinalHeight, IInv
<1>10. Conflicted(t)
  BY <1>4, <1>5, <1>6, <1>8, <1>9 DEF Conflicted
<1>11. ASSUME world.reorg = 0 \/ ~world.lossy PROVE Abandoned(t)
  <2>1. Line(t) = txs[t].line
    BY ShapeFacts DEF Line, IInv
  <2>2. Line(Tip.utxo) = Tip.sweeps
    <3>1. Height \in 1 .. Height
      BY ShapeFacts DEF IInv
    <3>. QED  BY <3>1 DEF IInv, ChainIsALine, Tip
  <2>3. txs[t].line \subseteq 1 .. Len(txs)
    BY LineFacts DEF IInv
  <2>4. Line(t) \ Line(Tip.utxo) \subseteq sighashes[s]
    BY <1>11, <2>1, <2>2, <2>3 DEF IInv, RowsAreLinked, Holds
  <2>5. ~is_withdrawal_inflight(s, q)
    BY DEF ValidatesReject
  <2>6. Tip.utxo \notin Line(t) \cup {0}
    BY <2>4, <2>5 DEF is_withdrawal_inflight, Holds
  <2>. QED  BY <1>7, <2>1, <2>6 DEF Abandoned
<1>. QED  BY <1>10, <1>11

\* A quorum signs the rejection of a request.
LEMMA SignRejectStep ==
    ASSUME IInv, NEW q \in 1 .. Len(requests), SignReject(q)
    PROVE  IInv'
<1>1. /\ UNCHANGED <<world, chain, pending, requests, txs, sighashes, outputs, round, signed>>
      /\ pending = 0
      /\ rejects' = rejects \cup {q}
  BY DEF SignReject
<1>2. UNCHANGED <<Height, FinalHeight, Tip, Tip.utxo, Tip.sweeps>>
  BY <1>1 DEF Height, FinalHeight, Tip
<1>3. Shape'
  BY <1>1, <1>2 DEF IInv, Shape
<1>4. Grows
  BY <1>1, <1>2, ShapeFacts DEF IInv, Grows
<1>5. RoundIsRecorded'
  BY <1>1, <1>2 DEF IInv, RoundIsRecorded, Holds
<1>6. Settled(q, WITHDRAWAL_BLOCKS_EXPIRY + 1)'
  <2>1. Tip.created[requests[q].id] = q /\ requests[q].height < Height - WITHDRAWAL_BLOCKS_EXPIRY
    BY DEF SignReject, PendingRejected, Confirmed
  <2>2. /\ requests[q].height \in Nat /\ requests[q].id \in RequestIds
        /\ Height \in 1 .. Height /\ q # 0
    BY ShapeFacts, BoundsAssumption DEF IInv, Request
  <2>3. chain[requests[q].height].created[requests[q].id] = q
    <3>1. OriginAt(Height, requests[q].id)
      BY <2>2 DEF IInv, RequestsAreNumbered
    <3>. QED  BY <2>1, <2>2, <3>1 DEF OriginAt, Tip
  <2>4. FinalHeight = Height
    BY <1>1, ShapeFacts DEF FinalHeight, IInv
  <2>5. /\ requests[q].height <= Height
        /\ requests[q].height + (WITHDRAWAL_BLOCKS_EXPIRY + 1) <= FinalHeight
    BY <2>1, <2>2, <2>4, ShapeFacts, BoundsAssumption DEF IInv
  <2>. QED  BY <1>1, <1>2, <2>3, <2>5 DEF Settled
<1>7. RejectedAreSettled'
  BY <1>1, <1>4, <1>6, OldStay DEF RejectedAreSettled
<1>8. ASSUME NEW t \in signed, q \in txs[t].pays
      PROVE  Conflicted(t) /\ (world.reorg = 0 => Abandoned(t))
  <2>1. PICK Q \in SUBSET Signers :
            Cardinality(Q) >= Threshold /\ \A s \in Q : Holds(s, t)
    BY <1>8 DEF IInv, SignedAreHeld
  <2>2. Cardinality({s \in Signers : ValidatesReject(s, q)}) >= Threshold
    BY DEF SignReject
  <2>3. PICK s \in Q : ValidatesReject(s, q)
    BY <2>1, <2>2, QuorumsMeet
  <2>4. t \in 1 .. Len(txs)
    BY DEF IInv, Shape
  <2>. QED  BY <1>1, <1>8, <2>1, <2>3, <2>4, RejectsTheConflicted
<1>9. \A t \in signed : Conflicted(t) => Conflicted(t)'
  BY <1>1, <1>2 DEF Conflicted
<1>10. \A t \in signed : Abandoned(t) => Abandoned(t)'
  BY <1>1, <1>2 DEF Abandoned
<1>11. RejectedAreGivenUp'
  BY <1>1, <1>8, <1>9, <1>10 DEF IInv, RejectedAreGivenUp
<1>12. RowsAreLinked'
  BY <1>1, <1>2, <1>4, RowsStay
<1>. QED
  BY <1>1, <1>3, <1>4, <1>5, <1>7, <1>11, <1>12, LinesStay, ChainStays, SignaturesStay DEF IInv

-----------------------------------------------------------------------------
(* Proposing a sweep again.                                                *)

\* A later coordinator proposes a sweep that the signers may have already.
LEMMA PresignAgainStep ==
    ASSUME IInv, NEW t \in TxIds, NEW recorders \in SUBSET Signers,
           PresignAgain(t, recorders)
    PROVE  IInv'
<1>1. /\ UNCHANGED <<world, chain, pending, requests, txs, signed, rejects>>
      /\ pending = 0
      /\ t \in 1 .. Len(txs) /\ txs[t].in = Tip.utxo
      /\ world.lossy \/ recorders = Signers
      /\ round' = [left |-> <<t>>, acks |-> recorders]
  BY DEF PresignAgain
<1>2. UNCHANGED <<Height, FinalHeight, Tip, Tip.utxo, Tip.sweeps>>
  BY <1>1 DEF Height, FinalHeight, Tip
<1>3. /\ sighashes' \in [Signers -> SUBSET (1 .. Len(txs))]
      /\ \A s \in Signers :
             sighashes'[s] = sighashes[s] \cup (IF s \in recorders THEN {t} ELSE {})
  BY <1>1 DEF PresignAgain, IInv, Shape
<1>4. /\ outputs' \in [Signers -> [TxIds -> 0 .. MaxHeight]]
      /\ \A s \in Signers : \A u \in TxIds :
             outputs'[s][u] = IF /\ s \in recorders /\ u = t
                                 /\ outputs[s][t] = 0 /\ txs[t].pays # {}
                              THEN Height ELSE outputs[s][u]
  <2>1. Height \in 0 .. MaxHeight
    BY ShapeFacts DEF IInv
  <2>. QED  BY <2>1, Zenon DEF PresignAgain, IInv, Shape
<1>5. Shape'
  <2>1. round' \in Round
    BY <1>1 DEF Round
  <2>. QED  BY <1>1, <1>2, <1>3, <1>4, <2>1 DEF IInv, Shape
<1>6. Grows
  BY <1>1, <1>2, <1>3, <1>4, ShapeFacts DEF IInv, Grows
<1>7. RoundIsRecorded'
  <2>1. round'.left = <<t>> /\ round'.acks = recorders /\ Len(<<t>>) = 1 /\ <<t>>[1] = t
    BY <1>1
  <2>2. ASSUME NEW q \in txs[t].pays
        PROVE  requests[q].height + WITHDRAWAL_BLOCKS_EXPIRY >= Height
    <3>1. Height - requests[q].height <= WITHDRAWAL_BLOCKS_EXPIRY - WITHDRAWAL_EXPIRY_BUFFER
      BY DEF PresignAgain, Eligible, BlocksObserved
    <3>2. requests[q].height \in Nat
      BY <1>1, ShapeFacts, BoundsAssumption DEF IInv, PaidAreSettled, Settled, Request
    <3>. QED  BY <3>1, <3>2, ShapeFacts, BoundsAssumption DEF IInv
  <2>3. ASSUME NEW s \in recorders, txs[t].pays # {} PROVE Holds(s, t)'
    <3>1. t \in sighashes'[s]
      BY <1>3, Zenon
    <3>2. outputs'[s][t] # 0
      BY <1>4, <2>3, ShapeFacts DEF IInv
    <3>. QED  BY <3>1, <3>2 DEF Holds
  <2>. QED  BY <1>1, <1>2, <2>1, <2>2, <2>3 DEF RoundIsRecorded
<1>8. RowsAreLinked'
  <2>1. \A s \in Signers : \A u \in TxIds : outputs'[s][u] # 0 => u \in 1 .. Len(txs)
    BY <1>1, <1>4, Zenon DEF IInv, RowsAreLinked
  <2>2. ~world.lossy => \A s \in Signers : sighashes'[s] = 1 .. Len(txs)
    BY <1>1, <1>3, Zenon DEF IInv, RowsAreLinked
  <2>3. txs[t].line = Tip.sweeps \cup {t}
    <3>1. txs[t].line = Line(txs[t].in) \cup {t}
      BY <1>1 DEF IInv, LinesAreLinear
    <3>2. Line(Tip.utxo) = Tip.sweeps
      BY ShapeFacts DEF IInv, ChainIsALine, Tip
    <3>. QED  BY <1>1, <3>1, <3>2
  <2>4. ASSUME world.reorg = 0, NEW s \in Signers, NEW u \in sighashes'[s]
        PROVE  txs[u].line \subseteq Tip.sweeps \cup sighashes'[s]
    <3>1. CASE u \in sighashes[s]
      BY <1>3, <2>4, <3>1 DEF IInv, RowsAreLinked
    <3>2. CASE u = t
      BY <1>3, <2>3, <2>4, <3>2, Zenon
    <3>. QED  BY <1>3, <3>1, <3>2
  <2>. QED  BY <1>1, <1>2, <2>1, <2>2, <2>4, Zenon DEF RowsAreLinked
<1>9. RejectedAreGivenUp'
  BY <1>1, <1>2, <1>6, GivenUpStay DEF RejectedAreGivenUp
<1>. QED
  BY <1>1, <1>5, <1>6, <1>7, <1>8, <1>9, LinesStay, ChainStays, SignaturesStay, RejectsStay, Zenon
     DEF IInv

-----------------------------------------------------------------------------
(* Bitcoin.                                                                *)

\* What can be mined continues the line of the chain tip with signed sweeps.
LEMMA MinableFacts ==
    ASSUME IInv, NEW o \in {Tip.utxo} \cup signed, Minable(o)
    PROVE  /\ o \in {0} \cup signed
           /\ o # 0 => o \in 1 .. Len(txs) /\ Line(o) = txs[o].line /\ o \in Line(o)
           /\ Line(o) \subseteq signed
           /\ Tip.sweeps = Line(Tip.utxo)
           /\ Tip.sweeps \subseteq Line(o)
           /\ Tip.utxo = 0 \/ Tip.utxo \in Line(o)
<1>1. Height \in 1 .. Height /\ signed \subseteq 1 .. Len(txs) /\ Len(txs) \in Nat
  BY ShapeFacts DEF IInv, Shape
<1>2. Tip.utxo \in {0} \cup signed /\ Tip.sweeps = Line(Tip.utxo) /\ Tip.sweeps \subseteq signed
  BY <1>1, Zenon DEF IInv, ChainIsALine, Tip
<1>3. o \in {0} \cup signed
  BY <1>2
<1>4. o # 0 => o \in 1 .. Len(txs) /\ Line(o) = txs[o].line /\ o \in Line(o)
  BY <1>1, <1>3, Zenon DEF Line, IInv, LinesAreLinear
<1>5. Line(o) \subseteq signed
  BY <1>2 DEF Minable
<1>6. Tip.utxo = 0 \/ Tip.utxo \in Line(o)
  BY Zenon DEF Minable
<1>7. Tip.sweeps \subseteq Line(o)
  <2>1. CASE Tip.utxo = 0
    BY <1>2, <2>1 DEF Line
  <2>2. CASE Tip.utxo # 0
    <3>1. Tip.utxo \in Line(o) /\ o # 0
      BY <1>6, <2>2 DEF Line
    <3>2. txs[Tip.utxo].line \subseteq txs[o].line
      BY <1>4, <3>1, LineFacts DEF IInv
    <3>. QED  BY <1>2, <1>4, <2>2, <3>1, <3>2 DEF Line
  <2>. QED  BY <2>1, <2>2, Zenon
<1>. QED  BY <1>2, <1>3, <1>4, <1>5, <1>6, <1>7, Zenon

\* The next block confirms the sweeps that lead to the output o.
LEMMA MineBlockStep ==
    ASSUME IInv, NEW o \in {Tip.utxo} \cup signed, MineBlock(o)
    PROVE  IInv'
<1>0. PICK H \in Nat : H = Height + 1
  BY ShapeFacts DEF IInv
<1>1. /\ UNCHANGED <<world, requests, txs, sighashes, outputs, signed, rejects>>
      /\ pending' = IF pending = 0 THEN 0 ELSE pending - 1
      /\ round' = NoRound
      /\ Minable(o) /\ Height < world.height
  BY DEF MineBlock
<1>2. PICK b : b = [Tip EXCEPT !.utxo = o, !.sweeps = Line(o)]
  OBVIOUS
<1>3. /\ b.utxo = o /\ b.sweeps = Line(o) /\ b.created = Tip.created
      /\ b.accepted = Tip.accepted /\ b.rejected = Tip.rejected
      /\ b \in Block
  <2>1. Tip \in Block
    BY ShapeFacts DEF IInv
  <2>2. o \in Outputs /\ Line(o) \subseteq TxIds
    <3>1. /\ o \in {0} \cup signed /\ Line(o) \subseteq signed
          /\ signed \subseteq 1 .. Len(txs)
      BY <1>1, MinableFacts DEF IInv, Shape
    <3>2. Len(txs) \in Nat /\ Len(txs) <= MaxTxs
      BY ShapeFacts, Zenon DEF IInv
    <3>3. o = 0 \/ o \in 1 .. Len(txs)
      BY <1>1, MinableFacts
    <3>4. o \in Outputs
      BY <3>2, <3>3, BoundsAssumption DEF Outputs
    <3>5. 1 .. Len(txs) \subseteq TxIds
      BY ShapeFacts DEF IInv
    <3>. QED  BY <3>1, <3>4, <3>5, Zenon
  <2>. QED  BY <1>2, <2>1, <2>2, Zenon DEF Block
<1>4. /\ chain' \in Seq(Block)
      /\ Height' = H /\ H = Height + 1 /\ H \in Nat
      /\ \A h \in 1 .. Height : chain'[h] = chain[h]
      /\ chain'[H] = b
  BY <1>0, <1>2, <1>3, AppendProperties DEF MineBlock, IInv, Shape, Height
<1>5. Tip' = b
  BY <1>4 DEF Tip
<1>6. FinalHeight' \in Nat /\ FinalHeight <= FinalHeight' /\ pending' \in Nat
  BY <1>1, <1>4, ShapeFacts DEF FinalHeight, IInv, Shape
<1>7. Shape'
  <2>1. round' \in Round
    BY <1>1, EmptySeq DEF NoRound, Round
  <2>2. Height' \in 1 .. world.height
    BY <1>1, <1>4, ShapeFacts, WorldFacts DEF IInv, Shape
  <2>. QED  BY <1>1, <1>4, <1>6, <2>1, <2>2, Zenon DEF IInv, Shape
<1>8. Grows
  BY <1>1, <1>4, <1>6, ShapeFacts DEF IInv, Grows
<1>9. ChainIsALine'
  <2>1. \A h \in 1 .. Height : Line(chain[h].utxo)' = Line(chain[h].utxo)
    BY <1>1, <1>4 DEF Line
  <2>2. ASSUME NEW h \in 1 .. Height
        PROVE  /\ chain'[h].utxo \in {0} \cup signed
               /\ chain'[h].sweeps = Line(chain[h].utxo)'
               /\ chain'[h].sweeps \subseteq signed
               /\ \A g \in 1 .. h : chain'[g].utxo \in {0} \cup chain'[h].sweeps
    <3>1. /\ chain[h].utxo \in {0} \cup signed
          /\ chain[h].sweeps = Line(chain[h].utxo)
          /\ chain[h].sweeps \subseteq signed
          /\ \A g \in 1 .. h : chain[g].utxo \in {0} \cup chain[h].sweeps
      BY Zenon DEF IInv, ChainIsALine
    <3>2. Height \in Nat
      BY ShapeFacts, Zenon DEF IInv
    <3>3. \A g \in 1 .. h : g \in 1 .. Height
      BY <3>2
    <3>4. chain'[h] = chain[h] /\ \A g \in 1 .. h : chain'[g] = chain[g]
      BY <1>4, <3>3, Zenon
    <3>. QED  BY <2>1, <3>1, <3>4, Zenon
  <2>3. Line(o)' = Line(o)
    BY <1>1 DEF Line
  <2>4. ASSUME NEW g \in 1 .. H PROVE chain'[g].utxo \in {0} \cup Line(o)
    <3>1. CASE g = H
      BY <1>1, <1>3, <1>4, <3>1, MinableFacts
    <3>2. CASE g \in 1 .. Height
      <4>1. chain[g].utxo \in {0} \cup Tip.sweeps
        BY <3>2, ShapeFacts DEF IInv, ChainIsALine, Tip
      <4>. QED  BY <1>1, <1>4, <3>2, <4>1, MinableFacts
    <3>. QED  BY <1>4, <3>1, <3>2, ShapeFacts DEF IInv
  <2>5. /\ chain'[H].utxo \in {0} \cup signed
        /\ chain'[H].sweeps = Line(chain[H].utxo)'
        /\ chain'[H].sweeps \subseteq signed
        /\ \A g \in 1 .. H : chain'[g].utxo \in {0} \cup chain'[H].sweeps
    BY <1>1, <1>3, <1>4, <2>3, <2>4, MinableFacts, Zenon DEF Line
  <2>6. \A h \in 1 .. Height' : h \in 1 .. Height \/ h = H
    BY <1>4, ShapeFacts DEF IInv
  <2>. QED  BY <1>1, <2>2, <2>5, <2>6 DEF ChainIsALine

<1>10. RequestsAreNumbered'
  <2>1. ASSUME NEW h \in 1 .. Height
        PROVE  /\ NumbersAt(h)'
               /\ \A i \in RequestIds : OriginAt(h, i)'
               /\ \A g \in 1 .. h : \A i \in RequestIds : chain'[g].created[i] # 0 =>
                      chain'[h].created[i] = chain'[g].created[i]
    <3>1. \A g \in 1 .. h : chain'[g] = chain[g] /\ g \in 1 .. Height
      BY <1>4, ShapeFacts DEF IInv
    <3>2. chain'[h] = chain[h]
      BY <1>4
    <3>3. NumbersAt(h)'
      BY <3>2 DEF IInv, RequestsAreNumbered, NumbersAt
    <3>4. ASSUME NEW i \in RequestIds PROVE OriginAt(h, i)'
      <4>1. OriginAt(h, i)
        BY DEF IInv, RequestsAreNumbered
      <4>. QED  BY <1>1, <3>1, <3>2, <4>1, Zenon DEF OriginAt
    <3>5. \A g \in 1 .. h : \A i \in RequestIds : chain[g].created[i] # 0 =>
              chain[h].created[i] = chain[g].created[i]
      BY DEF IInv, RequestsAreNumbered
    <3>. QED  BY <3>1, <3>2, <3>3, <3>4, <3>5
  <2>2. chain'[H].created = chain'[Height].created /\ Height \in 1 .. Height
    BY <1>3, <1>4, <1>5, ShapeFacts DEF IInv, Tip
  <2>3. \A h \in 1 .. Height' : h \in 1 .. Height \/ h = H
    BY <1>4, ShapeFacts DEF IInv
  <2>4. NumbersAt(H)'
    <3>1. PICK G : G = Height
      OBVIOUS
    <3>2. NumbersAt(G)' /\ chain'[H].created = chain'[G].created
      BY <2>1, <2>2, <3>1, Zenon
    <3>. QED  BY <3>2 DEF NumbersAt
  <2>5. ASSUME NEW i \in RequestIds PROVE OriginAt(H, i)'
    <3>1. PICK G \in Nat : G = Height
      BY ShapeFacts DEF IInv
    <3>2. OriginAt(G, i)' /\ chain'[H].created = chain'[G].created
      BY <2>1, <2>2, <3>1, Zenon
    <3>3. \A x \in 1 .. G : x \in 1 .. H
      BY <1>4, <3>1
    <3>. QED  BY <3>2, <3>3, Zenon DEF OriginAt
  <2>6. \A g \in 1 .. H : \A i \in RequestIds : chain'[g].created[i] # 0 =>
            chain'[H].created[i] = chain'[g].created[i]
    BY <1>4, <2>1, <2>2, <2>3
  <2>. QED  BY <2>1, <2>3, <2>4, <2>5, <2>6 DEF RequestsAreNumbered
<1>11. DecisionsAreBacked'
  <2>1. \A h \in 1 .. Height :
            /\ \A i \in chain'[h].accepted :
                   \E t \in chain'[h].sweeps : chain'[h].created[i] \in txs[t].pays
            /\ chain'[h].accepted \cap chain'[h].rejected = {}
            /\ \A i \in chain'[h].rejected : \E q \in rejects : requests[q].id = i
    BY <1>4, Zenon DEF IInv, DecisionsAreBacked
  <2>2. /\ b.accepted = chain'[Height].accepted /\ b.rejected = chain'[Height].rejected
        /\ b.created = chain'[Height].created /\ Height \in 1 .. Height
        /\ chain'[Height].sweeps \subseteq b.sweeps
    BY <1>1, <1>3, <1>4, ShapeFacts, MinableFacts DEF IInv, Tip
  <2>3. \A h \in 1 .. Height' : h \in 1 .. Height \/ h = H
    BY <1>4, ShapeFacts DEF IInv
  <2>. QED  BY <1>1, <1>4, <2>1, <2>2, <2>3 DEF DecisionsAreBacked
<1>12. RoundIsRecorded'
  <2>1. Len(round'.left) = 0
    BY <1>1, EmptySeq DEF NoRound
  <2>. QED  BY <2>1 DEF RoundIsRecorded
<1>13. ASSUME NEW t \in signed, world.reorg = 0, Abandoned(t) PROVE Abandoned(t)'
  <2>1. /\ Tip.utxo # 0 /\ Tip.utxo \notin txs[t].line /\ t \notin Tip.sweeps
        /\ t \in 1 .. Len(txs)
    BY <1>13 DEF Abandoned, IInv, Shape
  <2>2. /\ o # 0 /\ o \in 1 .. Len(txs) /\ Line(o) = txs[o].line /\ Tip.utxo \in Line(o)
        /\ Tip.sweeps = txs[Tip.utxo].line
    <3>1. Tip.utxo \in Line(o)
      BY <1>1, <2>1, MinableFacts
    <3>2. o # 0
      BY <3>1 DEF Line
    <3>. QED  BY <1>1, <2>1, <3>1, <3>2, MinableFacts, Zenon DEF Line
  <2>3. o \notin txs[t].line
    <3>1. ASSUME o \in txs[t].line PROVE FALSE
      <4>1. txs[o].line \subseteq txs[t].line
        BY <2>1, <3>1, LineFacts DEF IInv
      <4>. QED  BY <2>1, <2>2, <4>1
    <3>. QED  BY <3>1
  <2>4. t \notin Line(o)
    <3>1. ASSUME t \in txs[o].line PROVE FALSE
      <4>1. Tip.utxo \in txs[o].line /\ Tip.utxo \in 1 .. Len(txs)
        BY <2>2, LineFacts DEF IInv
      <4>2. Len(txs) \in Nat
        BY ShapeFacts DEF IInv
      <4>3. CASE t <= Tip.utxo
        BY <2>1, <2>2, <3>1, <4>1, <4>3, LineFacts, Zenon DEF IInv
      <4>4. CASE Tip.utxo <= t
        BY <2>1, <2>2, <3>1, <4>1, <4>4, LineFacts, Zenon DEF IInv
      <4>. QED  BY <2>1, <4>1, <4>2, <4>3, <4>4
    <3>. QED  BY <2>2, <3>1
  <2>. QED  BY <1>1, <1>3, <1>5, <2>2, <2>3, <2>4, Zenon DEF Abandoned
<1>14. RejectedAreGivenUp'
  BY <1>1, <1>8, <1>13, OldStay DEF IInv, RejectedAreGivenUp
<1>15. RowsAreLinked'
  <2>1. Tip.sweeps \subseteq Tip'.sweeps
    BY <1>1, <1>3, <1>5, MinableFacts
  <2>. QED  BY <1>1, <1>8, <2>1, RowsStay, Zenon
<1>. QED
  BY <1>1, <1>7, <1>8, <1>9, <1>10, <1>11, <1>12, <1>14, <1>15, LinesStay, SignaturesStay,
     RejectsStay DEF IInv

\* A fork without the last k blocks becomes the canonical chain.
LEMMA ReorgStep ==
    ASSUME IInv, NEW k \in 1 .. world.reorg, Reorg(k)
    PROVE  IInv'
<1>1. /\ UNCHANGED <<world, requests, txs, sighashes, outputs, signed, rejects>>
      /\ pending = 0 /\ pending' = k + 1
      /\ round' = NoRound
      /\ k < Height
  BY DEF Reorg
<1>2. /\ k \in Nat /\ k >= 1 /\ k <= WITHDRAWAL_MIN_CONFIRMATIONS /\ world.reorg # 0
  BY WorldFacts, BoundsAssumption DEF IInv, Shape
<1>3. PICK H \in Nat : H = Height - k
  BY <1>1, <1>2, ShapeFacts DEF IInv
<1>4. H >= 1 /\ H <= Height
  BY <1>1, <1>2, <1>3, ShapeFacts DEF IInv
<1>5. /\ chain' \in Seq(Block) /\ Height' = H
      /\ \A h \in 1 .. H : chain'[h] = chain[h] /\ h \in 1 .. Height
  <2>1. \A h \in 1 .. H : chain[h] \in Block
    BY <1>4, ShapeFacts DEF IInv
  <2>2. chain' = SubSeq(chain, 1, H)
    BY <1>3 DEF Reorg
  <2>3. /\ SubSeq(chain, 1, H) \in Seq(Block)
        /\ Len(SubSeq(chain, 1, H)) = H
        /\ \A h \in 1 .. H : SubSeq(chain, 1, H)[h] = chain[h]
    BY <1>4, <2>1, SubSeqProperties
  <2>. QED  BY <1>4, <2>2, <2>3, ShapeFacts DEF Height, IInv
<1>6. FinalHeight' = Height + 1 /\ FinalHeight = Height
  BY <1>1, <1>2, <1>3, <1>5, ShapeFacts DEF FinalHeight, IInv
<1>7. Shape'
  <2>1. round' \in Round
    BY <1>1, EmptySeq, Zenon DEF NoRound, Round
  <2>2. Height' \in 1 .. world.height
    BY <1>4, <1>5, ShapeFacts, WorldFacts DEF IInv, Shape
  <2>. QED  BY <1>1, <1>2, <1>5, <2>1, <2>2 DEF IInv, Shape
<1>8. Grows
  <2>1. \A h \in 1 .. Height : h + WITHDRAWAL_MIN_CONFIRMATIONS <= FinalHeight => h <= Height'
    BY <1>2, <1>3, <1>5, <1>6, ShapeFacts, BoundsAssumption DEF IInv
  <2>2. \A h \in 1 .. Height : h <= Height' => chain'[h] = chain[h]
    BY <1>5
  <2>3. FinalHeight' \in Nat /\ FinalHeight <= FinalHeight' /\ Height' \in Nat
    BY <1>5, <1>6, ShapeFacts DEF IInv
  <2>. QED  BY <1>1, <2>1, <2>2, <2>3, ShapeFacts DEF IInv, Grows
<1>9. ChainIsALine'
  <2>1. \A h \in 1 .. H : Line(chain[h].utxo)' = Line(chain[h].utxo)
    BY <1>1, <1>5 DEF Line
  <2>2. \A h \in 1 .. H : \A g \in 1 .. h : g \in 1 .. H
    OBVIOUS
  <2>. QED  BY <1>1, <1>5, <2>1, <2>2 DEF IInv, ChainIsALine
<1>10. RequestsAreNumbered'
  <2>1. ASSUME NEW h \in 1 .. H
        PROVE  /\ NumbersAt(h)'
               /\ \A i \in RequestIds : OriginAt(h, i)'
               /\ \A g \in 1 .. h : \A i \in RequestIds : chain'[g].created[i] # 0 =>
                      chain'[h].created[i] = chain'[g].created[i]
    <3>1. \A g \in 1 .. h : chain'[g] = chain[g] /\ g \in 1 .. Height
      BY <1>5
    <3>2. chain'[h] = chain[h] /\ h \in 1 .. Height
      BY <1>5, Zenon
    <3>3. NumbersAt(h)'
      BY <3>2 DEF IInv, RequestsAreNumbered, NumbersAt
    <3>4. ASSUME NEW i \in RequestIds PROVE OriginAt(h, i)'
      <4>1. OriginAt(h, i)
        BY <3>2 DEF IInv, RequestsAreNumbered
      <4>. QED  BY <1>1, <3>1, <3>2, <4>1, Zenon DEF OriginAt
    <3>5. \A g \in 1 .. h : \A i \in RequestIds : chain[g].created[i] # 0 =>
              chain[h].created[i] = chain[g].created[i]
      BY <3>2 DEF IInv, RequestsAreNumbered
    <3>. QED  BY <3>1, <3>2, <3>3, <3>4, <3>5
  <2>. QED  BY <1>5, <2>1, Zenon DEF RequestsAreNumbered
<1>11. DecisionsAreBacked'
  BY <1>1, <1>5 DEF IInv, DecisionsAreBacked
<1>12. RoundIsRecorded'
  BY <1>1 DEF RoundIsRecorded, NoRound
<1>13. RejectedAreGivenUp'
  BY <1>1, <1>2, <1>8, OldStay DEF RejectedAreGivenUp
<1>14. RowsAreLinked'
  BY <1>1, <1>2, <1>8, RowsStay
<1>. QED
  BY <1>1, <1>7, <1>8, <1>9, <1>10, <1>11, <1>12, <1>13, <1>14, LinesStay, SignaturesStay,
     RejectsStay, Zenon DEF IInv
=============================================================================
