----------------------- MODULE WithdrawalSweepsProofs -----------------------
(***************************************************************************)
(* Theorems about WithdrawalSweeps, for any number of signers, requests,   *)
(* sweeps and blocks: what Bitcoin pays matches what the contract decides  *)
(* (PaymentsMatchDecisions), and a quorum rejects only what no signed      *)
(* sweep can pay on the chain it sees (RejectsOnlyTheUnpayable).  They     *)
(* follow from the invariant of WithdrawalSweepsInvariant, which is kept   *)
(* by what Stacks does and by the proposal of a package as well.           *)
(***************************************************************************)
EXTENDS WithdrawalSweepsInvariant

-----------------------------------------------------------------------------
(* Stacks.                                                                 *)

\* A Stacks transaction changes what the block at the tip says of the contract.
LEMMA TipFacts ==
    ASSUME IInv, NEW b \in Block, chain' = [chain EXCEPT ![Height] = b],
           UNCHANGED pending
    PROVE  /\ chain' \in Seq(Block)
           /\ Height' = Height /\ FinalHeight' = FinalHeight
           /\ Tip' = b
           /\ \A h \in 1 .. Height : chain'[h] = IF h = Height THEN b ELSE chain[h]
           /\ Height \in 1 .. Height
<1>1. Height \in 1 .. Len(chain) /\ Height = Len(chain)
  BY ShapeFacts DEF IInv, Height
<1>2. /\ chain' \in Seq(Block) /\ Len(chain') = Len(chain)
      /\ \A h \in 1 .. Len(chain) : chain'[h] = IF h = Height THEN b ELSE chain[h]
  BY <1>1, ExceptSeq DEF IInv, Shape
<1>3. Height' = Height
  BY <1>2 DEF Height
<1>4. Tip' = b
  BY <1>1, <1>2, <1>3 DEF Tip
<1>. QED  BY <1>1, <1>2, <1>3, <1>4 DEF FinalHeight

\* The contract decides on a request: the decision is backed by a sweep of the
\* chain or by a signed rejection.
LEMMA DecideStep ==
    ASSUME IInv, NEW b \in Block, chain' = [chain EXCEPT ![Height] = b],
           b.utxo = Tip.utxo, b.sweeps = Tip.sweeps, b.created = Tip.created,
           \A i \in b.accepted : \E t \in Tip.sweeps : Tip.created[i] \in txs[t].pays,
           b.accepted \cap b.rejected = {},
           \A i \in b.rejected : \E q \in rejects : requests[q].id = i,
           UNCHANGED <<world, pending, requests, txs, sighashes, outputs, round, signed, rejects>>
    PROVE  IInv'
<1>1. /\ chain' \in Seq(Block)
      /\ Height' = Height /\ FinalHeight' = FinalHeight
      /\ Tip' = b /\ Tip'.utxo = Tip.utxo /\ Tip'.sweeps = Tip.sweeps
      /\ \A h \in 1 .. Height : chain'[h] = IF h = Height THEN b ELSE chain[h]
      /\ Height \in 1 .. Height
  BY TipFacts, Zenon
<1>2. \A h \in 1 .. Height : /\ chain'[h].utxo = chain[h].utxo
                             /\ chain'[h].sweeps = chain[h].sweeps
                             /\ chain'[h].created = chain[h].created
  BY <1>1 DEF Tip
<1>3. Shape'
  BY <1>1 DEF IInv, Shape
<1>4. Grows
  BY <1>1, <1>2, ShapeFacts DEF IInv, Grows
<1>5. ChainIsALine'
  <2>1. \A h \in 1 .. Height : Line(chain[h].utxo)' = Line(chain[h].utxo)
    BY <1>2 DEF Line
  <2>2. \A h \in 1 .. Height : \A g \in 1 .. h : g \in 1 .. Height
    BY ShapeFacts DEF IInv
  <2>. QED  BY <1>1, <1>2, <2>1, <2>2 DEF IInv, ChainIsALine
<1>6. RequestsAreNumbered'
  <2>1. ASSUME NEW h \in 1 .. Height
        PROVE  /\ NumbersAt(h)'
               /\ \A i \in RequestIds : OriginAt(h, i)'
               /\ \A g \in 1 .. h : \A i \in RequestIds : chain'[g].created[i] # 0 =>
                      chain'[h].created[i] = chain'[g].created[i]
    <3>1. \A g \in 1 .. h : chain'[g].created = chain[g].created
      BY <1>2, ShapeFacts DEF IInv
    <3>2. NumbersAt(h)'
      BY <1>2 DEF IInv, RequestsAreNumbered, NumbersAt
    <3>3. ASSUME NEW i \in RequestIds PROVE OriginAt(h, i)'
      <4>1. OriginAt(h, i)
        BY DEF IInv, RequestsAreNumbered
      <4>. QED  BY <1>2, <3>1, <4>1, Zenon DEF OriginAt
    <3>4. \A g \in 1 .. h : \A i \in RequestIds : chain[g].created[i] # 0 =>
              chain[h].created[i] = chain[g].created[i]
      BY DEF IInv, RequestsAreNumbered
    <3>. QED  BY <1>2, <3>1, <3>2, <3>3, <3>4
  <2>. QED  BY <1>1, <2>1 DEF RequestsAreNumbered
<1>7. DecisionsAreBacked'
  <2>1. ASSUME NEW h \in 1 .. Height
        PROVE  /\ \A i \in chain'[h].accepted :
                      \E t \in chain'[h].sweeps : chain'[h].created[i] \in txs[t].pays
               /\ chain'[h].accepted \cap chain'[h].rejected = {}
               /\ \A i \in chain'[h].rejected : \E q \in rejects : requests[q].id = i
    <3>1. CASE h = Height
      BY <1>1, <3>1
    <3>2. CASE h # Height
      BY <1>1, <3>2 DEF IInv, DecisionsAreBacked
    <3>. QED  BY <3>1, <3>2
  <2>. QED  BY <1>1, <2>1 DEF DecisionsAreBacked
<1>8. RoundIsRecorded'
  BY <1>1 DEF IInv, RoundIsRecorded, Holds
<1>9. RejectedAreGivenUp'
  BY <1>1, <1>4, GivenUpStay DEF RejectedAreGivenUp
<1>10. RowsAreLinked'
  BY <1>1, <1>4, RowsStay
<1>. QED
  BY <1>3, <1>4, <1>5, <1>6, <1>7, <1>8, <1>9, <1>10, LinesStay, SignaturesStay, RejectsStay
     DEF IInv

\* The contract marks a swept request as accepted.
LEMMA AcceptStep ==
    ASSUME IInv, NEW q \in 1 .. Len(requests), accept_withdrawal_request(q)
    PROVE  IInv'
<1>1. PICK b : b = [Tip EXCEPT !.accepted = Tip.accepted \cup {requests[q].id}]
  BY Zenon
<1>2. requests[q].id \in RequestIds /\ Tip \in Block /\ Height \in 1 .. Height
  BY ShapeFacts DEF IInv, Request
<1>3. /\ b \in Block /\ b.utxo = Tip.utxo /\ b.sweeps = Tip.sweeps /\ b.created = Tip.created
      /\ b.accepted = Tip.accepted \cup {requests[q].id} /\ b.rejected = Tip.rejected
  BY <1>1, <1>2 DEF Block
<1>4. /\ \A i \in Tip.accepted : \E t \in Tip.sweeps : Tip.created[i] \in txs[t].pays
      /\ Tip.accepted \cap Tip.rejected = {}
      /\ \A i \in Tip.rejected : \E r \in rejects : requests[r].id = i
  BY <1>2 DEF IInv, DecisionsAreBacked, Tip
<1>5. /\ Tip.created[requests[q].id] = q
      /\ \E t \in Tip.sweeps : q \in txs[t].pays
      /\ requests[q].id \notin Tip.rejected
  BY DEF accept_withdrawal_request, SweptRequest, Confirmed, ValidatesAccept,
         is_withdrawal_completed
<1>6. /\ \A i \in b.accepted : \E t \in Tip.sweeps : Tip.created[i] \in txs[t].pays
      /\ b.accepted \cap b.rejected = {}
      /\ \A i \in b.rejected : \E r \in rejects : requests[r].id = i
  BY <1>3, <1>4, <1>5
<1>. QED  BY <1>1, <1>3, <1>6, DecideStep, Zenon DEF accept_withdrawal_request

\* The contract marks a request with a signed rejection as rejected.
LEMMA RejectStep ==
    ASSUME IInv, NEW q \in rejects, reject_withdrawal_request(q)
    PROVE  IInv'
<1>1. PICK b : b = [Tip EXCEPT !.rejected = Tip.rejected \cup {requests[q].id}]
  BY Zenon
<1>2. requests[q].id \in RequestIds /\ Tip \in Block /\ Height \in 1 .. Height
  BY ShapeFacts DEF IInv, Shape, Request
<1>3. /\ b \in Block /\ b.utxo = Tip.utxo /\ b.sweeps = Tip.sweeps /\ b.created = Tip.created
      /\ b.rejected = Tip.rejected \cup {requests[q].id} /\ b.accepted = Tip.accepted
  BY <1>1, <1>2 DEF Block
<1>4. /\ \A i \in Tip.accepted : \E t \in Tip.sweeps : Tip.created[i] \in txs[t].pays
      /\ Tip.accepted \cap Tip.rejected = {}
      /\ \A i \in Tip.rejected : \E r \in rejects : requests[r].id = i
  BY <1>2 DEF IInv, DecisionsAreBacked, Tip
<1>5. requests[q].id \notin Tip.accepted
  BY DEF reject_withdrawal_request, is_withdrawal_completed
<1>6. /\ \A i \in b.accepted : \E t \in Tip.sweeps : Tip.created[i] \in txs[t].pays
      /\ b.accepted \cap b.rejected = {}
      /\ \A i \in b.rejected : \E r \in rejects : requests[r].id = i
  BY <1>3, <1>4, <1>5
<1>. QED  BY <1>1, <1>3, <1>6, DecideStep, Zenon DEF reject_withdrawal_request

\* The next request number of the fork is free, and small enough.
LEMMA NextNumber ==
    ASSUME IInv, Len(requests) + 1 <= world.requests,
           NEW i, i = Cardinality({j \in RequestIds : Tip.created[j] # 0}) + 1
    PROVE  /\ i \in RequestIds /\ i <= Len(requests) + 1
           /\ Len(requests) + 1 \in RequestIds
           /\ \A j \in RequestIds : Tip.created[j] # 0 <=> j < i
<1>1. /\ Height \in 1 .. Height /\ Len(requests) \in Nat /\ MaxRequests \in Nat
      /\ Len(requests) + 1 <= MaxRequests
  <2>1. world.requests \in 0 .. MaxRequests
    BY WorldFacts DEF IInv, Shape
  <2>2. Height \in 1 .. Height /\ Len(requests) \in Nat
    BY ShapeFacts DEF IInv
  <2>. QED  BY <2>1, <2>2, BoundsAssumption
<1>2. PICK n \in Nat : /\ n <= MaxRequests
                       /\ \A j \in RequestIds : Tip.created[j] # 0 <=> j <= n
  BY <1>1 DEF IInv, RequestsAreNumbered, NumbersAt, Tip
<1>3. {j \in RequestIds : Tip.created[j] # 0} = 1 .. n
  BY <1>1, <1>2 DEF RequestIds
<1>4. i = n + 1
  <2>1. Cardinality(1 .. n) = IF 1 > n THEN 0 ELSE n - 1 + 1
    BY FS_Interval
  <2>2. Cardinality(1 .. n) = n
    BY <2>1
  <2>. QED  BY <1>3, <2>2, Zenon
<1>5. n <= Len(requests)
  <2>1. CASE n = 0
    BY <1>1, <2>1
  <2>2. CASE n # 0
    <3>1. n \in RequestIds /\ Tip.created[n] # 0
      BY <1>1, <1>2, <2>2 DEF RequestIds
    <3>2. Tip.created[n] \in n .. Len(requests)
      BY <1>1, <3>1 DEF IInv, RequestsAreNumbered, OriginAt, Tip
    <3>. QED  BY <1>1, <1>2, <3>2
  <2>. QED  BY <2>1, <2>2
<1>6. i \in RequestIds /\ i <= Len(requests) + 1 /\ Len(requests) + 1 \in RequestIds
  BY <1>1, <1>4, <1>5 DEF RequestIds
<1>7. \A j \in RequestIds : j \in Nat
  BY <1>1 DEF RequestIds
<1>8. \A j \in RequestIds : Tip.created[j] # 0 <=> j < i
  BY <1>2, <1>4, <1>7
<1>. QED  BY <1>6, <1>8

\* A user creates a request at the tip.
LEMMA InitiateStep ==
    ASSUME IInv, initiate_withdrawal_request
    PROVE  IInv'
<1>1. PICK i : i = Cardinality({j \in RequestIds : Tip.created[j] # 0}) + 1
  OBVIOUS
<1>2. PICK q \in Nat : q = Len(requests) + 1
  BY ShapeFacts DEF IInv
<1>3. PICK b : b = [Tip EXCEPT !.created = [Tip.created EXCEPT ![i] = q]]
  BY Zenon
<1>4. /\ pending = 0 /\ q <= world.requests
      /\ requests' = Append(requests, [id |-> i, height |-> Height])
      /\ chain' = [chain EXCEPT ![Height] = b]
      /\ UNCHANGED <<world, pending, txs, sighashes, outputs, round, signed, rejects>>
  BY <1>1, <1>2, <1>3, Zenon DEF initiate_withdrawal_request
<1>5. /\ i \in RequestIds /\ i <= q /\ q \in RequestIds
      /\ \A j \in RequestIds : Tip.created[j] # 0 <=> j < i
  BY <1>1, <1>2, <1>4, NextNumber
<1>6. i \in Nat /\ i >= 1 /\ i <= MaxRequests /\ MaxRequests \in Nat
  BY <1>5, BoundsAssumption DEF RequestIds
<1>7. /\ requests' \in Seq(Request) /\ Len(requests') = q
      /\ \A r \in 1 .. Len(requests) : requests'[r] = requests[r] /\ r \in 1 .. Len(requests')
      /\ requests'[q] = [id |-> i, height |-> Height]
  <2>1. [id |-> i, height |-> Height] \in Request
    BY <1>5, ShapeFacts DEF Request, IInv
  <2>. QED  BY <1>2, <1>4, <2>1, AppendProperties, ShapeFacts DEF IInv, Shape
<1>8. /\ b.utxo = Tip.utxo /\ b.sweeps = Tip.sweeps
      /\ b.accepted = Tip.accepted /\ b.rejected = Tip.rejected
      /\ b \in Block
      /\ \A j \in RequestIds : b.created[j] = IF j = i THEN q ELSE Tip.created[j]
  <2>1. Tip \in Block
    BY ShapeFacts DEF IInv
  <2>2. q \in 0 .. MaxRequests
    BY <1>5, BoundsAssumption DEF RequestIds
  <2>3. [Tip.created EXCEPT ![i] = q] \in [RequestIds -> 0 .. MaxRequests]
    BY <2>1, <2>2, Zenon DEF Block
  <2>. QED  BY <1>3, <1>5, <2>1, <2>3 DEF Block
<1>9. /\ chain' \in Seq(Block)
      /\ Height' = Height /\ FinalHeight' = FinalHeight
      /\ Tip' = b /\ Tip'.utxo = Tip.utxo /\ Tip'.sweeps = Tip.sweeps
      /\ \A h \in 1 .. Height : chain'[h] = IF h = Height THEN b ELSE chain[h]
      /\ Height \in 1 .. Height /\ Height \in Nat
  BY <1>4, <1>8, TipFacts, ShapeFacts, Zenon DEF IInv
<1>10. \A h \in 1 .. Height : /\ chain'[h].utxo = chain[h].utxo
                              /\ chain'[h].sweeps = chain[h].sweeps
                              /\ chain'[h].accepted = chain[h].accepted
                              /\ chain'[h].rejected = chain[h].rejected
  BY <1>8, <1>9 DEF Tip
<1>11. \A h \in 1 .. Height : \A j \in RequestIds :
           chain'[h].created[j] = IF h = Height /\ j = i THEN q ELSE chain[h].created[j]
  BY <1>8, <1>9 DEF Tip
<1>12. \A h \in 1 .. Height : \A j \in RequestIds : chain[h].created[j] # 0 =>
           chain'[h].created[j] = chain[h].created[j]
  BY <1>5, <1>6, <1>11 DEF Tip
<1>13. Shape'
  <2>1. rejects \subseteq 1 .. Len(requests')
    BY <1>7 DEF IInv, Shape
  <2>. QED  BY <1>4, <1>7, <1>9, <2>1 DEF IInv, Shape
<1>14. Grows
  BY <1>4, <1>7, <1>9, <1>10, <1>12, ShapeFacts DEF IInv, Grows
<1>15. ChainIsALine'
  <2>1. \A h \in 1 .. Height : Line(chain[h].utxo)' = Line(chain[h].utxo)
    BY <1>4, <1>10 DEF Line
  <2>2. \A h \in 1 .. Height : \A g \in 1 .. h : g \in 1 .. Height
    BY <1>9
  <2>. QED  BY <1>4, <1>9, <1>10, <2>1, <2>2 DEF IInv, ChainIsALine
<1>16. \A t \in 1 .. Len(txs) : \A r \in txs[t].pays : r \in 1 .. Len(requests) /\ r # 0
  BY ShapeFacts DEF IInv, PaidAreSettled, Settled
<1>17. DecisionsAreBacked'
  <2>1. ASSUME NEW h \in 1 .. Height, NEW a \in chain[h].accepted
        PROVE  \E t \in chain[h].sweeps : chain'[h].created[a] \in txs[t].pays
    <3>1. PICK t \in chain[h].sweeps : chain[h].created[a] \in txs[t].pays
      BY DEF IInv, DecisionsAreBacked
    <3>2. t \in 1 .. Len(txs) /\ a \in RequestIds
      BY ChainFacts, ShapeFacts DEF IInv, Block
    <3>. QED  BY <1>12, <1>16, <3>1, <3>2
  <2>2. ASSUME NEW h \in 1 .. Height, NEW a \in chain[h].rejected
        PROVE  \E r \in rejects : requests'[r].id = a
    BY <1>7 DEF IInv, DecisionsAreBacked, Shape
  <2>3. \A h \in 1 .. Height : chain[h].accepted \cap chain[h].rejected = {}
    BY DEF IInv, DecisionsAreBacked
  <2>4. ASSUME NEW h \in 1 .. Height
        PROVE  /\ \A a \in chain'[h].accepted :
                      \E t \in chain'[h].sweeps : chain'[h].created[a] \in txs[t].pays
               /\ chain'[h].accepted \cap chain'[h].rejected = {}
               /\ \A a \in chain'[h].rejected : \E r \in rejects : requests'[r].id = a
    <3>1. /\ chain'[h].sweeps = chain[h].sweeps
          /\ chain'[h].accepted = chain[h].accepted
          /\ chain'[h].rejected = chain[h].rejected
      BY <1>10
    <3>. QED  BY <2>1, <2>2, <2>3, <3>1
  <2>. QED  BY <1>4, <1>9, <2>4, ZenonT(30) DEF DecisionsAreBacked
<1>18. RoundIsRecorded'
  BY <1>4, <1>7, <1>9, <1>16, ZenonT(20) DEF IInv, RoundIsRecorded, Holds
<1>19. RequestsAreNumbered'
  <2>1. ASSUME NEW h \in 1 .. Height PROVE NumbersAt(h)'
    <3>1. CASE h = Height
      <4>1. \A j \in RequestIds : chain'[h].created[j] # 0 <=> j <= i
        BY <1>2, <1>5, <1>6, <1>11, <3>1, ShapeFacts DEF IInv, RequestIds, Tip
      <4>. QED  BY <1>6, <4>1 DEF NumbersAt
    <3>2. CASE h # Height
      BY <1>9, <3>2 DEF IInv, RequestsAreNumbered, NumbersAt
    <3>. QED  BY <3>1, <3>2
  <2>2. ASSUME NEW h \in 1 .. Height, NEW j \in RequestIds PROVE OriginAt(h, j)'
    <3>1. CASE h = Height /\ j = i
      BY <1>2, <1>5, <1>6, <1>7, <1>9, <1>11, <3>1 DEF OriginAt
    <3>2. CASE ~(h = Height /\ j = i)
      <4>1. SUFFICES ASSUME chain[h].created[j] # 0 PROVE OriginAt(h, j)'
        BY <1>11, <3>2 DEF OriginAt
      <4>2. PICK r : r = chain[h].created[j]
        BY Zenon
      <4>3. /\ r \in j .. Len(requests) /\ requests[r].id = j
            /\ requests[r].height \in 1 .. h
            /\ chain[requests[r].height].created[j] = r
        BY <4>1, <4>2 DEF IInv, RequestsAreNumbered, OriginAt
      <4>4. r \in 1 .. Len(requests) /\ r \in j .. Len(requests') /\ r # 0
        BY <1>2, <1>7, <4>3, ShapeFacts DEF RequestIds, IInv
      <4>5. requests'[r] = requests[r] /\ requests[r].height \in 1 .. Height
        BY <1>7, <1>9, <4>3, <4>4
      <4>6. chain'[requests[r].height].created[j] = r /\ chain'[h].created[j] = r
        BY <1>12, <4>2, <4>3, <4>4, <4>5, Zenon
      <4>. QED  BY <4>3, <4>4, <4>5, <4>6, Zenon DEF OriginAt
    <3>. QED  BY <3>1, <3>2, Zenon
  <2>3. ASSUME NEW h \in 1 .. Height, NEW g \in 1 .. h, NEW j \in RequestIds,
               chain'[g].created[j] # 0
        PROVE  chain'[h].created[j] = chain'[g].created[j]
    <3>1. g \in 1 .. Height
      BY <1>9
    <3>2. CASE g = Height /\ j = i
      BY <1>9, <3>2
    <3>3. CASE ~(g = Height /\ j = i)
      <4>1. chain[g].created[j] # 0 /\ chain'[g].created[j] = chain[g].created[j]
        BY <1>11, <2>3, <3>1, <3>3
      <4>2. chain[h].created[j] = chain[g].created[j]
        BY <4>1 DEF IInv, RequestsAreNumbered
      <4>. QED  BY <1>12, <4>1, <4>2
    <3>. QED  BY <3>2, <3>3
  <2>. QED  BY <1>9, <2>1, <2>2, <2>3 DEF RequestsAreNumbered
<1>20. RejectedAreGivenUp'
  BY <1>4, <1>9, <1>14, GivenUpStay DEF RejectedAreGivenUp
<1>21. RowsAreLinked'
  BY <1>4, <1>9, <1>14, RowsStay, Zenon
<1>. QED
  BY <1>4, <1>13, <1>14, <1>15, <1>17, <1>18, <1>19, <1>20, <1>21, LinesStay, SignaturesStay,
     RejectsStay DEF IInv

-----------------------------------------------------------------------------
(* Proposing a package.                                                    *)

\* The sweeps after a proposal: the first N as they were, the package after them.
Extended(all, pays, N, M) ==
    /\ N \in Nat /\ M \in Nat /\ N <= M /\ M <= MaxTxs /\ MaxTxs \in Nat
    /\ Len(pays) \in Nat /\ Len(pays) = M - N
    /\ \A i \in 1 .. Len(pays) : pays[i] \subseteq 1 .. Len(requests)
    /\ all \in Seq(Tx) /\ Len(all) = M
    /\ \A t \in 1 .. N : all[t] = txs[t] /\ t \in 1 .. M
    /\ \A t \in N + 1 .. M : /\ t \in 1 .. M
                             /\ t - N \in 1 .. Len(pays)
                             /\ all[t].in = IF t = N + 1 THEN Tip.utxo ELSE t - 1
                             /\ all[t].pays = pays[t - N]
                             /\ all[t].line = Tip.sweeps \cup (N + 1 .. t)
    /\ Tip.sweeps \subseteq 1 .. N /\ Tip.utxo \in 0 .. N
    /\ Tip.utxo = 0 => Tip.sweeps = {}
    /\ Tip.utxo # 0 => Tip.sweeps = txs[Tip.utxo].line

\* The transactions of a package, after those proposed before.
LEMMA PackageFacts ==
    ASSUME IInv, NEW pays \in Packages, Len(txs) + Len(pays) <= world.txs,
           NEW all, all = txs \o Package(pays),
           NEW N, N = Len(txs), NEW M, M = Len(txs) + Len(pays)
    PROVE  Extended(all, pays, N, M)
<1>1. N \in Nat /\ world.txs <= MaxTxs /\ world.txs \in Nat /\ MaxTxs \in Nat
  BY ShapeFacts, WorldFacts, BoundsAssumption DEF IInv, Shape
<1>2. PICK m \in Nat : pays \in [1 .. m -> SUBSET (1 .. Len(requests))]
  <2>1. PICK n \in 1 .. world.package : pays \in [1 .. n -> SUBSET (1 .. Len(requests))]
    BY Zenon DEF Packages
  <2>2. n \in Nat
    BY WorldFacts DEF IInv, Shape
  <2>. QED  BY <2>1, <2>2
<1>3. pays \in Seq(SUBSET (1 .. Len(requests))) /\ Len(pays) = m
  BY <1>2
<1>4. M \in Nat /\ N <= M /\ M <= MaxTxs /\ Len(pays) = M - N
  BY <1>1, <1>3
<1>5. /\ Tip.sweeps = Line(Tip.utxo)
      /\ Tip.sweeps \subseteq 1 .. N /\ Tip.utxo \in 0 .. N
      /\ Tip.utxo = 0 => Tip.sweeps = {}
      /\ Tip.utxo # 0 => Tip.sweeps = txs[Tip.utxo].line
  <2>1. Height \in 1 .. Height
    BY ShapeFacts DEF IInv
  <2>2. Tip.sweeps = Line(Tip.utxo) /\ Tip.utxo \in {0} \cup signed
    BY <2>1 DEF IInv, ChainIsALine, Tip
  <2>3. Tip.utxo \in 0 .. N
    <3>1. signed \subseteq 1 .. N
      BY DEF IInv, Shape
    <3>2. CASE Tip.utxo = 0
      BY <1>1, <3>2
    <3>3. CASE Tip.utxo # 0
      <4>1. Tip.utxo \in 1 .. N
        BY <2>2, <3>1, <3>3, Zenon
      <4>. QED  BY <1>1, <4>1
    <3>. QED  BY <3>2, <3>3
  <2>4. Tip.sweeps \subseteq 1 .. N
    BY <2>1, ChainFacts DEF IInv, Tip
  <2>. QED  BY <2>2, <2>3, <2>4 DEF Line
<1>6. ASSUME NEW i \in 1 .. m
      PROVE  /\ Package(pays)[i] =
                    [in   |-> IF i = 1 THEN Tip.utxo ELSE N + i - 1,
                     pays |-> pays[i],
                     line |-> Tip.sweeps \cup (N + 1 .. N + i)]
             /\ Package(pays)[i] \in Tx
  <2>1. Package(pays)[i] =
            [in   |-> IF i = 1 THEN Tip.utxo ELSE N + i - 1,
             pays |-> pays[i],
             line |-> Tip.sweeps \cup (N + 1 .. N + i)]
    BY <1>3, <1>5 DEF Package
  <2>2. N + i \in Nat /\ N + i <= MaxTxs
    BY <1>1, <1>3, <1>4
  <2>3. (IF i = 1 THEN Tip.utxo ELSE N + i - 1) \in Outputs
    <3>1. Tip.utxo \in 0 .. N
      BY <1>5, Zenon
    <3>2. Tip.utxo \in 0 .. MaxTxs
      BY <1>1, <2>2, <3>1
    <3>3. i # 1 => N + i - 1 \in 0 .. MaxTxs
      BY <1>1, <2>2
    <3>. QED  BY <3>2, <3>3, Zenon DEF Outputs
  <2>4. Tip.sweeps \cup (N + 1 .. N + i) \subseteq TxIds
    BY <1>1, <1>5, <2>2 DEF TxIds
  <2>5. pays[i] \subseteq RequestIds
    BY <1>2, ShapeFacts, BoundsAssumption DEF RequestIds, IInv
  <2>. QED  BY <2>1, <2>3, <2>4, <2>5 DEF Tx
<1>7. Package(pays) \in [1 .. m -> Tx]
  <2>1. DOMAIN Package(pays) = 1 .. m
    BY <1>3 DEF Package
  <2>2. Package(pays) = [i \in 1 .. m |-> Package(pays)[i]]
    BY <1>3 DEF Package
  <2>. QED  BY <1>6, <2>1, <2>2
<1>8. Package(pays) \in Seq(Tx) /\ Len(Package(pays)) = m
  BY <1>7
<1>9. /\ all \in Seq(Tx) /\ Len(all) = M
      /\ \A t \in 1 .. M : all[t] = IF t <= N THEN txs[t] ELSE Package(pays)[t - N]
  <2>1. txs \in Seq(Tx)
    BY DEF IInv, Shape
  <2>2. /\ all \in Seq(Tx) /\ Len(all) = Len(txs) + Len(Package(pays))
        /\ \A t \in 1 .. Len(txs) + Len(Package(pays)) :
               all[t] = IF t <= Len(txs) THEN txs[t] ELSE Package(pays)[t - Len(txs)]
    BY <1>8, <2>1, ConcatProperties, Zenon
  <2>3. Len(txs) + Len(Package(pays)) = M
    BY <1>3, <1>8
  <2>. QED  BY <2>2, <2>3
<1>10. \A t \in 1 .. N : all[t] = txs[t] /\ t \in 1 .. M
  BY <1>1, <1>4, <1>9
<1>11. ASSUME NEW t \in N + 1 .. M
       PROVE  /\ t \in 1 .. M
              /\ t - N \in 1 .. Len(pays)
              /\ all[t].in = IF t = N + 1 THEN Tip.utxo ELSE t - 1
              /\ all[t].pays = pays[t - N]
              /\ all[t].line = Tip.sweeps \cup (N + 1 .. t)
  <2>1. PICK i \in 1 .. m : t = N + i
    <3>1. t - N \in 1 .. m /\ t = N + (t - N)
      BY <1>1, <1>3, <1>4
    <3>. QED  BY <3>1, Zenon
  <2>2. t \in 1 .. M /\ ~(t <= N) /\ t - N = i
    BY <1>1, <1>4, <2>1
  <2>3. all[t] = Package(pays)[i]
    BY <1>9, <2>2
  <2>4. (t = N + 1) = (i = 1) /\ N + i - 1 = t - 1
    BY <1>1, <2>1
  <2>5. all[t] = [in   |-> IF t = N + 1 THEN Tip.utxo ELSE t - 1,
                  pays |-> pays[i],
                  line |-> Tip.sweeps \cup (N + 1 .. t)]
    BY <1>6, <2>1, <2>3, <2>4, Zenon
  <2>. QED  BY <1>3, <2>2, <2>5
<1>12. \A i \in 1 .. Len(pays) : pays[i] \subseteq 1 .. Len(requests)
  BY <1>2, <1>3
<1>. QED  BY <1>1, <1>3, <1>4, <1>5, <1>9, <1>10, <1>11, <1>12, Zenon DEF Extended

\* What the coordinator proposes is on the chain, deep enough, not swept and
\* not expired.
LEMMA EligibleFacts ==
    ASSUME IInv, NEW q \in 1 .. Len(requests), Eligible(q)
    PROVE  /\ Settled(q, WITHDRAWAL_MIN_CONFIRMATIONS)
           /\ requests[q].height + WITHDRAWAL_BLOCKS_EXPIRY >= Height
           /\ \A t \in Tip.sweeps : \A r \in txs[t].pays : requests[r].id # requests[q].id
<1>1. Height \in 1 .. Height /\ Height \in Nat /\ q # 0 /\ requests[q] \in Request
  BY ShapeFacts DEF IInv
<1>2. requests[q].id \in RequestIds /\ requests[q].height \in Nat
  BY <1>1, BoundsAssumption DEF Request
<1>3. Tip.created[requests[q].id] = q
  BY Zenon DEF Eligible, PendingAccepted, Confirmed
<1>4. /\ requests[q].height \in 1 .. Height
      /\ chain[requests[q].height].created[requests[q].id] = q
  BY <1>1, <1>2, <1>3 DEF IInv, RequestsAreNumbered, OriginAt, Tip
<1>5. /\ Height - requests[q].height >= WITHDRAWAL_MIN_CONFIRMATIONS
      /\ Height - requests[q].height <= WITHDRAWAL_BLOCKS_EXPIRY - WITHDRAWAL_EXPIRY_BUFFER
  BY DEF Eligible, BlocksObserved
<1>6. /\ requests[q].height + WITHDRAWAL_MIN_CONFIRMATIONS <= FinalHeight
      /\ requests[q].height <= Height
      /\ requests[q].height + WITHDRAWAL_BLOCKS_EXPIRY >= Height
  BY <1>1, <1>2, <1>4, <1>5, ShapeFacts, BoundsAssumption DEF IInv
<1>7. \A t \in Tip.sweeps : \A r \in txs[t].pays : requests[r].id # requests[q].id
  BY DEF Eligible, PendingAccepted, Swept, PaysIds
<1>. QED  BY <1>4, <1>6, <1>7 DEF Settled

\* The lines of a new package continue that of the chain tip.
LEMMA NewLines ==
    ASSUME IInv, NEW pays \in Packages, Len(txs) + Len(pays) <= world.txs,
           txs' = txs \o Package(pays)
    PROVE  LinesAreLinear'
<1>. DEFINE Linear(all, t) ==
                /\ t \in all[t].line
                /\ all[t].line \subseteq 1 .. t
                /\ \A u \in all[t].line : \A v \in TxIds :
                       v \in all[u].line <=> v \in all[t].line /\ v <= u
                /\ all[t].in < t
                /\ all[t].line = (IF all[t].in = 0 THEN {} ELSE all[all[t].in].line) \cup {t}
<1>0. PICK all, N, M : all = txs' /\ N = Len(txs) /\ M = Len(txs) + Len(pays)
  BY Zenon
<1>1. Extended(all, pays, N, M)
  BY <1>0, PackageFacts, Zenon
<1>2. /\ N \in Nat /\ M \in Nat /\ N <= M /\ M <= MaxTxs /\ MaxTxs \in Nat
      /\ Len(all) = M
      /\ \A t \in 1 .. N : all[t] = txs[t] /\ t \in 1 .. M
      /\ \A t \in N + 1 .. M : /\ all[t].in = IF t = N + 1 THEN Tip.utxo ELSE t - 1
                               /\ all[t].line = Tip.sweeps \cup (N + 1 .. t)
      /\ Tip.sweeps \subseteq 1 .. N /\ Tip.utxo \in 0 .. N
      /\ Tip.utxo = 0 => Tip.sweeps = {}
      /\ Tip.utxo # 0 => Tip.sweeps = txs[Tip.utxo].line
  BY <1>1 DEF Extended
<1>3. ASSUME NEW t \in 1 .. N PROVE Linear(all, t)
  <2>1. Linear(txs, t)
    BY <1>0 DEF IInv, LinesAreLinear, Line
  <2>2. t \in Nat /\ t <= N
    BY <1>2
  <2>3. \A u \in txs[t].line : all[u] = txs[u]
    <3>1. \A u \in 1 .. t : u \in 1 .. N
      BY <1>2, <2>2
    <3>. QED  BY <1>2, <2>1, <3>1
  <2>4. txs[t].in # 0 => all[txs[t].in] = txs[txs[t].in]
    <3>1. txs[t].in \in Nat
      BY <1>0, ShapeFacts, BoundsAssumption DEF IInv, Tx, Outputs
    <3>2. txs[t].in # 0 => txs[t].in \in 1 .. N
      BY <1>2, <2>1, <2>2, <3>1
    <3>. QED  BY <1>2, <3>2
  <2>5. all[t] = txs[t]
    BY <1>2
  <2>. QED  BY <2>1, <2>3, <2>4, <2>5
<1>4. ASSUME NEW t \in Nat, t \in N + 1 .. M PROVE Linear(all, t)
  <2>1. /\ all[t].in = IF t = N + 1 THEN Tip.utxo ELSE t - 1
        /\ all[t].line = Tip.sweeps \cup (N + 1 .. t)
        /\ N < t /\ t <= M
    BY <1>2, <1>4
  <2>2. \A u \in Tip.sweeps : u \in Nat /\ u <= N /\ u \in 1 .. N
    BY <1>2
  <2>3. t \in all[t].line /\ all[t].line \subseteq 1 .. t
    BY <1>2, <2>1, <2>2
  <2>4. ASSUME NEW u \in all[t].line, NEW v \in TxIds
        PROVE  v \in all[u].line <=> v \in all[t].line /\ v <= u
    <3>1. v \in Nat /\ v >= 1 /\ u \in Nat
      BY <1>2, <2>3 DEF TxIds
    <3>2. CASE u \in Tip.sweeps
      <4>1. Tip.utxo \in 1 .. N /\ u \in txs[Tip.utxo].line /\ all[u] = txs[u]
        BY <1>2, <2>2, <3>2
      <4>2. v \in txs[u].line <=> v \in Tip.sweeps /\ v <= u
        BY <1>0, <1>2, <4>1 DEF IInv, LinesAreLinear
      <4>3. v <= u => ~(v \in N + 1 .. t)
        BY <1>2, <2>2, <3>1, <3>2
      <4>. QED  BY <2>1, <4>1, <4>2, <4>3
    <3>3. CASE u \in N + 1 .. t
      <4>1. u \in N + 1 .. M /\ u <= t /\ u > N
        BY <1>2, <2>1, <3>1, <3>3
      <4>2. all[u].line = Tip.sweeps \cup (N + 1 .. u)
        BY <1>2, <4>1
      <4>3. v \in N + 1 .. u <=> v \in N + 1 .. t /\ v <= u
        BY <1>2, <3>1, <4>1
      <4>4. v \in Tip.sweeps => v <= u
        BY <1>2, <2>2, <3>1, <4>1
      <4>. QED  BY <2>1, <4>2, <4>3, <4>4
    <3>. QED  BY <2>1, <3>2, <3>3
  <2>5. CASE t = N + 1
    <3>1. all[t].in = Tip.utxo /\ all[t].line = Tip.sweeps \cup {t}
      <4>1. N + 1 .. t = {t}
        BY <1>2, <2>5
      <4>. QED  BY <2>1, <2>5, <4>1
    <3>2. Tip.utxo \in Nat /\ Tip.utxo < t
      BY <1>2, <2>5
    <3>3. Tip.sweeps = IF Tip.utxo = 0 THEN {} ELSE all[Tip.utxo].line
      <4>1. Tip.utxo # 0 => Tip.utxo \in 1 .. N
        BY <1>2
      <4>. QED  BY <1>2, <4>1, ZenonT(30)
    <3>. QED  BY <2>3, <2>4, <3>1, <3>2, <3>3
  <2>6. CASE t # N + 1
    <3>1. t - 1 \in N + 1 .. M /\ t - 1 # 0 /\ t - 1 < t
      BY <1>2, <2>1, <2>6
    <3>2. all[t].in = t - 1 /\ all[t - 1].line = Tip.sweeps \cup (N + 1 .. t - 1)
      BY <1>2, <2>1, <2>6, <3>1
    <3>3. N + 1 .. t = (N + 1 .. t - 1) \cup {t}
      BY <1>2, <2>1
    <3>4. all[t].line = (IF all[t].in = 0 THEN {} ELSE all[all[t].in].line) \cup {t}
      BY <2>1, <3>1, <3>2, <3>3
    <3>. QED  BY <2>3, <2>4, <3>1, <3>2, <3>4
  <2>. QED  BY <2>5, <2>6
<1>5. \A t \in 1 .. M : Linear(all, t)
  <2>1. \A t \in 1 .. M : t \in Nat /\ (t \in 1 .. N \/ t \in N + 1 .. M)
    BY <1>2
  <2>. QED  BY <1>3, <1>4, <2>1
<1>. HIDE DEF Linear
<1>6. \A t \in 1 .. Len(txs') : Linear(txs', t)
  BY <1>0, <1>2, <1>5, Zenon
<1>. QED  BY <1>6, Zenon DEF LinesAreLinear, Line, Linear

\* The coordinator proposes a package, and signers record it.
LEMMA PresignStep ==
    ASSUME IInv, NEW pays \in Packages,
           NEW recorders \in SUBSET Signers, NEW halfway \in SUBSET Signers,
           Presign(pays, recorders, halfway)
    PROVE  IInv'
<1>0. PICK all, N, M : all = txs' /\ N = Len(txs) /\ M = Len(txs) + Len(pays)
  BY Zenon
<1>1. /\ UNCHANGED <<world, chain, pending, requests, signed, rejects>>
      /\ pending = 0
      /\ M <= world.txs
      /\ Proposable(pays)
      /\ world.lossy \/ recorders \cup halfway = Signers
      /\ all = txs \o Package(pays)
      /\ round' = [left |-> [i \in 1 .. Len(pays) |-> N + i], acks |-> recorders]
      /\ sighashes' = [s \in Signers |-> sighashes[s] \cup
             (IF s \in recorders \cup halfway THEN N + 1 .. M ELSE {})]
      /\ outputs' = [s \in Signers |-> [t \in TxIds |->
             IF s \in recorders /\ t \in N + 1 .. M /\ all[t].pays # {}
             THEN Height ELSE outputs[s][t]]]
  BY <1>0, Zenon DEF Presign
<1>2. Extended(all, pays, N, M)
  BY <1>0, <1>1, PackageFacts, Zenon
<1>3. /\ N \in Nat /\ M \in Nat /\ N <= M /\ M <= MaxTxs /\ MaxTxs \in Nat
      /\ Len(pays) \in Nat /\ Len(pays) = M - N
      /\ all \in Seq(Tx) /\ Len(all) = M
      /\ \A t \in 1 .. N : all[t] = txs[t] /\ t \in 1 .. M
  BY <1>2, Zenon DEF Extended
<1>4. \A t \in N + 1 .. M : /\ t - N \in 1 .. Len(pays)
                            /\ t \in 1 .. M
                            /\ all[t].pays = pays[t - N]
                            /\ pays[t - N] \subseteq 1 .. Len(requests)
                            /\ all[t].line = Tip.sweeps \cup (N + 1 .. t)
  BY <1>2 DEF Extended
<1>5. UNCHANGED <<Height, FinalHeight, Tip, Tip.utxo, Tip.sweeps>>
  BY <1>1 DEF Height, FinalHeight, Tip
<1>6. \A t \in N + 1 .. M : \A q \in all[t].pays :
          q \in 1 .. Len(requests) /\ Eligible(q)
  BY <1>1, <1>4, ZenonT(30) DEF Proposable
<1>7. /\ sighashes' \in [Signers -> SUBSET (1 .. M)]
      /\ \A s \in Signers : sighashes'[s] = sighashes[s] \cup
             (IF s \in recorders \cup halfway THEN N + 1 .. M ELSE {})
  <2>1. \A s \in Signers : sighashes[s] \subseteq 1 .. M
    BY <1>0, <1>3 DEF IInv, Shape
  <2>2. N + 1 .. M \subseteq 1 .. M
    BY <1>3
  <2>. QED  BY <1>1, <2>1, <2>2, Zenon
<1>8. /\ outputs' \in [Signers -> [TxIds -> 0 .. MaxHeight]]
      /\ \A s \in Signers : \A t \in TxIds :
             outputs'[s][t] = IF s \in recorders /\ t \in N + 1 .. M /\ all[t].pays # {}
                              THEN Height ELSE outputs[s][t]
  <2>1. Height \in 0 .. MaxHeight
    BY ShapeFacts DEF IInv
  <2>. QED  BY <1>1, <2>1, Zenon DEF IInv, Shape
<1>9. /\ round'.acks = recorders
      /\ Len(round'.left) = Len(pays)
      /\ \A i \in 1 .. Len(pays) : round'.left[i] = N + i
      /\ round' \in Round
  <2>1. \A i \in 1 .. Len(pays) : N + i \in TxIds
    BY <1>3 DEF TxIds
  <2>2. [i \in 1 .. Len(pays) |-> N + i] \in [1 .. Len(pays) -> TxIds]
    BY <2>1
  <2>3. /\ [i \in 1 .. Len(pays) |-> N + i] \in Seq(TxIds)
        /\ Len([i \in 1 .. Len(pays) |-> N + i]) = Len(pays)
    BY <1>3, <2>2
  <2>. QED  BY <1>1, <2>3, Zenon DEF Round
<1>10. Shape'
  <2>1. signed' \subseteq 1 .. Len(txs')
    BY <1>0, <1>1, <1>3 DEF IInv, Shape
  <2>. QED  BY <1>0, <1>1, <1>3, <1>5, <1>7, <1>8, <1>9, <2>1, ZenonT(30) DEF IInv, Shape
<1>11. Grows
  <2>1. \A s \in Signers : \A t \in TxIds :
            outputs[s][t] # 0 => outputs'[s][t] = outputs[s][t]
    <3>1. \A s \in Signers : \A t \in TxIds : outputs[s][t] # 0 => t \in 1 .. N
      BY <1>0 DEF IInv, RowsAreLinked
    <3>2. \A t \in 1 .. N : ~(t \in N + 1 .. M)
      BY <1>3
    <3>. QED  BY <1>8, <3>1, <3>2
  <2>2. \A t \in 1 .. Len(txs) : t \in 1 .. Len(txs') /\ txs'[t] = txs[t]
    BY <1>0, <1>3
  <2>3. FinalHeight' \in Nat /\ FinalHeight <= FinalHeight' /\ Height' \in Nat
    BY <1>5, ShapeFacts DEF IInv
  <2>4. \A h \in 1 .. Height : h <= Height'
    BY <1>5, ShapeFacts DEF IInv
  <2>5. \A s \in Signers : sighashes[s] \subseteq sighashes'[s]
    BY <1>7
  <2>. QED  BY <1>1, <2>1, <2>2, <2>3, <2>4, <2>5, Zenon DEF Grows
<1>12. LinesAreLinear'
  BY <1>0, <1>1, NewLines, Zenon
<1>13. LinesPayOnce'
  <2>1. ASSUME NEW t \in 1 .. N, NEW a \in all[t].line, NEW b \in all[t].line, a # b,
               NEW q \in all[a].pays, NEW r \in all[b].pays
        PROVE  requests[q].id # requests[r].id
    <3>1. all[t] = txs[t] /\ t \in 1 .. Len(txs)
      BY <1>0, <1>3
    <3>2. a \in 1 .. N /\ b \in 1 .. N
      BY <1>0, <3>1, LineFacts DEF IInv
    <3>3. all[a] = txs[a] /\ all[b] = txs[b]
      BY <1>3, <3>2
    <3>. QED  BY <2>1, <3>1, <3>3 DEF IInv, LinesPayOnce
  <2>2. ASSUME NEW a \in Tip.sweeps, NEW b \in Tip.sweeps, a # b,
               NEW q \in all[a].pays, NEW r \in all[b].pays
        PROVE  requests[q].id # requests[r].id
    <3>1. /\ Tip.utxo \in 1 .. Len(txs) /\ Tip.sweeps = txs[Tip.utxo].line
          /\ Tip.sweeps \subseteq 1 .. N
      BY <1>0, <1>2 DEF Extended
    <3>2. all[a] = txs[a] /\ all[b] = txs[b]
      BY <1>3, <3>1
    <3>. QED  BY <2>2, <3>1, <3>2 DEF IInv, LinesPayOnce
  <2>3. ASSUME NEW a \in Tip.sweeps, NEW b \in N + 1 .. M,
               NEW q \in all[a].pays, NEW r \in all[b].pays
        PROVE  requests[q].id # requests[r].id
    <3>1. all[a] = txs[a]
      BY <1>2, <1>3, Zenon DEF Extended
    <3>. QED  BY <1>6, <3>1, EligibleFacts
  <2>4. ASSUME NEW a \in N + 1 .. M, NEW b \in N + 1 .. M, a # b,
               NEW q \in all[a].pays, NEW r \in all[b].pays
        PROVE  requests[q].id # requests[r].id
    <3>1. a - N # b - N
      BY <1>3, <2>4
    <3>2. PICK i \in 1 .. Len(pays), j \in 1 .. Len(pays) : i = a - N /\ j = b - N
      BY <1>4
    <3>3. q \in pays[i] /\ r \in pays[j]
      BY <1>4, <3>2
    <3>. QED  BY <1>1, <3>1, <3>2, <3>3 DEF Proposable
  <2>5. ASSUME NEW t \in 1 .. M, NEW a \in all[t].line, NEW b \in all[t].line, a # b,
               NEW q \in all[a].pays, NEW r \in all[b].pays
        PROVE  requests[q].id # requests[r].id
    <3>1. CASE t \in 1 .. N
      BY <2>1, <2>5, <3>1
    <3>2. CASE t \in N + 1 .. M
      <4>1. \A u \in all[t].line : u \in Tip.sweeps \/ u \in N + 1 .. M
        <5>1. all[t].line = Tip.sweeps \cup (N + 1 .. t)
          BY <1>4, <3>2
        <5>2. N + 1 .. t \subseteq N + 1 .. M
          BY <1>3, <3>2
        <5>. QED  BY <5>1, <5>2
      <4>2. CASE a \in Tip.sweeps /\ b \in Tip.sweeps
        BY <2>2, <2>5, <4>2
      <4>3. CASE a \in Tip.sweeps /\ b \in N + 1 .. M
        BY <2>3, <4>3
      <4>4. CASE a \in N + 1 .. M /\ b \in Tip.sweeps
        BY <2>3, <4>4
      <4>5. CASE a \in N + 1 .. M /\ b \in N + 1 .. M
        BY <2>4, <2>5, <4>5
      <4>. QED  BY <4>1, <4>2, <4>3, <4>4, <4>5, Zenon
    <3>. QED  BY <1>3, <3>1, <3>2
  <2>. DEFINE Once(sweeps, reqs) ==
                  \A t \in 1 .. Len(sweeps) : \A a, b \in sweeps[t].line : a # b =>
                      \A q \in sweeps[a].pays, r \in sweeps[b].pays : reqs[q].id # reqs[r].id
  <2>6. Once(all, requests)
    BY <1>3, <2>5, Zenon
  <2>. HIDE DEF Once
  <2>7. Once(txs', requests')
    BY <1>0, <1>1, <2>6, Zenon
  <2>. QED  BY <2>7, Zenon DEF Once, LinesPayOnce
<1>14. PaidAreSettled'
  <2>1. ASSUME NEW t \in 1 .. M, NEW q \in all[t].pays
        PROVE  Settled(q, WITHDRAWAL_MIN_CONFIRMATIONS)'
    <3>1. CASE t \in 1 .. N
      BY <1>0, <1>3, <1>11, <3>1, OldStay, Zenon
    <3>2. CASE t \in N + 1 .. M
      <4>1. Settled(q, WITHDRAWAL_MIN_CONFIRMATIONS)
        BY <1>6, <3>2, EligibleFacts
      <4>. QED  BY <1>11, <4>1, SettledStays, BoundsAssumption DEF IInv
    <3>. QED  BY <1>3, <3>1, <3>2
  <2>. QED  BY <1>0, <1>3, <2>1 DEF PaidAreSettled
<1>15. RoundIsRecorded'
  <2>1. ASSUME NEW i \in 1 .. Len(pays)
        PROVE  /\ N + i \in 1 .. Len(txs')
               /\ \A q \in all[N + i].pays :
                      requests[q].height + WITHDRAWAL_BLOCKS_EXPIRY >= Height
               /\ \A s \in recorders : all[N + i].pays # {} => Holds(s, N + i)'
    <3>1. PICK t \in N + 1 .. M : t = N + i
      BY <1>3
    <3>2. t \in 1 .. M /\ t \in TxIds
      BY <1>3 DEF TxIds
    <3>3. \A q \in all[t].pays : requests[q].height + WITHDRAWAL_BLOCKS_EXPIRY >= Height
      BY <1>6, EligibleFacts
    <3>4. ASSUME NEW s \in recorders, all[t].pays # {}
          PROVE  t \in sighashes'[s] /\ outputs'[s][t] # 0
      BY <1>7, <1>8, <3>2, <3>4, ShapeFacts DEF IInv
    <3>. QED  BY <1>0, <1>3, <3>1, <3>2, <3>3, <3>4, Zenon DEF Holds
  <2>. QED  BY <1>0, <1>1, <1>5, <1>9, <2>1, ZenonT(30) DEF RoundIsRecorded
<1>16. \A t \in signed : txs'[t] = txs[t]
  BY <1>11 DEF IInv, Shape, Grows
<1>17. SignedAreHeld'
  BY <1>1, <1>11, <1>16, OldStay, Zenon DEF SignedAreHeld
<1>18. RowsAreLinked'
  <2>1. \A s \in Signers : \A t \in TxIds : outputs'[s][t] # 0 => t \in 1 .. M
    <3>1. \A s \in Signers : \A t \in TxIds : outputs[s][t] # 0 => t \in 1 .. N
      BY <1>0, Zenon DEF IInv, RowsAreLinked
    <3>2. 1 .. N \subseteq 1 .. M /\ N + 1 .. M \subseteq 1 .. M
      BY <1>3
    <3>. QED  BY <1>8, <3>1, <3>2, Zenon
  <2>2. ~world.lossy => \A s \in Signers : sighashes'[s] = 1 .. M
    <3>1. 1 .. M = (1 .. N) \cup (N + 1 .. M)
      BY <1>3
    <3>. QED  BY <1>0, <1>1, <1>7, <3>1 DEF IInv, RowsAreLinked
  <2>3. ASSUME world.reorg = 0, NEW s \in Signers, NEW t \in sighashes'[s]
        PROVE  all[t].line \subseteq Tip.sweeps \cup sighashes'[s]
    <3>1. CASE t \in sighashes[s]
      <4>1. t \in 1 .. N
        BY <1>0, <3>1, Zenon DEF IInv, Shape
      <4>2. all[t] = txs[t] /\ txs[t].line \subseteq Tip.sweeps \cup sighashes[s]
        BY <1>3, <2>3, <3>1, <4>1, Zenon DEF IInv, RowsAreLinked
      <4>. QED  BY <1>7, <4>2
    <3>2. CASE t \notin sighashes[s]
      <4>1. t \in N + 1 .. M /\ N + 1 .. M \subseteq sighashes'[s]
        BY <1>7, <3>2
      <4>2. N + 1 .. t \subseteq N + 1 .. M
        BY <1>3, <4>1
      <4>. QED  BY <1>4, <4>1, <4>2
    <3>. QED  BY <3>1, <3>2
  <2>. QED  BY <1>0, <1>1, <1>3, <1>5, <2>1, <2>2, <2>3, Zenon DEF RowsAreLinked
<1>19. RejectedAreGivenUp'
  <2>1. ASSUME NEW q \in rejects, NEW t \in signed, q \in txs[t].pays
        PROVE  Conflicted(t)' /\ (world.reorg = 0 => Abandoned(t)')
    <3>1. Conflicted(t)'
      BY <1>11, <2>1, OldStay
    <3>2. world.reorg = 0 => Abandoned(t)
      BY <2>1 DEF IInv, RejectedAreGivenUp
    <3>. QED  BY <1>5, <1>16, <3>1, <3>2, Zenon DEF Abandoned
  <2>. QED  BY <1>1, <1>16, <2>1, Zenon DEF RejectedAreGivenUp
<1>. QED
  BY <1>1, <1>10, <1>11, <1>12, <1>13, <1>14, <1>15, <1>17, <1>18, <1>19, ChainStays, RejectsStay, Zenon
     DEF IInv

-----------------------------------------------------------------------------
(* The invariant holds.                                                    *)

\* The signers start from a donation, with empty tables.
LEMMA InitIInv ==
    ASSUME Init
    PROVE  IInv
<1>1. /\ Genesis.utxo = 0 /\ Genesis.sweeps = {}
      /\ Genesis.accepted = {} /\ Genesis.rejected = {}
      /\ \A i \in RequestIds : Genesis.created[i] = 0
      /\ Genesis \in Block
  BY BoundsAssumption DEF Genesis, Block, Outputs
<1>2. /\ chain \in Seq(Block) /\ Height = 1 /\ Tip = Genesis
      /\ \A h \in 1 .. Height : chain[h] = Genesis
  BY <1>1 DEF Init, Height, Tip
<1>3. /\ Len(txs) = 0 /\ Len(requests) = 0 /\ txs \in Seq(Tx) /\ requests \in Seq(Request)
      /\ 1 .. Len(txs) = {}
  BY EmptySeq DEF Init
<1>4. round = NoRound /\ round \in Round /\ Len(round.left) = 0
  BY EmptySeq DEF Init, NoRound, Round
<1>5. Shape
  <2>1. Height \in 1 .. world.height /\ 0 <= world.requests /\ 0 <= world.txs
    BY <1>2, WorldFacts, BoundsAssumption DEF Init
  <2>2. outputs \in [Signers -> [TxIds -> 0 .. MaxHeight]]
    BY BoundsAssumption DEF Init
  <2>. QED  BY <1>2, <1>3, <1>4, <2>1, <2>2 DEF Init, Shape
<1>6. LinesAreLinear /\ LinesPayOnce /\ PaidAreSettled
  BY <1>3 DEF LinesAreLinear, LinesPayOnce, PaidAreSettled
<1>7. ChainIsALine
  <2>1. Line(0) = {}
    BY DEF Line
  <2>2. \A h \in 1 .. Height : \A g \in 1 .. h : chain[g] = Genesis /\ chain[h] = Genesis
    BY <1>2
  <2>. QED  BY <1>1, <1>2, <2>1, <2>2, Zenon DEF ChainIsALine
<1>8. RequestsAreNumbered
  <2>1. \A h \in 1 .. Height : NumbersAt(h)
    <3>1. 0 \in 0 .. MaxRequests /\ \A i \in RequestIds : ~(i <= 0)
      BY BoundsAssumption DEF RequestIds
    <3>. QED  BY <1>1, <1>2, <3>1 DEF NumbersAt
  <2>2. \A h \in 1 .. Height : \A i \in RequestIds : OriginAt(h, i)
    BY <1>1, <1>2 DEF OriginAt
  <2>. QED  BY <1>1, <1>2, <2>1, <2>2 DEF RequestsAreNumbered
<1>9. DecisionsAreBacked
  BY <1>1, <1>2 DEF DecisionsAreBacked
<1>10. RoundIsRecorded
  BY <1>4 DEF RoundIsRecorded
<1>11. RejectedAreSettled /\ SignedAreHeld /\ RejectedAreGivenUp
  BY DEF Init, RejectedAreSettled, SignedAreHeld, RejectedAreGivenUp
<1>12. RowsAreLinked
  BY <1>3 DEF Init, RowsAreLinked
<1>. QED  BY <1>5, <1>6, <1>7, <1>8, <1>9, <1>10, <1>11, <1>12, Zenon DEF IInv

\* Every step of the system keeps the invariant.
LEMMA NextIInv ==
    ASSUME IInv, [Next]_vars
    PROVE  IInv'
<1>1. CASE \E pays \in Packages, recorders, halfway \in SUBSET Signers :
               Presign(pays, recorders, halfway)
  BY <1>1, PresignStep
<1>2. CASE \E t \in TxIds, recorders \in SUBSET Signers : PresignAgain(t, recorders)
  BY <1>2, PresignAgainStep
<1>3. CASE SignSweep
  BY <1>3, SignSweepStep
<1>4. CASE \E o \in {Tip.utxo} \cup signed : MineBlock(o)
  BY <1>4, MineBlockStep
<1>5. CASE \E k \in 1 .. world.reorg : Reorg(k)
  BY <1>5, ReorgStep
<1>6. CASE initiate_withdrawal_request
  BY <1>6, InitiateStep
<1>7. CASE \E q \in 1 .. Len(requests) : accept_withdrawal_request(q) \/ SignReject(q)
  BY <1>7, AcceptStep, SignRejectStep
<1>8. CASE \E q \in rejects : reject_withdrawal_request(q)
  BY <1>8, RejectStep
<1>9. CASE UNCHANGED vars
  <2>1. /\ UNCHANGED <<world, chain, pending, requests, txs, sighashes, outputs, round,
                       signed, rejects>>
        /\ UNCHANGED <<Height, FinalHeight, Tip, Tip.utxo, Tip.sweeps>>
    BY <1>9 DEF vars, Height, FinalHeight, Tip
  <2>2. Shape'
    BY <2>1 DEF IInv, Shape
  <2>3. Grows
    BY <2>1, ShapeFacts DEF IInv, Grows
  <2>4. RoundIsRecorded'
    BY <2>1 DEF IInv, RoundIsRecorded, Holds
  <2>5. RejectedAreGivenUp'
    BY <2>1, <2>3, GivenUpStay DEF RejectedAreGivenUp
  <2>6. RowsAreLinked'
    BY <2>1, <2>3, RowsStay
  <2>. QED
    BY <2>1, <2>2, <2>3, <2>4, <2>5, <2>6, LinesStay, ChainStays, SignaturesStay, RejectsStay, Zenon
       DEF IInv
<1>. QED
  BY <1>1, <1>2, <1>3, <1>4, <1>5, <1>6, <1>7, <1>8, <1>9 DEF Next

\* The invariant holds in every reachable state.
THEOREM SweepsInvariant == Spec => []IInv
BY InitIInv, NextIInv, PTL DEF Spec

-----------------------------------------------------------------------------
(* What the system promises.                                               *)

\* A settled request is the one that the chain tip has under its number.
LEMMA SettledIsConfirmed ==
    ASSUME IInv, NEW q, NEW n \in Nat, Settled(q, n)
    PROVE  Confirmed(q)
<1>1. q \in 1 .. Len(requests) /\ q # 0 /\ requests[q] \in Request
  BY ShapeFacts DEF IInv, Settled
<1>2. requests[q].height \in 1 .. Height /\ requests[q].id \in RequestIds /\ Height \in 1 .. Height
  BY <1>1, ShapeFacts, BoundsAssumption DEF IInv, Settled, Request
<1>. QED  BY <1>1, <1>2 DEF IInv, RequestsAreNumbered, Settled, Confirmed, Tip

\* A confirmed sweep against which an earlier sweep had won was recorded ahead
\* of its input.
LEMMA ConflictOfConfirmed ==
    ASSUME IInv, NEW t \in Tip.sweeps, Conflicted(t)
    PROVE  AheadOfItsInput(t)
<1>1. PICK s \in Signers, g \in Nat :
        /\ g \in 2 .. Height - 1
        /\ outputs[s][t] \in 1 .. g - 1
        /\ chain[g].utxo # chain[g - 1].utxo
        /\ t \notin chain[g].sweeps
  BY ShapeFacts DEF Conflicted, IInv
<1>2. PICK h \in Nat : h = outputs[s][t]
  BY <1>1
<1>3. /\ h \in 1 .. g - 1 /\ h \in 1 .. Height /\ g - 1 \in 1 .. g /\ g - 1 \in 1 .. Height
      /\ g \in 1 .. Height /\ Height \in 1 .. Height
  BY <1>1, <1>2, ShapeFacts DEF IInv
<1>4. PICK u : u = chain[g].utxo
  OBVIOUS
<1>5. PICK w : w = chain[g - 1].utxo
  OBVIOUS
<1>6. w \in {0} \cup chain[g].sweeps
  BY <1>3, <1>5, Zenon DEF IInv, ChainIsALine
<1>7. /\ u # 0 /\ u \in 1 .. Len(txs) /\ u \in chain[g].sweeps
      /\ chain[g].sweeps = txs[u].line /\ chain[g].sweeps \subseteq 1 .. u
  BY <1>1, <1>3, <1>4, <1>5, <1>6, ChainFacts DEF IInv
<1>8. /\ u \in Tip.sweeps /\ Tip.utxo \in 1 .. Len(txs) /\ Tip.sweeps = txs[Tip.utxo].line
  BY <1>3, <1>7, ChainFacts, Zenon DEF IInv, Tip
<1>9. t \in 1 .. Len(txs) /\ t \in Nat /\ u \in Nat
  BY <1>7, <1>8, LineFacts, ShapeFacts DEF IInv
<1>10. ~(t <= u)
  BY <1>1, <1>7, <1>8, LineFacts, Zenon DEF IInv
<1>11. u \in txs[t].line /\ u # t
  <2>1. u <= t
    BY <1>9, <1>10
  <2>2. u \in txs[t].line
    BY <1>8, <2>1, LineFacts DEF IInv
  <2>. QED  BY <1>9, <1>10, <2>2
<1>12. u \notin chain[h].sweeps
  <2>1. SUFFICES ASSUME u \in chain[h].sweeps PROVE FALSE
    OBVIOUS
  <2>2. u \in chain[g - 1].sweeps
    BY <1>3, <2>1, ChainFacts DEF IInv
  <2>3. w # 0 /\ w \in 1 .. Len(txs) /\ u \in 1 .. w
    BY <1>3, <1>5, <2>2, ChainFacts DEF IInv
  <2>4. w \in 1 .. u
    BY <1>6, <1>7, <2>3
  <2>. QED  BY <1>1, <1>4, <1>5, <1>9, <2>3, <2>4
<1>13. Line(t) = txs[t].line
  BY <1>9, ShapeFacts DEF Line, IInv
<1>. QED  BY <1>2, <1>3, <1>11, <1>12, <1>13, Zenon DEF AheadOfItsInput

\* What Bitcoin pays is what the contract owes: no request is paid twice, what
\* is paid exists on Stacks, what is accepted is paid, and what is rejected is
\* not, unless a reorg moved an ancestor of the sweep that pays it.
THEOREM SweepsMatchDecisions == Spec => []PaymentsMatchDecisions
<1>1. ASSUME IInv PROVE PaymentsMatchDecisions
  <2>. USE <1>1
  <2>1. Height \in 1 .. Height
    BY ShapeFacts DEF IInv
  <2>2. Tip.sweeps \subseteq 1 .. Len(txs) /\ Tip.sweeps \subseteq signed
    BY <2>1, ChainFacts DEF IInv, ChainIsALine, Tip
  <2>3. \A t \in Tip.sweeps : \A q \in txs[t].pays :
            Settled(q, WITHDRAWAL_MIN_CONFIRMATIONS) /\ Confirmed(q)
    BY <2>2, SettledIsConfirmed, BoundsAssumption DEF IInv, PaidAreSettled
  <2>4. NeverPaidTwice
    <3>1. ASSUME NEW t \in Tip.sweeps, NEW u \in Tip.sweeps, t # u
          PROVE  PaysIds(t) \cap PaysIds(u) = {}
      <4>1. Tip.utxo \in 1 .. Len(txs) /\ Tip.sweeps = txs[Tip.utxo].line
        BY <2>1, ChainFacts DEF IInv, Tip
      <4>2. \A q \in txs[t].pays, r \in txs[u].pays : requests[q].id # requests[r].id
        BY <3>1, <4>1 DEF IInv, LinesPayOnce
      <4>. QED  BY <4>2 DEF PaysIds
    <3>. QED  BY <3>1 DEF NeverPaidTwice
  <2>5. PaidOrRejected
    <3>1. ASSUME NEW t \in Tip.sweeps, PaysIds(t) \cap Tip.rejected # {}
          PROVE  world.reorg > 0 /\ AheadOfItsInput(t)
      <4>1. PICK q \in txs[t].pays : requests[q].id \in Tip.rejected
        BY <3>1 DEF PaysIds
      <4>2. PICK r \in rejects : requests[r].id = requests[q].id
        BY <2>1, <4>1 DEF IInv, DecisionsAreBacked, Tip
      <4>3. Settled(r, WITHDRAWAL_BLOCKS_EXPIRY + 1) /\ WITHDRAWAL_BLOCKS_EXPIRY + 1 \in Nat
        BY BoundsAssumption DEF IInv, RejectedAreSettled
      <4>4. Confirmed(q) /\ Confirmed(r)
        BY <2>3, <4>3, SettledIsConfirmed
      <4>5. q = r
        BY <4>2, <4>4 DEF Confirmed
      <4>6. Conflicted(t) /\ (world.reorg = 0 => Abandoned(t))
        BY <2>2, <4>5 DEF IInv, RejectedAreGivenUp
      <4>7. world.reorg # 0
        BY <4>6 DEF Abandoned
      <4>8. world.reorg > 0
        BY <4>7, WorldFacts DEF IInv, Shape
      <4>. QED  BY <4>6, <4>8, ConflictOfConfirmed
    <3>. QED  BY <3>1 DEF PaidOrRejected
  <2>6. PaymentsHaveRequests
    BY <2>3 DEF PaymentsHaveRequests
  <2>7. AcceptedIsPaid
    BY <2>1 DEF IInv, DecisionsAreBacked, AcceptedIsPaid, Tip
  <2>. QED  BY <2>4, <2>5, <2>6, <2>7 DEF PaymentsMatchDecisions
<1>. QED  BY <1>1, SweepsInvariant, PTL

\* A quorum signs the rejection of a request only when no signed sweep that pays
\* it can be mined on the chain it sees, where proposals reach every signer or no
\* confirmed sweep is lost to a reorg.
THEOREM QuorumsRejectTheUnpayable ==
    ASSUME \A w \in Worlds : w.reorg = 0 \/ ~w.lossy
    PROVE  Spec => RejectsOnlyTheUnpayable
<1>. DEFINE Unpayable == \A q \in rejects' \ rejects : \A t \in signed :
                             q \in txs[t].pays => ~Minable(t)
<1>1. ASSUME IInv, [Next]_vars PROVE [Unpayable]_vars
  <2>. USE <1>1
  <2>1. SUFFICES ASSUME NEW q \in rejects' \ rejects, NEW t \in signed, q \in txs[t].pays
                 PROVE  ~Minable(t)
    OBVIOUS
  <2>2. SignReject(q)
    <3>1. PICK r \in 1 .. Len(requests) : SignReject(r)
      BY <2>1, Zenon DEF Next, vars, Presign, PresignAgain, SignSweep, MineBlock, Reorg,
         initiate_withdrawal_request, accept_withdrawal_request, reject_withdrawal_request
    <3>2. rejects' = rejects \cup {r}
      BY <3>1 DEF SignReject
    <3>. QED  BY <2>1, <3>1, <3>2
  <2>3. pending = 0 /\ Cardinality({s \in Signers : ValidatesReject(s, q)}) >= Threshold
    BY <2>2 DEF SignReject
  <2>4. PICK Q \in SUBSET Signers :
            Cardinality(Q) >= Threshold /\ \A s \in Q : Holds(s, t)
    BY <2>1 DEF IInv, SignedAreHeld
  <2>5. PICK s \in Q : ValidatesReject(s, q)
    BY <2>3, <2>4, QuorumsMeet
  <2>6. t \in 1 .. Len(txs) /\ (world.reorg = 0 \/ ~world.lossy)
    BY Zenon DEF IInv, Shape
  <2>7. Abandoned(t)
    BY <2>1, <2>3, <2>4, <2>5, <2>6, RejectsTheConflicted, Zenon
  <2>8. Line(t) = txs[t].line
    BY <2>6, ShapeFacts DEF Line, IInv
  <2>. QED  BY <2>7, <2>8 DEF Minable, Abandoned
<1>. QED  BY <1>1, SweepsInvariant, PTL DEF Spec, RejectsOnlyTheUnpayable
=============================================================================
