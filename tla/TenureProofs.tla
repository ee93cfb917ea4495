---------------------------- MODULE TenureProofs ----------------------------
(***************************************************************************)
(* The nonces of the signers' wallet never have a gap, a signer signs one  *)
(* transaction for a job in a tenure, and the contracts are mined in their *)
(* order, for any number of signers, contracts and requests and whatever   *)
(* fails.                                                                  *)
(*                                                                         *)
(* NoNonceGap is not inductive: a coordinator whose wallet is ahead of the *)
(* mempool would tear a gap.  NonceInv says that no wallet is: all nonces  *)
(* between that of the account and that of the wallet are in the mempool,  *)
(* except the one that new_tx took for a transaction not yet submitted.    *)
(***************************************************************************)
EXTENDS Tenure, TLAPS

\* The shape of the node's state.
NodeOK ==
    /\ DOMAIN node = {"nonce", "mempool", "done"}
    /\ node.nonce \in Nat
    /\ DOMAIN node.mempool \subseteq Nat

\* The shape of a coordinator's state.
CoordinatorOK(co) ==
    /\ DOMAIN co = {"pc", "tip", "phase", "todo", "nonce", "tx", "sigs"}
    /\ co.pc \in {"idle", "loop", "collect", "submit"}
    /\ co.nonce \in Nat
    /\ co.tx.nonce \in Nat

\* The mempool has all the nonces from the account's to the one before this.
Covered(nonce) == \A k \in node.nonce..(nonce - 1) : k \in DOMAIN node.mempool

\* The wallet is not ahead of the mempool but for the transaction at hand.
WalletOK(co) ==
    /\ co.pc = "loop" => Covered(co.nonce)
    /\ co.pc \in {"collect", "submit"} => co.nonce = co.tx.nonce + 1 /\ Covered(co.tx.nonce)

\* The inductive invariant behind the nonces.
NonceInv ==
    /\ NodeOK
    /\ DOMAIN coordinator = Signer
    /\ \A s \in Signer : CoordinatorOK(coordinator[s]) /\ WalletOK(coordinator[s])
    /\ NoNonceGap
-----------------------------------------------------------------------------

\* The invariant holds when no tenure has begun.
LEMMA InitNonce == Init => NonceInv
  BY DEF Init, NonceInv, NodeOK, CoordinatorOK, WalletOK, NoNonceGap, Idle, NoTx

\* A step of neither the node nor a coordinator keeps the invariant.
LEMMA NoChange == NonceInv /\ UNCHANGED <<node, coordinator>> => NonceInv'
  BY DEF NonceInv, NodeOK, CoordinatorOK, WalletOK, NoNonceGap, Covered

\* A step that changes the state of one coordinator and leaves the node alone.
LEMMA OneCoordinator ==
  ASSUME NonceInv, UNCHANGED node, NEW s \in Signer, NEW co,
         coordinator' = [coordinator EXCEPT ![s] = co], CoordinatorOK(co), WalletOK(co)
  PROVE  NonceInv'
  BY DEF NonceInv, NodeOK, CoordinatorOK, WalletOK, NoNonceGap, Covered

\* A step that puts a transaction into the mempool whose nonce is the next, or
\* one of those that wait.
LEMMA Submitted ==
  ASSUME NonceInv, NEW s \in Signer, NEW co, NEW tx, tx.nonce \in Nat,
         node.nonce <= tx.nonce, Covered(tx.nonce), node' = InMempool(tx),
         coordinator' = [coordinator EXCEPT ![s] = co], CoordinatorOK(co),
         co.pc \in {"loop", "idle"}, co.nonce <= tx.nonce + 1
  PROVE  NonceInv'
<1>1. /\ DOMAIN node' = {"nonce", "mempool", "done"}
      /\ node'.nonce = node.nonce
      /\ DOMAIN node'.mempool = DOMAIN node.mempool \cup {tx.nonce}
  BY DEF NonceInv, NodeOK, InMempool
<1>2. \A n : Covered(n) => Covered(n)'
  BY <1>1 DEF Covered
<1>3. Covered(co.nonce)'
  BY <1>1 DEF Covered, CoordinatorOK, NonceInv, NodeOK
<1>4. NoNonceGap'
  BY <1>1 DEF NoNonceGap, Covered, NonceInv, NodeOK
<1>5. NodeOK'
  BY <1>1 DEF NodeOK, NonceInv
<1>6. ASSUME NEW v \in Signer PROVE CoordinatorOK(coordinator[v])' /\ WalletOK(coordinator[v])'
  <2>1. CASE v = s
    BY <2>1, <1>3 DEF NonceInv, WalletOK, CoordinatorOK
  <2>2. CASE v # s
    BY <2>2, <1>2 DEF NonceInv, WalletOK, CoordinatorOK
  <2>. QED BY <2>1, <2>2
<1>. QED BY <1>4, <1>5, <1>6 DEF NonceInv

\* A coordinator that ends its tenure, or goes on to its next job with a nonce
\* up to which the mempool has all.
LEMMA Ended == ASSUME NonceInv, UNCHANGED node, NEW s \in Signer, EndTenure(s) PROVE NonceInv'
<1>1. CoordinatorOK(Idle) /\ WalletOK(Idle)
  BY DEF CoordinatorOK, WalletOK, Idle, NoTx
<1>. QED BY <1>1, OneCoordinator, Zenon DEF EndTenure

\* A coordinator that turns to its next job with this nonce.
NextState(s, nonce) ==
    [coordinator[s] EXCEPT !.pc = "loop", !.nonce = nonce, !.tx = NoTx, !.sigs = {},
                           !.todo = Tail(coordinator[s].todo)]

\* NextJob moves a coordinator to that state and to no other.
LEMMA NextJobState ==
  ASSUME NonceInv, NEW s \in Signer, NEW nonce \in Nat, NextJob(s, nonce)
  PROVE  /\ coordinator' = [coordinator EXCEPT ![s] = NextState(s, nonce)]
         /\ CoordinatorOK(NextState(s, nonce))
         /\ NextState(s, nonce).pc = "loop" /\ NextState(s, nonce).nonce = nonce
  BY Zenon DEF NextJob, NextState, NonceInv, CoordinatorOK, NoTx

\* A coordinator goes on with a nonce up to which the mempool has all.
LEMMA Continued ==
  ASSUME NonceInv, UNCHANGED node, NEW s \in Signer, NEW nonce \in Nat, Covered(nonce),
         NextJob(s, nonce)
  PROVE  NonceInv'
<1>1. WalletOK(NextState(s, nonce))
  BY NextJobState DEF WalletOK
<1>. QED BY <1>1, NextJobState, OneCoordinator

\* Fail gives the nonce back, or leaves it because the mempool has it.
LEMMA Failed ==
  ASSUME NonceInv, UNCHANGED node, NEW s \in Signer, coordinator[s].pc \in {"collect", "submit"},
         NEW error, error = "ConflictingNonceInMempool" => Covered(coordinator[s].nonce),
         Fail(s, error)
  PROVE  NonceInv'
<1>1. CASE EndTenure(s)
  BY <1>1, Ended
<1>2. CASE NextJob(s, adjust_nonce(coordinator[s].nonce, error))
  <2>1. /\ adjust_nonce(coordinator[s].nonce, error) \in Nat
        /\ Covered(adjust_nonce(coordinator[s].nonce, error))
    BY DEF adjust_nonce, NonceInv, CoordinatorOK, WalletOK
  <2>. QED BY <1>2, <2>1, Continued
<1>. QED BY <1>1, <1>2 DEF Fail
-----------------------------------------------------------------------------

\* Mining takes the transaction with the account's nonce and raises that.
LEMMA MineNonce == NonceInv /\ Mine => NonceInv'
<1>. SUFFICES ASSUME NonceInv, Mine PROVE NonceInv'
  OBVIOUS
<1>1. /\ node'.nonce = node.nonce + 1
      /\ DOMAIN node' = {"nonce", "mempool", "done"}
      /\ DOMAIN node'.mempool = DOMAIN node.mempool \ {node.nonce}
      /\ coordinator' = coordinator
  BY DEF Mine
<1>2. \A n \in Nat : Covered(n) => Covered(n)'
  BY <1>1 DEF Covered, NonceInv, NodeOK
<1>3. NodeOK' /\ NoNonceGap'
  BY <1>1 DEF NodeOK, NoNonceGap, NonceInv
<1>4. \A s \in Signer : (CoordinatorOK(coordinator[s]) /\ WalletOK(coordinator[s]))'
  BY <1>1, <1>2 DEF NonceInv, CoordinatorOK, WalletOK
<1>. QED BY <1>1, <1>3, <1>4 DEF NonceInv

\* A tenure begins with the account's nonce, which the wallet reads.
LEMMA ProcessNonce ==
  ASSUME NonceInv, NEW s \in Signer, ProcessNewBlocks(s) PROVE NonceInv'
<1>1. CASE coordinator' = coordinator
  BY <1>1, NoChange DEF ProcessNewBlocks
<1>2. ASSUME NEW tip, NEW phase, NEW todo,
             coordinator' = [coordinator EXCEPT ![s] =
                 [Idle EXCEPT !.pc = "loop", !.tip = tip, !.nonce = get_signer_wallet,
                              !.phase = phase, !.todo = todo]]
      PROVE  NonceInv'
  <2>. DEFINE co == [Idle EXCEPT !.pc = "loop", !.tip = tip, !.nonce = get_signer_wallet,
                                 !.phase = phase, !.todo = todo]
  <2>1. CoordinatorOK(co) /\ WalletOK(co)
    BY DEF CoordinatorOK, WalletOK, Covered, Idle, NoTx, get_signer_wallet, NonceInv, NodeOK
  <2>2. UNCHANGED node
    BY DEF ProcessNewBlocks
  <2>. HIDE DEF co
  <2>. QED BY <1>2, <2>1, <2>2, OneCoordinator, Zenon DEF co
<1>. QED BY <1>1, <1>2, Zenon DEF ProcessNewBlocks

\* new_tx takes the wallet's nonce for a transaction.
LEMMA ConstructNonce ==
  ASSUME NonceInv, NEW s \in Signer, Construct(s) PROVE NonceInv'
<1>1. PICK tx : /\ tx.nonce = coordinator[s].nonce
                /\ coordinator' = [coordinator EXCEPT ![s].pc = "collect", ![s].tx = tx,
                                                      ![s].nonce = coordinator[s].nonce + 1]
  BY Zenon DEF Construct, new_tx
<1>. DEFINE co == [coordinator[s] EXCEPT !.pc = "collect", !.tx = tx,
                                         !.nonce = coordinator[s].nonce + 1]
<1>2. coordinator' = [coordinator EXCEPT ![s] = co]
  BY <1>1, Zenon DEF NonceInv
<1>3. CoordinatorOK(co) /\ WalletOK(co)
  BY <1>1 DEF Construct, AtJob, NonceInv, CoordinatorOK, WalletOK
<1>4. UNCHANGED node
  BY DEF Construct
<1>. HIDE DEF co
<1>. QED BY <1>2, <1>3, <1>4, OneCoordinator, Zenon

\* A signature that arrives changes no nonce.
LEMMA CollectNonce ==
  ASSUME NonceInv, UNCHANGED node, NEW m, Collect(m) PROVE NonceInv'
<1>. DEFINE c == coordinator[m.from]
            sigs == add_signature(c, m.to)
            pc == IF IsSigned(sigs) THEN "submit" ELSE "collect"
            co == [c EXCEPT !.sigs = sigs, !.pc = pc]
<1>1. CASE UNCHANGED coordinator
  BY <1>1, NoChange
<1>2. CASE /\ c.pc = "collect"
           /\ coordinator' = [coordinator EXCEPT ![m.from].sigs = sigs, ![m.from].pc = pc]
  <2>1. CASE m.from \in Signer
    <3>1. coordinator' = [coordinator EXCEPT ![m.from] = co]
      BY <1>2, <2>1, Zenon DEF NonceInv
    <3>2. CoordinatorOK(co) /\ WalletOK(co)
      BY <1>2, <2>1 DEF NonceInv, CoordinatorOK, WalletOK
    <3>. HIDE DEF co
    <3>. QED BY <2>1, <3>1, <3>2, OneCoordinator, Zenon
  <2>2. CASE m.from \notin Signer
    BY <1>2, <2>2 DEF NonceInv, NodeOK, CoordinatorOK, WalletOK, NoNonceGap, Covered
  <2>. QED BY <2>1, <2>2
<1>. QED BY <1>1, <1>2 DEF Collect

\* The node accepts a transaction and keeps it, or refuses it and the wallet adjusts.
LEMMA SubmitNonce ==
  ASSUME NonceInv, NEW s \in Signer, Submit(s) \/ SubmitFails(s) PROVE NonceInv'
<1>. DEFINE c == coordinator[s]
            tx == c.tx
<1>1. /\ c.pc = "submit" /\ c.nonce = tx.nonce + 1 /\ tx.nonce \in Nat
      /\ Covered(tx.nonce) /\ node.nonce \in Nat
  BY DEF Submit, SubmitFails, NonceInv, CoordinatorOK, WalletOK, NodeOK
<1>2. ASSUME SubmitTx(tx) = "Acceptance", node' = InMempool(tx),
             NEW nonce \in Nat, nonce <= tx.nonce + 1, NextJob(s, nonce)
      PROVE  NonceInv'
  <2>1. node.nonce <= tx.nonce
    BY <1>1, <1>2 DEF SubmitTx
  <2>. QED BY <1>1, <1>2, <2>1, NextJobState, Submitted
<1>3. ASSUME SubmitTx(tx) = "Acceptance", node' = InMempool(tx), EndTenure(s)
      PROVE  NonceInv'
  <2>1. node.nonce <= tx.nonce
    BY <1>1, <1>3 DEF SubmitTx
  <2>2. CoordinatorOK(Idle) /\ Idle.pc = "idle" /\ Idle.nonce <= tx.nonce + 1
    BY <1>1 DEF CoordinatorOK, Idle, NoTx
  <2>. QED BY <1>1, <1>3, <2>1, <2>2, Submitted, Zenon DEF EndTenure
<1>4. CASE Submit(s)
  <2>1. CASE SubmitTx(tx) = "Acceptance"
    BY <1>1, <1>2, <1>4, <2>1 DEF Submit
  <2>2. CASE SubmitTx(tx) # "Acceptance"
    <3>1. SubmitTx(tx) = "ConflictingNonceInMempool" => Covered(c.nonce)
      BY <1>1 DEF SubmitTx, Covered
    <3>2. UNCHANGED node /\ Fail(s, SubmitTx(tx))
      BY <1>4, <2>2 DEF Submit
    <3>. QED BY <1>1, <3>1, <3>2, Failed
  <2>. QED BY <2>1, <2>2
<1>5. CASE SubmitFails(s)
  <2>1. Fail(s, "StacksNodeRequest")
    BY <1>5 DEF SubmitFails
  <2>2. CASE UNCHANGED node
    BY <1>1, <2>1, <2>2, Failed
  <2>3. CASE SubmitTx(tx) = "Acceptance" /\ node' = InMempool(tx)
    <3>1. adjust_nonce(c.nonce, "StacksNodeRequest") = tx.nonce
      BY <1>1 DEF adjust_nonce
    <3>. QED BY <1>1, <1>2, <1>3, <2>1, <2>3, <3>1 DEF Fail
  <2>. QED BY <1>5, <2>2, <2>3 DEF SubmitFails
<1>. QED BY <1>4, <1>5

\* A coordinator that restarts forgets its wallet.
LEMMA RestartNonce == ASSUME NonceInv, NEW s \in Signer, Restart(s) PROVE NonceInv'
  BY Ended, Zenon DEF Restart, EndTenure
-----------------------------------------------------------------------------

\* Every step keeps the invariant.
LEMMA StepNonce == NonceInv /\ [Next]_vars => NonceInv'
<1>. SUFFICES ASSUME NonceInv, [Next]_vars PROVE NonceInv'
  OBVIOUS
<1>1. CASE Mine
  BY <1>1, MineNonce
<1>2. CASE EarlyBlock \/ LateBlock \/ (NextBlock({}) /\ UNCHANGED faults)
  BY <1>2, NoChange, Zenon DEF EarlyBlock, LateBlock, NextBlock
<1>3. ASSUME NEW m \in inbox, HandleSignRequest(m) PROVE NonceInv'
  <2>1. UNCHANGED node
    BY <1>3 DEF HandleSignRequest
  <2>2. Collect(m) \/ UNCHANGED coordinator
    BY <1>3 DEF HandleSignRequest
  <2>. QED BY <2>1, <2>2, CollectNonce, NoChange
<1>4. ASSUME NEW m \in inbox, LoseMessage(m) PROVE NonceInv'
  BY <1>4, NoChange DEF LoseMessage
<1>5. ASSUME NEW s \in Signer, Observe(s) \/ ProcessFails(s) PROVE NonceInv'
  BY <1>5, NoChange DEF Observe, ProcessFails
<1>6. ASSUME NEW s \in Signer, ProcessNewBlocks(s) PROVE NonceInv'
  BY <1>6, ProcessNonce
<1>7. ASSUME NEW s \in Signer, StopTenure(s) \/ SkipDone(s) \/ ConstructFails(s) PROVE NonceInv'
  <2>1. UNCHANGED node
    BY <1>7 DEF StopTenure, SkipDone, ConstructFails
  <2>2. EndTenure(s) \/ (coordinator[s].pc = "loop" /\ NextJob(s, coordinator[s].nonce))
    BY <1>7 DEF StopTenure, SkipDone, ConstructFails, AtJob
  <2>3. coordinator[s].nonce \in Nat /\ (coordinator[s].pc = "loop" => Covered(coordinator[s].nonce))
    BY DEF NonceInv, CoordinatorOK, WalletOK
  <2>. QED BY <2>1, <2>2, <2>3, Ended, Continued
<1>8. ASSUME NEW s \in Signer, Construct(s) PROVE NonceInv'
  BY <1>8, ConstructNonce
<1>9. ASSUME NEW s \in Signer, Timeout(s) PROVE NonceInv'
  <2>1. UNCHANGED node /\ coordinator[s].pc = "collect" /\ Fail(s, "SignatureTimeout")
    BY <1>9 DEF Timeout
  <2>. QED BY <2>1, Failed
<1>10. ASSUME NEW s \in Signer, Submit(s) \/ SubmitFails(s) PROVE NonceInv'
  BY <1>10, SubmitNonce
<1>11. ASSUME NEW s \in Signer, Restart(s) PROVE NonceInv'
  BY <1>11, RestartNonce
<1>12. CASE UNCHANGED vars
  BY <1>12, NoChange DEF vars
<1>. QED BY <1>1, <1>2, <1>3, <1>4, <1>5, <1>6, <1>7, <1>8, <1>9, <1>10, <1>11, <1>12
            DEF Next, Work

\* The nonces of the transactions that wait in the mempool follow the nonce of
\* the account without a gap, whichever calls, answers, signatures, blocks or
\* processes fail after MultisigTx::new_tx took a nonce.
THEOREM NonceGapFree == Spec => []NoNonceGap
<1>1. NonceInv => NoNonceGap
  BY DEF NonceInv
<1>. QED BY <1>1, InitNonce, StepNonce, PTL DEF Spec
-----------------------------------------------------------------------------
(***************************************************************************)
(* Signers do not sign twice.  A signer that has not restarted remembers   *)
(* the jobs it signed for the block it is at, and signatures that it made  *)
(* for other blocks are for blocks before.  So the signature that a        *)
(* coordinator adds to a transaction is of a signer that has not signed    *)
(* another transaction for this job, be it finalized or not.               *)
(***************************************************************************)
IsSeq(q) == q \in Seq({q[i] : i \in DOMAIN q})

\* The shape of a signer's state.
SignerOK(v) ==
    /\ DOMAIN signer[v] = {"tip", "signals", "signed", "contracts_deployed"}
    /\ signer[v].tip \in Nat
    /\ signer[v].tip <= chain.tip
    /\ IsSeq(signer[v].signed)

\* The shape of signers, messages and signatures.
TypeInv ==
    /\ chain.tip \in Nat
    /\ DOMAIN signer = Signer
    /\ \A v \in Signer : SignerOK(v)
    /\ \A s \in Signer : /\ coordinator[s].sigs \subseteq Signer
                         /\ coordinator[s].pc = "loop" => coordinator[s].sigs = {}
    /\ \A m \in inbox : m.to \in Signer /\ m.from \in Signer
    /\ \A f \in finalized : f.by \subseteq Signer

\* Sequences are sequences over their own elements.
LEMMA SeqIsSeq == ASSUME NEW S, NEW q \in Seq(S) PROVE IsSeq(q)
  BY DEF IsSeq

\* What mark_as_signed leaves first in the cache: the block with the job added.
LEMMA MarkCache ==
  ASSUME TypeInv, NEW s \in Signer, NEW tip, NEW job
  PROVE  /\ IsSeq(MarkSigned(s, tip, job))
         /\ 1 \in DOMAIN MarkSigned(s, tip, job)
         /\ MarkSigned(s, tip, job)[1] = [tip |-> tip, jobs |-> SignedFor(s, tip) \cup {job}]
<1>. DEFINE cache == signer[s].signed
            i == CHOOSE j \in 1..(Len(cache) + 1) :
                    \/ j = Len(cache) + 1 /\ \A k \in DOMAIN cache : cache[k].tip # tip
                    \/ j \in DOMAIN cache /\ cache[j].tip = tip
            e == [tip |-> tip, jobs |-> SignedFor(s, tip) \cup {job}]
            S == {cache[k] : k \in DOMAIN cache} \cup {e}
            all == <<e>> \o SubSeq(cache, 1, i - 1) \o SubSeq(cache, i + 1, Len(cache))
            n == IF Len(all) < STACKS_SIGN_REQUEST_LRU_SIZE THEN Len(all)
                 ELSE STACKS_SIGN_REQUEST_LRU_SIZE
<1>0. MarkSigned(s, tip, job) = SubSeq(all, 1, n)
  BY Zenon DEF MarkSigned
<1>1. cache \in Seq({cache[k] : k \in DOMAIN cache})
  BY DEF TypeInv, SignerOK, IsSeq
<1>2. cache \in Seq(S) /\ e \in S
  BY <1>1
<1>3. i \in 1..(Len(cache) + 1)
  <2>1. \E j \in 1..(Len(cache) + 1) :
           \/ j = Len(cache) + 1 /\ \A k \in DOMAIN cache : cache[k].tip # tip
           \/ j \in DOMAIN cache /\ cache[j].tip = tip
    BY <1>1
  <2>. QED BY <2>1
<1>. HIDE DEF e, cache, i, S
<1>4. SubSeq(cache, 1, i - 1) \in Seq(S) /\ SubSeq(cache, i + 1, Len(cache)) \in Seq(S)
  BY <1>2, <1>3
<1>5. all \in Seq(S) /\ Len(all) >= 1 /\ all[1] = e
  BY <1>2, <1>4
<1>. HIDE DEF all
<1>6. n \in 1..Len(all)
  BY <1>5, TenureConstants
<1>. HIDE DEF n
<1>7. SubSeq(all, 1, n) \in Seq(S) /\ Len(SubSeq(all, 1, n)) = n /\ SubSeq(all, 1, n)[1] = e
  BY <1>5, <1>6
<1>. DEFINE q == SubSeq(all, 1, n)
<1>. HIDE DEF q
<1>8. q \in Seq(S) /\ Len(q) >= 1 /\ q[1] = e
  BY <1>6, <1>7 DEF q
<1>9. IsSeq(q) /\ 1 \in DOMAIN q
  BY <1>8, SeqIsSeq
<1>. QED BY <1>0, <1>8, <1>9 DEF e, q

\* The signer v made a signature for the job at the tip, and knows it.
Remembers(v, tip, job) ==
    /\ tip \in Nat /\ tip <= signer[v].tip
    /\ tip = signer[v].tip => job \in SignedFor(v, tip)

\* The coordinator waits for signatures.
Collecting(s) == coordinator[s].pc = "collect"

\* A signer that did not restart remembers what it signed for its tip.
RememberInv ==
    \A v \in Signer : v \notin restarted =>
        /\ \A f \in finalized : v \in f.by => Remembers(v, f.tip, f.tx.job)
        /\ \A s \in Signer : Collecting(s) /\ v \in coordinator[s].sigs
              => Remembers(v, coordinator[s].tip, coordinator[s].tx.job)

\* No signer signs two transactions for one job and block, be they finalized or
\* being collected.
CollectInv ==
    /\ \A f \in finalized, s \in Signer :
          /\ Collecting(s) /\ coordinator[s].tip = f.tip
          /\ coordinator[s].tx.job = f.tx.job /\ coordinator[s].tx # f.tx
          => f.by \cap coordinator[s].sigs \subseteq restarted
    /\ \A s, t \in Signer :
          /\ s # t /\ Collecting(s) /\ Collecting(t) /\ coordinator[s].tip = coordinator[t].tip
          /\ coordinator[s].tx.job = coordinator[t].tx.job
          => coordinator[s].sigs \cap coordinator[t].sigs \subseteq restarted

\* The inductive invariant behind the signatures.
OnceInv == NonceInv /\ TypeInv /\ RememberInv /\ CollectInv /\ OncePerTenure

\* The invariant holds before anything is signed.
LEMMA InitOnce == Init => OnceInv
<1>. SUFFICES ASSUME Init PROVE OnceInv
  OBVIOUS
<1>1. IsSeq(<< >>)
  <2>1. << >> \in Seq(Nat)
    OBVIOUS
  <2>. QED BY <2>1, SeqIsSeq, Zenon
<1>2. TypeInv
  BY <1>1 DEF Init, TypeInv, SignerOK, Fresh, Idle
<1>3. RememberInv /\ CollectInv /\ OncePerTenure
  BY DEF Init, RememberInv, CollectInv, OncePerTenure, Collecting, Idle
<1>. QED BY <1>2, <1>3, InitNonce DEF OnceInv

\* Marking one job as signed forgets none that was signed for the signer's tip.
LEMMA MarkRemembers ==
  ASSUME TypeInv, NEW v \in Signer, NEW tip, tip = signer[v].tip, NEW job, chain' = chain,
         signer' = [signer EXCEPT ![v].signed = MarkSigned(v, tip, job)]
  PROVE  /\ DOMAIN signer' = Signer /\ \A w \in Signer : SignerOK(w)'
         /\ \A w \in Signer : \A t, j : Remembers(w, t, j) => Remembers(w, t, j)'
         /\ Remembers(v, tip, job)'
<1>. DEFINE q == MarkSigned(v, tip, job)
<1>1. /\ IsSeq(q) /\ 1 \in DOMAIN q
      /\ q[1] = [tip |-> tip, jobs |-> SignedFor(v, tip) \cup {job}]
  BY MarkCache
<1>. HIDE DEF q
<1>2. /\ DOMAIN signer' = Signer
      /\ \A w \in Signer : w # v => signer'[w] = signer[w]
      /\ DOMAIN signer'[v] = DOMAIN signer[v]
      /\ signer'[v].tip = tip /\ signer'[v].signed = q
  BY DEF TypeInv, SignerOK, q
<1>3. \A w \in Signer : SignerOK(w)'
  BY <1>1, <1>2 DEF TypeInv, SignerOK
<1>4. SignedFor(v, tip) \cup {job} \subseteq SignedFor(v, tip)'
  <2>1. SignedFor(v, tip)' = UNION {q[i].jobs : i \in {j \in DOMAIN q : q[j].tip = tip}}
    BY <1>2 DEF SignedFor
  <2>2. q[1].tip = tip /\ q[1].jobs = SignedFor(v, tip) \cup {job}
    BY <1>1
  <2>. QED BY <1>1, <2>1, <2>2
<1>5. tip \in Nat
  BY DEF TypeInv, SignerOK
<1>6. \A w \in Signer : \A t, j : Remembers(w, t, j) => Remembers(w, t, j)'
  <2>. SUFFICES ASSUME NEW w \in Signer, NEW t, NEW j, Remembers(w, t, j)
                PROVE  Remembers(w, t, j)'
    OBVIOUS
  <2>1. CASE w = v
    BY <1>2, <1>4, <2>1 DEF Remembers
  <2>2. CASE w # v
    BY <1>2, <2>2 DEF Remembers, SignedFor
  <2>. QED BY <2>1, <2>2
<1>. QED BY <1>2, <1>3, <1>4, <1>5, <1>6 DEF Remembers

\* Steps after which all signers remember what they remembered, and the
\* signatures are those there were.
LEMMA SameSignatures ==
  ASSUME OnceInv, NonceInv', TypeInv',
         UNCHANGED <<restarted, finalized>>,
         \A w \in Signer : \A t, j : Remembers(w, t, j) => Remembers(w, t, j)',
         \A s \in Signer : \/ coordinator'[s].sigs = {}
                           \/ coordinator'[s].pc # "collect"
                           \/ coordinator'[s] = coordinator[s]
  PROVE  OnceInv'
<1>1. RememberInv'
  BY DEF OnceInv, RememberInv, Collecting
<1>2. CollectInv'
  BY DEF OnceInv, CollectInv, Collecting
<1>3. OncePerTenure'
  BY DEF OnceInv, OncePerTenure
<1>. QED BY <1>1, <1>2, <1>3 DEF OnceInv

\* A signer whose cache and tip stay remembers what it did.
LEMMA RemembersSame ==
  ASSUME UNCHANGED signer PROVE \A w, t, j : Remembers(w, t, j) => Remembers(w, t, j)'
  BY DEF Remembers, SignedFor

\* A step of one coordinator after which it has no signatures.
LEMMA OneCoordinatorOnce ==
  ASSUME OnceInv, NonceInv', UNCHANGED <<signer, chain, restarted, finalized>>,
         NEW s \in Signer, NEW co, co.sigs = {},
         coordinator' = [coordinator EXCEPT ![s] = co],
         \A m \in inbox' : m.to \in Signer /\ m.from \in Signer
  PROVE  OnceInv'
<1>1. TypeInv'
  BY DEF OnceInv, NonceInv, TypeInv, SignerOK
<1>2. \A t \in Signer : coordinator'[t].sigs = {} \/ coordinator'[t] = coordinator[t]
  BY DEF OnceInv, NonceInv
<1>. QED BY <1>1, <1>2, RemembersSame, SameSignatures

\* A step of the signers or of the chain only.
LEMMA SignersOnce ==
  ASSUME OnceInv, NonceInv', UNCHANGED <<coordinator, restarted, finalized>>,
         inbox' \subseteq inbox, chain'.tip \in Nat,
         DOMAIN signer' = Signer, \A v \in Signer : SignerOK(v)',
         \A w \in Signer : \A t, j : Remembers(w, t, j) => Remembers(w, t, j)'
  PROVE  OnceInv'
<1>1. TypeInv'
  BY DEF OnceInv, TypeInv
<1>. QED BY <1>1, SameSignatures
-----------------------------------------------------------------------------

\* A signer that observes a new block need not remember the tenures before.
LEMMA ObserveOnce == ASSUME OnceInv, NonceInv', NEW s \in Signer, Observe(s) PROVE OnceInv'
<1>1. /\ DOMAIN signer' = Signer
      /\ \A w \in Signer : w # s => signer'[w] = signer[w]
      /\ DOMAIN signer'[s] = DOMAIN signer[s]
      /\ signer'[s].tip = chain.tip /\ signer'[s].signed = signer[s].signed
      /\ chain' = chain /\ signer[s].tip # chain.tip
  BY DEF Observe, Seen, OnceInv, TypeInv, SignerOK
<1>2. \A v \in Signer : SignerOK(v)'
  BY <1>1 DEF OnceInv, TypeInv, SignerOK
<1>3. \A w \in Signer : \A t, j : Remembers(w, t, j) => Remembers(w, t, j)'
  <2>. SUFFICES ASSUME NEW w \in Signer, NEW t, NEW j, Remembers(w, t, j)
                PROVE  Remembers(w, t, j)'
    OBVIOUS
  <2>1. CASE w = s
    BY <1>1, <2>1 DEF OnceInv, TypeInv, SignerOK, Remembers
  <2>2. CASE w # s
    BY <1>1, <2>2 DEF Remembers, SignedFor
  <2>. QED BY <2>1, <2>2
<1>. QED BY <1>1, <1>2, <1>3, SignersOnce DEF Observe, OnceInv, TypeInv

\* Taking the first signal off the queue of a signer.
LEMMA SignalTaken ==
  ASSUME TypeInv, NEW s \in Signer, chain' = chain,
         signer' = [signer EXCEPT ![s].signals = Tail(signer[s].signals)]
  PROVE  /\ DOMAIN signer' = Signer /\ \A v \in Signer : SignerOK(v)'
         /\ \A w \in Signer : \A t, j : Remembers(w, t, j) => Remembers(w, t, j)'
<1>1. /\ DOMAIN signer' = Signer
      /\ \A w \in Signer : /\ DOMAIN signer'[w] = DOMAIN signer[w]
                           /\ signer'[w].tip = signer[w].tip
                           /\ signer'[w].signed = signer[w].signed
  BY DEF TypeInv, SignerOK
<1>2. \A v \in Signer : SignerOK(v)'
  BY <1>1 DEF TypeInv, SignerOK
<1>3. \A w \in Signer : \A t, j : Remembers(w, t, j) => Remembers(w, t, j)'
  BY <1>1 DEF Remembers, SignedFor
<1>. QED BY <1>1, <1>2, <1>3

\* A new tenure has collected nothing.
LEMMA ProcessOnce ==
  ASSUME OnceInv, NonceInv', NEW s \in Signer, ProcessNewBlocks(s) PROVE OnceInv'
<1>. DEFINE co == coordinator'[s]
<1>1. /\ UNCHANGED <<chain, inbox, restarted, finalized>>
      /\ signer' = [signer EXCEPT ![s].signals = Tail(signer[s].signals)]
  BY DEF ProcessNewBlocks
<1>2. /\ \A t \in Signer : t # s => coordinator'[t] = coordinator[t]
      /\ co = coordinator[s] \/ (co.pc = "loop" /\ co.sigs = {})
  BY DEF ProcessNewBlocks, Idle, OnceInv, NonceInv
<1>3. TypeInv'
  BY <1>1, <1>2, SignalTaken, ZenonT(30) DEF OnceInv, TypeInv
<1>. QED BY <1>1, <1>2, <1>3, SignalTaken, SameSignatures, Zenon DEF OnceInv

\* When all work is done the blocks are numbered anew and no signature matters.
LEMMA NextBlockOnce ==
  ASSUME OnceInv, NonceInv', NEW late, NextBlock(late) PROVE OnceInv'
<1>1. /\ chain'.tip = 1 /\ restarted' = {} /\ finalized' = {} /\ inbox' = {}
      /\ coordinator' = coordinator
      /\ \A s \in Signer : coordinator[s].pc = "idle"
  <2>1. chain'.tip = 1
    <3>1. PICK s \in Leaders : chain' = [tip |-> 1, leader |-> <<s>>]
      BY Zenon DEF NextBlock
    <3>. QED BY <3>1
  <2>2. /\ restarted' = {} /\ finalized' = {} /\ coordinator' = coordinator
        /\ inbox' = {} /\ \A s \in Signer : coordinator[s].pc = "idle"
    BY Zenon DEF NextBlock, Quiet
  <2>. QED BY <2>1, <2>2
<1>2. /\ DOMAIN signer' = Signer
      /\ \A s \in Signer : /\ DOMAIN signer'[s] = DOMAIN signer[s]
                           /\ signer'[s].tip \in {0, 1} /\ signer'[s].signed = << >>
  <2>1. signer' = [s \in Signer |-> IF s \in late
                                    THEN [signer[s] EXCEPT !.tip = 0, !.signed = << >>]
                                    ELSE [Seen(s, chain') EXCEPT !.signed = << >>]]
    BY Zenon DEF NextBlock
  <2>2. ASSUME NEW s \in Signer
        PROVE  /\ DOMAIN signer'[s] = DOMAIN signer[s]
               /\ signer'[s].tip \in {0, 1} /\ signer'[s].signed = << >>
    <3>1. CASE s \in late
      BY <2>1, <3>1, Zenon DEF OnceInv, TypeInv, SignerOK
    <3>2. CASE s \notin late
      <4>1. DOMAIN Seen(s, chain') = DOMAIN signer[s] /\ Seen(s, chain').tip = 1
        BY <1>1 DEF Seen, OnceInv, TypeInv, SignerOK
      <4>2. signer'[s] = [Seen(s, chain') EXCEPT !.signed = << >>]
        BY <2>1, <3>2, Zenon
      <4>3. DOMAIN signer[s] = {"tip", "signals", "signed", "contracts_deployed"}
        BY DEF OnceInv, TypeInv, SignerOK
      <4>. HIDE DEF Seen
      <4>. QED BY <4>1, <4>2, <4>3
    <3>. QED BY <3>1, <3>2
  <2>. QED BY <2>1, <2>2, Zenon
<1>3. IsSeq(<< >>)
  <2>1. << >> \in Seq(Nat)
    OBVIOUS
  <2>. QED BY <2>1, SeqIsSeq, Zenon
<1>4. TypeInv'
  BY <1>1, <1>2, <1>3 DEF OnceInv, TypeInv, SignerOK
<1>5. RememberInv' /\ CollectInv' /\ OncePerTenure'
  BY <1>1 DEF RememberInv, CollectInv, OncePerTenure, Collecting
<1>. QED BY <1>4, <1>5 DEF OnceInv

\* A block that comes while there is work changes no signature.
LEMMA EarlyBlockOnce == ASSUME OnceInv, NonceInv', EarlyBlock PROVE OnceInv'
<1>1. chain'.tip = chain.tip + 1
  BY DEF EarlyBlock
<1>2. chain'.tip \in Nat /\ \A v \in Signer : SignerOK(v)'
  BY <1>1 DEF EarlyBlock, OnceInv, TypeInv, SignerOK
<1>. QED BY <1>2, RemembersSame, SignersOnce DEF EarlyBlock, OnceInv, TypeInv

\* A signer that restarts is excused from then on.
LEMMA RestartOnce == ASSUME OnceInv, NonceInv', NEW s \in Signer, Restart(s) PROVE OnceInv'
<1>1. /\ \A w \in Signer : w # s => /\ signer'[w] = signer[w]
                                    /\ coordinator'[w] = coordinator[w]
      /\ signer'[s] = Fresh /\ coordinator'[s] = Idle
      /\ DOMAIN signer' = Signer /\ restarted' = restarted \cup {s}
      /\ chain' = chain /\ finalized' = finalized
  BY DEF Restart, OnceInv, TypeInv, NonceInv
<1>2. IsSeq(<< >>)
  <2>1. << >> \in Seq(Nat)
    OBVIOUS
  <2>. QED BY <2>1, SeqIsSeq, Zenon
<1>3. SignerOK(s)'
  BY <1>1, <1>2 DEF SignerOK, Fresh, OnceInv, TypeInv
<1>4. TypeInv'
  BY <1>1, <1>3 DEF Restart, OnceInv, TypeInv, SignerOK, Idle
<1>5. \A w \in Signer : \A t, j : w # s /\ Remembers(w, t, j) => Remembers(w, t, j)'
  BY <1>1 DEF Remembers, SignedFor
<1>6. \A t \in Signer : Collecting(t)' => t # s /\ Collecting(t)
  BY <1>1 DEF Collecting, Idle
<1>7. RememberInv'
  BY <1>1, <1>5, <1>6 DEF OnceInv, RememberInv
<1>8. CollectInv' /\ OncePerTenure'
  BY <1>1, <1>6 DEF OnceInv, CollectInv, OncePerTenure
<1>. QED BY <1>4, <1>7, <1>8 DEF OnceInv

\* A lost message adds no signature.
LEMMA LoseOnce == ASSUME OnceInv, NonceInv', NEW m \in inbox, LoseMessage(m) PROVE OnceInv'
<1>1. m.to \in Signer /\ chain'.tip \in Nat
  BY DEF LoseMessage, OnceInv, TypeInv
<1>2. CASE UNCHANGED signer
  BY <1>1, <1>2, RemembersSame, SignersOnce DEF LoseMessage, OnceInv, TypeInv, SignerOK
<1>3. CASE /\ assert_valid_stacks_tx_sign_request(m)
           /\ signer' = [signer EXCEPT ![m.to].signed = MarkSigned(m.to, m.tip, m.tx.job)]
  <2>1. m.tip = signer[m.to].tip
    BY <1>3 DEF assert_valid_stacks_tx_sign_request, is_from_canonical_coordinator
  <2>2. chain' = chain
    BY DEF LoseMessage
  <2>3. /\ DOMAIN signer' = Signer /\ \A w \in Signer : SignerOK(w)'
        /\ \A w \in Signer : \A t, j : Remembers(w, t, j) => Remembers(w, t, j)'
    BY <1>1, <1>3, <2>1, <2>2, MarkRemembers, Zenon DEF OnceInv
  <2>. QED BY <1>1, <2>3, SignersOnce DEF LoseMessage
<1>. QED BY <1>2, <1>3 DEF LoseMessage

\* The one step that adds a signature.
LEMMA HandleOnce ==
  ASSUME OnceInv, NonceInv', NEW m \in inbox, HandleSignRequest(m) PROVE OnceInv'
<1>. DEFINE v == m.to
            s == m.from
            c == coordinator[s]
            sigs == c.sigs \cup {v}
            f0 == [tip |-> m.tip, tx |-> m.tx, by |-> sigs]
<1>1. /\ v \in Signer /\ s \in Signer
      /\ UNCHANGED <<node, chain, restarted>> /\ inbox' \subseteq inbox
  BY Zenon DEF HandleSignRequest, OnceInv, TypeInv
<1>2. CASE ~assert_valid_stacks_tx_sign_request(m)
  <2>1. UNCHANGED <<coordinator, signer, finalized>>
    BY <1>2 DEF HandleSignRequest
  <2>. QED BY <1>1, <2>1, RemembersSame, SignersOnce DEF OnceInv, TypeInv, SignerOK
<1>3. CASE assert_valid_stacks_tx_sign_request(m)
  <2>1. /\ Collect(m) /\ m.tip = signer[v].tip /\ m.tx.job \notin SignedFor(v, m.tip)
        /\ signer' = [signer EXCEPT ![v].signed = MarkSigned(v, m.tip, m.tx.job)]
    BY <1>3 DEF HandleSignRequest, assert_valid_stacks_tx_sign_request, is_from_canonical_coordinator
  <2>2. /\ DOMAIN signer' = Signer /\ \A w \in Signer : SignerOK(w)'
        /\ \A w \in Signer : \A t, j : Remembers(w, t, j) => Remembers(w, t, j)'
        /\ Remembers(v, m.tip, m.tx.job)'
    BY <1>1, <2>1, MarkRemembers, Zenon DEF OnceInv
  <2>3. CASE UNCHANGED <<coordinator, finalized>>
    BY <1>1, <2>2, <2>3, SignersOnce DEF OnceInv, TypeInv
  <2>4. CASE /\ c.pc = "collect" /\ c.tip = m.tip /\ c.tx = m.tx
             /\ coordinator' = [coordinator EXCEPT ![s].sigs = sigs,
                                   ![s].pc = IF IsSigned(sigs) THEN "submit" ELSE "collect"]
             /\ finalized' = IF IsSigned(sigs) THEN finalized \cup {f0} ELSE finalized
    <3>. HIDE DEF v, s, sigs
    \* The signer that signs now has signed nothing else for this job and block.
    <3>1. v \notin restarted =>
             /\ \A f \in finalized : f.tip = m.tip /\ f.tx.job = m.tx.job => v \notin f.by
             /\ \A t \in Signer : /\ Collecting(t) /\ coordinator[t].tip = m.tip
                                  /\ coordinator[t].tx.job = m.tx.job
                                  => v \notin coordinator[t].sigs
      BY <1>1, <2>1 DEF OnceInv, RememberInv, Remembers
    <3>2. /\ \A t \in Signer : t # s => coordinator'[t] = coordinator[t]
          /\ coordinator'[s].sigs = sigs /\ coordinator'[s].tip = m.tip
          /\ coordinator'[s].tx = m.tx /\ coordinator'[s].pc \in {"collect", "submit"}
      BY <1>1, <2>4 DEF OnceInv, NonceInv, CoordinatorOK
    <3>3. finalized' \subseteq finalized \cup {f0} /\ sigs = c.sigs \cup {v}
      BY <2>4 DEF sigs
    <3>4. f0.tip = m.tip /\ f0.tx = m.tx /\ f0.by = sigs
      OBVIOUS
    <3>. HIDE DEF f0
    <3>5. TypeInv'
      BY <1>1, <2>2, <3>2, <3>3, <3>4 DEF OnceInv, TypeInv
    <3>6. \A w \in sigs : w \notin restarted => Remembers(w, m.tip, m.tx.job)'
      BY <1>1, <2>2, <2>4, <3>3 DEF OnceInv, TypeInv, RememberInv, Collecting
    <3>7. RememberInv'
      BY <1>1, <2>2, <3>2, <3>3, <3>4, <3>6 DEF OnceInv, RememberInv, Collecting
    \* No one who has not restarted signed this transaction and another.
    <3>8. /\ \A f \in finalized : /\ f.tip = m.tip /\ f.tx.job = m.tx.job /\ f.tx # m.tx
                                  => f.by \cap sigs \subseteq restarted
          /\ \A t \in Signer : /\ t # s /\ Collecting(t) /\ coordinator[t].tip = m.tip
                               /\ coordinator[t].tx.job = m.tx.job
                               => coordinator[t].sigs \cap sigs \subseteq restarted
      BY <1>1, <2>4, <3>1, <3>3 DEF OnceInv, CollectInv, Collecting
    <3>9. CollectInv'
      BY <1>1, <3>2, <3>3, <3>4, <3>8 DEF OnceInv, CollectInv, Collecting
    <3>10. OncePerTenure'
      BY <1>1, <3>3, <3>4, <3>8 DEF OnceInv, OncePerTenure
    <3>. QED BY <3>5, <3>7, <3>9, <3>10 DEF OnceInv
  <2>. QED BY <2>1, <2>3, <2>4 DEF Collect, add_signature
<1>. QED BY <1>2, <1>3

\* Ending a tenure, going on to the next job and making a transaction all leave
\* the coordinator without signatures.
LEMMA EndedOnce ==
  ASSUME OnceInv, NonceInv', UNCHANGED <<signer, chain, inbox, restarted, finalized>>,
         NEW s \in Signer, NEW nonce \in Nat, EndTenure(s) \/ NextJob(s, nonce)
  PROVE  OnceInv'
<1>1. \A m \in inbox' : m.to \in Signer /\ m.from \in Signer
  BY DEF OnceInv, TypeInv
<1>2. CASE EndTenure(s)
  <2>1. Idle.sigs = {} /\ coordinator' = [coordinator EXCEPT ![s] = Idle]
    BY <1>2 DEF EndTenure, Idle
  <2>. QED BY <1>1, <2>1, OneCoordinatorOnce, Zenon
<1>3. CASE NextJob(s, nonce)
  <2>1. /\ coordinator' = [coordinator EXCEPT ![s] = NextState(s, nonce)]
        /\ DOMAIN coordinator[s] = {"pc", "tip", "phase", "todo", "nonce", "tx", "sigs"}
    BY <1>3, NextJobState DEF OnceInv, NonceInv, CoordinatorOK
  <2>2. NextState(s, nonce).sigs = {}
    BY <2>1 DEF NextState
  <2>. HIDE DEF NextState
  <2>. QED BY <1>1, <2>1, <2>2, OneCoordinatorOnce, Zenon
<1>. QED BY <1>2, <1>3

\* A coordinator begins a job without signatures.
LEMMA ConstructOnce ==
  ASSUME OnceInv, NonceInv', NEW s \in Signer, Construct(s) PROVE OnceInv'
<1>1. PICK tx :
         /\ coordinator' = [coordinator EXCEPT ![s].pc = "collect", ![s].tx = tx,
                                               ![s].nonce = coordinator[s].nonce + 1]
         /\ inbox' = inbox \cup {[to |-> v, from |-> s, tip |-> coordinator[s].tip, tx |-> tx] :
                                    v \in Signer}
  BY Zenon DEF Construct
<1>. DEFINE co == [coordinator[s] EXCEPT !.pc = "collect", !.tx = tx,
                                         !.nonce = coordinator[s].nonce + 1]
<1>2. coordinator' = [coordinator EXCEPT ![s] = co]
  BY <1>1, Zenon DEF OnceInv, NonceInv
<1>3. co.sigs = {}
  BY DEF Construct, AtJob, OnceInv, NonceInv, CoordinatorOK, TypeInv
<1>4. \A m \in inbox' : m.to \in Signer /\ m.from \in Signer
  BY <1>1 DEF OnceInv, TypeInv
<1>5. UNCHANGED <<signer, chain, restarted, finalized>>
  BY DEF Construct
<1>. HIDE DEF co
<1>. QED BY <1>2, <1>3, <1>4, <1>5, OneCoordinatorOnce, Zenon

\* Every step keeps the invariant.
LEMMA StepOnce == OnceInv /\ [Next]_vars => OnceInv'
<1>. SUFFICES ASSUME OnceInv, [Next]_vars PROVE OnceInv'
  OBVIOUS
<1>0. NonceInv'
  BY StepNonce, Zenon DEF OnceInv
<1>1. CASE Mine \/ UNCHANGED vars
  <2>1. UNCHANGED <<chain, signer, coordinator, inbox, restarted, finalized>>
    BY <1>1 DEF Mine, vars
  <2>. QED BY <1>0, <2>1, RemembersSame, SignersOnce DEF OnceInv, TypeInv, SignerOK
<1>2. CASE EarlyBlock
  BY <1>0, <1>2, EarlyBlockOnce
<1>3. CASE LateBlock \/ (NextBlock({}) /\ UNCHANGED faults)
  BY <1>0, <1>3, NextBlockOnce, Zenon DEF LateBlock
<1>4. ASSUME NEW m \in inbox, HandleSignRequest(m) PROVE OnceInv'
  BY <1>0, <1>4, HandleOnce
<1>5. ASSUME NEW m \in inbox, LoseMessage(m) PROVE OnceInv'
  BY <1>0, <1>5, LoseOnce
<1>6. ASSUME NEW s \in Signer, Observe(s) PROVE OnceInv'
  BY <1>0, <1>6, ObserveOnce
<1>7. ASSUME NEW s \in Signer, ProcessNewBlocks(s) PROVE OnceInv'
  BY <1>0, <1>7, ProcessOnce
<1>8. ASSUME NEW s \in Signer, ProcessFails(s) PROVE OnceInv'
  <2>1. /\ signer' = [signer EXCEPT ![s].signals = Tail(signer[s].signals)]
        /\ UNCHANGED <<chain, coordinator, inbox, restarted, finalized>>
    BY <1>8 DEF ProcessFails
  <2>. QED BY <1>0, <2>1, SignalTaken, SignersOnce, Zenon DEF OnceInv, TypeInv
<1>9. ASSUME NEW s \in Signer, Construct(s) PROVE OnceInv'
  BY <1>0, <1>9, ConstructOnce
<1>10. ASSUME NEW s \in Signer,
              \/ StopTenure(s) \/ SkipDone(s) \/ ConstructFails(s)
              \/ Timeout(s) \/ Submit(s) \/ SubmitFails(s)
       PROVE  OnceInv'
  <2>1. UNCHANGED <<signer, chain, inbox, restarted, finalized>>
    BY <1>10 DEF StopTenure, SkipDone, ConstructFails, Timeout, Submit, SubmitFails
  <2>2. \E nonce \in {coordinator[s].nonce, coordinator[s].nonce - 1} :
           EndTenure(s) \/ (nonce \in Nat /\ NextJob(s, nonce))
    BY <1>10 DEF StopTenure, SkipDone, ConstructFails, Timeout, Submit, SubmitFails, Fail,
                 adjust_nonce, OnceInv, NonceInv, CoordinatorOK
  <2>. QED BY <1>0, <2>1, <2>2, EndedOnce
<1>11. ASSUME NEW s \in Signer, Restart(s) PROVE OnceInv'
  BY <1>0, <1>11, RestartOnce
<1>. QED BY <1>1, <1>2, <1>3, <1>4, <1>5, <1>6, <1>7, <1>8, <1>9, <1>10, <1>11 DEF Next, Work

\* Two different transactions for one job and one block get enough signatures
\* only from signers that lost their stacks_sign_request cache in a restart:
\* the others sign once in a tenure, whatever coordinators ask for.
THEOREM SignedOnce == Spec => []OncePerTenure
<1>1. OnceInv => OncePerTenure
  BY DEF OnceInv
<1>. QED BY <1>1, InitOnce, StepOnce, PTL DEF Spec
-----------------------------------------------------------------------------
(***************************************************************************)
(* Contracts are deployed in order.  While there are contracts that are    *)
(* not deployed, all coordinators walk the same list and the nonces count  *)
(* the contracts on it that are missing: what a coordinator submits for a  *)
(* nonce that is in the mempool already is the same contract again, and    *)
(* replaces no other that the ones behind it need.                         *)
(***************************************************************************)

\* The i-th contract waits in the mempool with the nonce n.
At(n, i) == n \in DOMAIN node.mempool /\ i \in DOMAIN Contract /\ node.mempool[n].job = Contract[i]

\* The contracts before the i-th one are deployed, or wait with lower nonces.
Ahead(n, i) ==
    \A j \in 1..(i - 1) : Contract[j] \in node.done \/ \E k \in Nat : k < n /\ At(k, j)

\* The mempool holds missing contracts, in the order of the list.
MempoolOK ==
    /\ \A n \in DOMAIN node.mempool : n >= node.nonce /\ \E i \in DOMAIN Contract : At(n, i)
    /\ \A n, m, i, j \in Nat : At(n, i) /\ At(m, j) /\ n < m => i < j
    /\ \A n, i \in Nat : At(n, i) => Ahead(n, i) /\ Contract[i] \notin node.done

\* The place on the list of a coordinator that has todo left.
Place(todo) == Len(Contract) + 1 - Len(todo)

\* What is left to do is the end of the list of contracts.
IsRest(todo) ==
    /\ IsSeq(todo) /\ Len(todo) <= Len(Contract)
    /\ \A k \in 1..Len(todo) : todo[k] = Contract[Place(todo) - 1 + k]

\* The i-th contract may follow with the nonce n.
Ready(n, i) ==
    n >= node.nonce => /\ Ahead(n, i)
                       /\ \A k, j \in Nat : At(k, j) /\ k < n => j < i

\* A coordinator submits the contract at its place on the list, with a nonce that
\* follows those of the contracts before.
DeployOK(co) ==
    /\ co.pc # "idle" => IsRest(co.todo)
    /\ co.pc = "loop" => Ready(co.nonce, Place(co.todo))
    /\ co.pc \in {"collect", "submit"} =>
          /\ co.todo # << >> /\ co.tx.job = Contract[Place(co.todo)]
          /\ Ready(co.tx.nonce, Place(co.todo))
          /\ co.tx.nonce >= node.nonce => Contract[Place(co.todo)] \notin node.done

\* A coordinator responds to requests only when all is deployed.
PhaseOK(co) ==
    co.pc # "idle" => \/ co.phase = "deploy"
                      \/ co.phase = "respond" /\ Deployed(node.done)

\* What holds of a coordinator in each phase, and until all is deployed.
GoodCo(co) == PhaseOK(co) /\ (~Deployed(node.done) => DeployOK(co))

\* A signer believes the contracts deployed only when they are.
SignersKnow == \A s \in Signer : signer[s].contracts_deployed => Deployed(node.done)

\* The inductive invariant behind the order.
OrderInv ==
    /\ SignersKnow
    /\ ~Deployed(node.done) => MempoolOK
    /\ \A s \in Signer : GoodCo(coordinator[s])

\* The first of what is left, and the rest.
LEMMA RestTail ==
  ASSUME NEW todo, IsRest(todo), todo # << >>
  PROVE  /\ IsRest(Tail(todo)) /\ Place(Tail(todo)) = Place(todo) + 1
         /\ Place(todo) \in DOMAIN Contract /\ Head(todo) = Contract[Place(todo)]
<1>. DEFINE S == {todo[k] : k \in DOMAIN todo}
<1>1. todo \in Seq(S) /\ Len(Contract) \in Nat /\ DOMAIN Contract = 1..Len(Contract)
  BY JobsAreSequences DEF IsRest, IsSeq
<1>. HIDE DEF S
<1>2. /\ Tail(todo) \in Seq(S) /\ Len(Tail(todo)) = Len(todo) - 1
      /\ Len(todo) \in Nat /\ Len(todo) > 0 /\ Head(todo) = todo[1]
      /\ \A k \in 1..(Len(todo) - 1) : Tail(todo)[k] = todo[k + 1]
  BY <1>1
<1>3. IsSeq(Tail(todo))
  BY <1>2, SeqIsSeq, Zenon
<1>4. Place(Tail(todo)) = Place(todo) + 1 /\ Place(todo) \in DOMAIN Contract
  BY <1>1, <1>2 DEF Place, IsRest
<1>5. Head(todo) = Contract[Place(todo)]
  BY <1>1, <1>2 DEF Place, IsRest
<1>6. \A k \in 1..(Len(todo) - 1) : Tail(todo)[k] = Contract[Place(Tail(todo)) - 1 + k]
  <2>. SUFFICES ASSUME NEW k \in 1..(Len(todo) - 1)
                PROVE  Tail(todo)[k] = Contract[Place(Tail(todo)) - 1 + k]
    OBVIOUS
  <2>1. todo[k + 1] = Contract[Place(todo) - 1 + (k + 1)]
    BY <1>2 DEF IsRest
  <2>2. Place(todo) - 1 + (k + 1) = Place(Tail(todo)) - 1 + k
    BY <1>1, <1>4
  <2>. QED BY <1>2, <2>1, <2>2
<1>. QED BY <1>1, <1>2, <1>3, <1>4, <1>5, <1>6 DEF IsRest

\* The place is one on the list, or behind it.
LEMMA RestPlace == ASSUME NEW todo, IsRest(todo) PROVE Place(todo) \in Nat
<1>. DEFINE S == {todo[k] : k \in DOMAIN todo}
<1>1. todo \in Seq(S) /\ Len(Contract) \in Nat /\ Len(todo) <= Len(Contract)
  BY JobsAreSequences DEF IsRest, IsSeq
<1>. HIDE DEF S
<1>2. Len(todo) \in Nat
  BY <1>1
<1>. QED BY <1>1, <1>2 DEF Place

\* All of the list is left at first.
LEMMA RestAll == IsRest(Contract) /\ Place(Contract) = 1
<1>1. Len(Contract) \in Nat /\ IsSeq(Contract)
  BY JobsAreSequences, SeqIsSeq
<1>. QED BY <1>1 DEF IsRest, Place

\* The invariant holds before anything is deployed.
LEMMA InitOrder == Init => OrderInv
<1>. SUFFICES ASSUME Init PROVE OrderInv
  OBVIOUS
<1>1. node.nonce = 0 /\ node.mempool = << >> /\ DOMAIN node.mempool = {}
  BY DEF Init
<1>2. MempoolOK
  BY <1>1 DEF MempoolOK, At
<1>3. \A s \in Signer : GoodCo(coordinator[s])
  BY DEF Init, GoodCo, PhaseOK, DeployOK, Idle
<1>4. SignersKnow
  BY DEF Init, SignersKnow, Fresh
<1>. QED BY <1>2, <1>3, <1>4 DEF OrderInv

\* A step that changes the state of one coordinator and leaves the node alone.
LEMMA OneCoordinatorOrder ==
  ASSUME NonceInv, OrderInv, SignersKnow', UNCHANGED node, NEW s \in Signer, NEW co,
         coordinator' = [coordinator EXCEPT ![s] = co], GoodCo(co)
  PROVE  OrderInv'
<1>1. \A v \in Signer : GoodCo(coordinator'[v])
  BY Zenon DEF NonceInv, OrderInv
<1>2. \A v \in Signer : GoodCo(coordinator[v])'
  BY <1>1 DEF GoodCo, PhaseOK, DeployOK, Ready, Ahead, At
<1>3. (~Deployed(node.done) => MempoolOK)'
  BY DEF OrderInv, MempoolOK, Ahead, At
<1>. QED BY <1>2, <1>3 DEF OrderInv

\* A step that leaves the node and the coordinators alone.
LEMMA NoneOrder ==
  ASSUME OrderInv, SignersKnow', UNCHANGED <<node, coordinator>>
  PROVE  OrderInv'
<1>2. \A v \in Signer : GoodCo(coordinator[v])'
  BY DEF OrderInv, GoodCo, PhaseOK, DeployOK, Ready, Ahead, At
<1>3. (~Deployed(node.done) => MempoolOK)'
  BY DEF OrderInv, MempoolOK, Ahead, At
<1>. QED BY <1>2, <1>3, Zenon DEF OrderInv

\* A tenure that ended.
LEMMA EndedOrder ==
  ASSUME NonceInv, OrderInv, SignersKnow', UNCHANGED node, NEW s \in Signer, EndTenure(s)
  PROVE  OrderInv'
<1>1. GoodCo(Idle)
  BY DEF GoodCo, PhaseOK, DeployOK, Idle
<1>. QED BY <1>1, OneCoordinatorOrder, Zenon DEF EndTenure

\* The next job, after one that is done or when all is deployed.
LEMMA ContinuedOrder ==
  ASSUME NonceInv, OrderInv, SignersKnow', UNCHANGED node, NEW s \in Signer,
         NEW nonce \in Nat, NextJob(s, nonce), coordinator[s].pc # "idle",
         \/ Deployed(node.done)
         \/ /\ coordinator[s].pc = "loop" /\ coordinator[s].todo # << >>
            /\ nonce = coordinator[s].nonce /\ Head(coordinator[s].todo) \in node.done
  PROVE  OrderInv'
<1>. DEFINE c == coordinator[s]
            n == NextState(s, nonce)
<1>0. /\ n.pc = "loop" /\ n.nonce = nonce /\ n.phase = c.phase /\ n.todo = Tail(c.todo)
  BY DEF NextState, NonceInv, CoordinatorOK
<1>1. GoodCo(c)
  BY DEF OrderInv
<1>. HIDE DEF n
<1>2. PhaseOK(n)
  BY <1>0, <1>1 DEF GoodCo, PhaseOK
<1>3. ASSUME ~Deployed(node.done) PROVE DeployOK(n)
  <2>1. /\ IsRest(c.todo) /\ Ready(c.nonce, Place(c.todo)) /\ c.todo # << >>
        /\ nonce = c.nonce /\ Head(c.todo) \in node.done
    BY <1>1, <1>3 DEF GoodCo, DeployOK
  <2>2. /\ IsRest(n.todo) /\ Place(n.todo) = Place(c.todo) + 1
        /\ Place(c.todo) \in DOMAIN Contract /\ Contract[Place(c.todo)] \in node.done
    BY <1>0, <2>1, RestTail
  <2>. DEFINE i == Place(c.todo)
  <2>3. Place(c.todo) \in Nat
    BY <2>2, JobsAreSequences
  <2>4. Ready(nonce, i + 1)
    <3>. HIDE DEF i
    <3>1. i \in Nat /\ Contract[i] \in node.done /\ Ready(nonce, i)
      BY <2>1, <2>2, <2>3 DEF i
    <3>. QED BY <3>1 DEF Ready, Ahead
  <2>. QED BY <1>0, <2>2, <2>4 DEF DeployOK
<1>4. coordinator' = [coordinator EXCEPT ![s] = n]
  BY NextJobState DEF n
<1>. QED BY <1>2, <1>3, <1>4, OneCoordinatorOrder, Zenon DEF GoodCo

\* Errors end the phase that deploys.
LEMMA FailedOrder ==
  ASSUME NonceInv, OrderInv, SignersKnow', UNCHANGED node, NEW s \in Signer,
         coordinator[s].pc \in {"collect", "submit"}, NEW error, Fail(s, error)
  PROVE  OrderInv'
<1>1. CASE coordinator[s].phase = "deploy"
  BY <1>1, EndedOrder DEF Fail
<1>2. CASE coordinator[s].phase # "deploy"
  <2>1. Deployed(node.done)
    BY <1>2 DEF OrderInv, GoodCo, PhaseOK
  <2>2. adjust_nonce(coordinator[s].nonce, error) \in Nat
    BY DEF adjust_nonce, NonceInv, CoordinatorOK
  <2>3. NextJob(s, adjust_nonce(coordinator[s].nonce, error))
    BY <1>2 DEF Fail
  <2>. QED BY <2>1, <2>2, <2>3, ContinuedOrder
<1>. QED BY <1>1, <1>2

\* What is done stays done.
LEMMA DoneGrows ==
  ASSUME NonceInv, [Next]_vars
  PROVE  /\ node.done \subseteq node'.done
         /\ Deployed(node.done) => Deployed(node'.done)
<1>1. \/ UNCHANGED node \/ Mine
      \/ \E s \in Signer : (Submit(s) \/ SubmitFails(s)) /\ node' = InMempool(coordinator[s].tx)
  BY Zenon DEF Next, Work, EarlyBlock, LateBlock, NextBlock, HandleSignRequest, LoseMessage, Observe,
         ProcessNewBlocks, StopTenure, SkipDone, Construct, Timeout, Submit, SubmitFails,
         Restart, ProcessFails, ConstructFails, vars
<1>2. CASE UNCHANGED node
  BY <1>2
<1>3. CASE Mine
  BY <1>3 DEF Mine, Deployed
<1>4. ASSUME NEW tx, node' = InMempool(tx) PROVE node'.done = node.done
  BY <1>4 DEF InMempool, NonceInv, NodeOK
<1>. QED BY <1>1, <1>2, <1>3, <1>4

\* A signer knows that the contracts are deployed from the node, or not at all.
LEMMA SignersStep ==
  ASSUME NonceInv, TypeInv, SignersKnow, [Next]_vars
  PROVE  SignersKnow'
<1>0. Deployed(node.done) => Deployed(node'.done)
  BY DoneGrows
<1>. SUFFICES ASSUME NEW v \in Signer, signer'[v].contracts_deployed
              PROVE  Deployed(node.done)
  BY <1>0 DEF SignersKnow
<1>1. /\ DOMAIN signer = Signer
      /\ \A s \in Signer : DOMAIN signer[s] = {"tip", "signals", "signed", "contracts_deployed"}
      /\ \A m \in inbox : m.to \in Signer
  BY DEF TypeInv, SignerOK
<1>2. \A s \in Signer : \A block : Seen(s, block).contracts_deployed => Deployed(node.done)
  BY <1>1 DEF Seen
<1>3. CASE UNCHANGED signer
  BY <1>3 DEF SignersKnow
<1>4. ASSUME NEW late, NextBlock(late) PROVE Deployed(node.done)
  <2>1. signer'[v] = IF v \in late THEN [signer[v] EXCEPT !.tip = 0, !.signed = << >>]
                     ELSE [Seen(v, chain') EXCEPT !.signed = << >>]
    BY <1>4, Zenon DEF NextBlock
  <2>2. CASE v \in late
    BY <1>1, <2>1, <2>2 DEF SignersKnow
  <2>3. CASE v \notin late
    <3>1. signer'[v].contracts_deployed = Seen(v, chain').contracts_deployed
      BY <1>1, <2>1, <2>3, Zenon DEF Seen
    <3>. QED BY <1>2, <3>1
  <2>. QED BY <2>2, <2>3
<1>5. ASSUME NEW s \in Signer, Observe(s) PROVE Deployed(node.done)
  <2>1. signer' = [signer EXCEPT ![s] = Seen(s, chain)]
    BY <1>5 DEF Observe
  <2>. QED BY <1>1, <1>2, <2>1 DEF SignersKnow
<1>6. ASSUME NEW s \in Signer, ProcessNewBlocks(s) \/ ProcessFails(s) PROVE Deployed(node.done)
  <2>1. signer' = [signer EXCEPT ![s].signals = Tail(signer[s].signals)]
    BY <1>6 DEF ProcessNewBlocks, ProcessFails
  <2>. QED BY <1>1, <2>1 DEF SignersKnow
<1>7. ASSUME NEW s \in Signer, Restart(s) PROVE Deployed(node.done)
  <2>1. signer' = [signer EXCEPT ![s] = Fresh] /\ ~Fresh.contracts_deployed
    BY <1>7 DEF Restart, Fresh
  <2>. QED BY <1>1, <2>1 DEF SignersKnow
<1>8. ASSUME NEW m \in inbox, HandleSignRequest(m) \/ LoseMessage(m) PROVE Deployed(node.done)
  <2>1. \/ UNCHANGED signer
        \/ signer' = [signer EXCEPT ![m.to].signed = MarkSigned(m.to, m.tip, m.tx.job)]
    BY <1>8 DEF HandleSignRequest, LoseMessage
  <2>. QED BY <1>1, <1>3, <2>1 DEF SignersKnow
<1>. QED BY <1>3, <1>4, <1>5, <1>6, <1>7, <1>8, Zenon
         DEF Next, Work, Mine, EarlyBlock, LateBlock, StopTenure, SkipDone, Construct, Timeout,
             Submit, SubmitFails, ConstructFails, vars

\* A miner takes the first of the missing contracts.
LEMMA MineOrder ==
  ASSUME NonceInv, OrderInv, SignersKnow', Mine
  PROVE  OrderInv'
<1>. DEFINE a == node.nonce
<1>1. /\ node'.nonce = a + 1 /\ a \in Nat /\ a \in DOMAIN node.mempool
      /\ node'.mempool = [n \in DOMAIN node.mempool \ {a} |-> node.mempool[n]]
      /\ node'.done = node.done \cup {node.mempool[a].job}
      /\ coordinator' = coordinator
      /\ \A s \in Signer : coordinator[s].nonce \in Nat /\ coordinator[s].tx.nonce \in Nat
  BY DEF Mine, NonceInv, NodeOK, CoordinatorOK
<1>. HIDE DEF a
<1>2. Deployed(node.done) => Deployed(node'.done)
  BY <1>1 DEF Deployed
<1>3. \A s \in Signer : PhaseOK(coordinator[s])'
  BY <1>1, <1>2 DEF OrderInv, GoodCo, PhaseOK
<1>4. ASSUME ~Deployed(node'.done)
      PROVE  MempoolOK' /\ \A s \in Signer : DeployOK(coordinator[s])'
  <2>1. MempoolOK /\ \A s \in Signer : DeployOK(coordinator[s])
    BY <1>2, <1>4 DEF OrderInv, GoodCo
  <2>2. PICK i \in DOMAIN Contract : At(a, i)
    BY <1>1, <2>1 DEF MempoolOK
  <2>3. node'.done = node.done \cup {Contract[i]} /\ DOMAIN Contract \subseteq Nat /\ i \in Nat
    BY <1>1, <2>2, JobsAreSequences DEF At
  <2>4. \A n, j : At(n, j)' <=> At(n, j) /\ n # a
    BY <1>1 DEF At
  <2>5. \A n, j \in Nat : Ahead(n, j) => Ahead(n, j)'
    <3>. SUFFICES ASSUME NEW n \in Nat, NEW j \in Nat, Ahead(n, j), NEW l \in 1..(j - 1)
                  PROVE  Contract[l] \in node'.done \/ \E k \in Nat : k < n /\ At(k, l)'
      BY Zenon DEF Ahead
    <3>1. CASE Contract[l] \in node.done
      BY <2>3, <3>1
    <3>2. ASSUME NEW k \in Nat, k < n, At(k, l) PROVE Contract[l] \in node'.done \/ At(k, l)'
      BY <1>1, <2>4, <3>2 DEF At
    <3>. QED BY <3>1, <3>2 DEF Ahead
  <2>6. \A n, j \in Nat : At(n, j) /\ n > a => i < j /\ j \in DOMAIN Contract /\ Contract[j] # Contract[i]
    BY <1>1, <2>1, <2>2, <2>3, ContractsDiffer DEF MempoolOK, At
  <2>7. MempoolOK'
    <3>1. \A n \in DOMAIN node'.mempool : n >= a + 1 /\ \E j \in DOMAIN Contract : At(n, j)'
      <4>1. DOMAIN node.mempool \subseteq Nat
        BY DEF NonceInv, NodeOK
      <4>. QED BY <1>1, <2>1, <2>4, <4>1 DEF MempoolOK, a
    <3>2. \A n, m, k, j \in Nat : At(n, k)' /\ At(m, j)' /\ n < m => k < j
      BY <2>1, <2>4 DEF MempoolOK
    <3>3. \A n, j \in Nat : At(n, j)' => Ahead(n, j)' /\ Contract[j] \notin node'.done
      <4>. SUFFICES ASSUME NEW n \in Nat, NEW j \in Nat, At(n, j)'
                    PROVE  Ahead(n, j)' /\ Contract[j] \notin node'.done
        OBVIOUS
      <4>1. At(n, j) /\ n # a
        BY <2>4
      <4>2. n > a
        BY <1>1, <2>1, <4>1 DEF MempoolOK, At, a
      <4>. QED BY <2>1, <2>3, <2>5, <2>6, <4>1, <4>2 DEF MempoolOK
    <3>. QED BY <1>1, <3>1, <3>2, <3>3 DEF MempoolOK
  <2>8. \A n, j \in Nat : Ready(n, j) => Ready(n, j)'
    BY <1>1, <2>4, <2>5 DEF Ready, a
  <2>9. ASSUME NEW s \in Signer PROVE DeployOK(coordinator[s])'
    <3>. DEFINE c == coordinator[s]
                p == Place(c.todo)
    <3>0. DeployOK(c) /\ c.nonce \in Nat /\ c.tx.nonce \in Nat
      BY <1>1, <2>1
    <3>1. c.pc # "idle" => p \in Nat
      BY <3>0, RestPlace DEF DeployOK
    <3>2. c.pc = "loop" => Ready(c.nonce, p)'
      BY <1>1, <2>8, <3>0, <3>1 DEF DeployOK
    <3>3. c.pc \in {"collect", "submit"} => Ready(c.tx.nonce, p)'
      BY <1>1, <2>8, <3>0, <3>1 DEF DeployOK
    <3>4. ASSUME c.pc \in {"collect", "submit"}, c.tx.nonce >= a + 1
          PROVE  Contract[p] \notin node'.done
      <4>1. /\ Ready(c.tx.nonce, p) /\ c.tx.nonce >= a /\ c.tx.nonce > a
            /\ Contract[p] \notin node.done /\ p \in DOMAIN Contract
        BY <1>1, <3>0, <3>4, RestTail DEF DeployOK, a
      <4>2. i < p
        BY <1>1, <2>2, <2>3, <4>1 DEF Ready, a
      <4>. QED BY <2>3, <4>1, <4>2, ContractsDiffer
    <3>5. coordinator'[s] = c /\ node'.nonce = a + 1
      BY <1>1
    <3>. HIDE DEF p
    <3>6. /\ c.pc # "idle" => IsRest(c.todo)
          /\ c.pc \in {"collect", "submit"} => c.todo # << >> /\ c.tx.job = Contract[p]
      BY <3>0 DEF DeployOK, p
    <3>. QED BY <3>2, <3>3, <3>4, <3>5, <3>6 DEF DeployOK, p
  <2>. QED BY <2>7, <2>9
<1>. QED BY <1>3, <1>4 DEF OrderInv, GoodCo

\* The node takes a contract: it is new in the mempool, or there already with
\* this nonce.
LEMMA TakenOnce ==
  ASSUME NonceInv, OrderInv, ~Deployed(node.done), NEW s \in Signer,
         coordinator[s].pc = "submit", coordinator[s].tx.nonce >= node.nonce,
         node' = InMempool(coordinator[s].tx)
  PROVE  LET w == coordinator[s].tx.nonce
             p == Place(coordinator[s].todo)
         IN  /\ p \in DOMAIN Contract /\ w \in Nat
             /\ w \in DOMAIN node.mempool => At(w, p)
             /\ \A n, j : At(n, j)' <=> At(n, j) \/ (n = w /\ j = p)
<1>. DEFINE c == coordinator[s]
            w == c.tx.nonce
            p == Place(c.todo)
<1>1. /\ MempoolOK /\ IsRest(c.todo) /\ c.todo # << >> /\ c.tx.job = Contract[p]
      /\ Ready(w, p) /\ Contract[p] \notin node.done
  BY Zenon DEF OrderInv, GoodCo, DeployOK
<1>2. p \in DOMAIN Contract /\ w \in Nat /\ DOMAIN Contract \subseteq Nat
  BY <1>1, RestTail, JobsAreSequences DEF NonceInv, CoordinatorOK
<1>3. /\ node'.nonce = node.nonce /\ node'.done = node.done
      /\ node'.mempool = [n \in DOMAIN node.mempool \cup {w} |->
                             IF n = w THEN c.tx ELSE node.mempool[n]]
  BY DEF InMempool, NonceInv, NodeOK
<1>. HIDE DEF p
<1>4. ASSUME w \in DOMAIN node.mempool PROVE At(w, p)
  <2>1. PICK i \in DOMAIN Contract : At(w, i)
    BY <1>1, <1>4 DEF MempoolOK
  <2>2. Ahead(w, i) /\ Contract[i] \notin node.done /\ Ahead(w, p)
        /\ \A k, j \in Nat : At(k, j) /\ k < w => j < p
    BY <1>1, <1>2, <2>1 DEF MempoolOK, Ready
  <2>3. ~(i < p)
    <3>. SUFFICES ASSUME i < p PROVE FALSE
      OBVIOUS
    <3>1. i \in 1..(p - 1)
      BY <1>2, JobsAreSequences
    <3>2. PICK k \in Nat : k < w /\ At(k, i)
      BY <2>2, <3>1 DEF Ahead
    <3>. QED BY <1>1, <1>2, <2>1, <3>2 DEF MempoolOK
  <2>4. ~(p < i)
    <3>. SUFFICES ASSUME p < i PROVE FALSE
      OBVIOUS
    <3>1. p \in 1..(i - 1)
      BY <1>2, JobsAreSequences
    <3>2. PICK k \in Nat : k < w /\ At(k, p)
      BY <1>1, <2>2, <3>1 DEF Ahead
    <3>. QED BY <1>2, <2>2, <3>2
  <2>5. i = p
    BY <1>2, <2>3, <2>4
  <2>. QED BY <2>1, <2>5
<1>5. ASSUME NEW n, NEW j PROVE At(n, j)' <=> At(n, j) \/ (n = w /\ j = p)
  <2>1. CASE n # w
    BY <1>3, <2>1 DEF At
  <2>2. CASE n = w
    <3>1. At(n, j)' <=> j \in DOMAIN Contract /\ Contract[p] = Contract[j]
      BY <1>1, <1>3, <2>2 DEF At, p
    <3>2. At(n, j)' <=> j = p
      BY <1>2, <3>1, ContractsDiffer
    <3>3. At(n, j) => j = p
      BY <1>2, <1>4, <2>2, ContractsDiffer DEF At
    <3>. QED BY <2>2, <3>2, <3>3, Zenon
  <2>. QED BY <2>1, <2>2
<1>. QED BY <1>2, <1>4, <1>5, Zenon DEF p

\* The coordinator goes on behind the contract that the node took.
LEMMA TakenOrder ==
  ASSUME NonceInv, OrderInv, SignersKnow', NEW s \in Signer, coordinator[s].pc = "submit",
         coordinator[s].tx.nonce >= node.nonce, node' = InMempool(coordinator[s].tx),
         NEW nonce \in Nat,
         \/ EndTenure(s)
         \/ /\ NextJob(s, nonce)
            /\ Deployed(node.done) \/ nonce = coordinator[s].tx.nonce + 1
  PROVE  OrderInv'
<1>. DEFINE c == coordinator[s]
            w == c.tx.nonce
            p == Place(c.todo)
<1>0. node'.nonce = node.nonce /\ node'.done = node.done
  BY DEF InMempool, NonceInv, NodeOK
<1>1. /\ \A v \in Signer : v # s => coordinator'[v] = coordinator[v]
      /\ \/ coordinator'[s] = Idle
         \/ /\ coordinator'[s] = NextState(s, nonce)
            /\ Deployed(node.done) \/ nonce = w + 1
  BY NextJobState DEF EndTenure, NonceInv
<1>2. /\ NextState(s, nonce).pc = "loop" /\ NextState(s, nonce).nonce = nonce
      /\ NextState(s, nonce).phase = c.phase /\ NextState(s, nonce).todo = Tail(c.todo)
  BY DEF NextState, NonceInv, CoordinatorOK
<1>3. \A v \in Signer : PhaseOK(coordinator[v])'
  <2>1. PhaseOK(c) /\ \A v \in Signer : PhaseOK(coordinator[v])
    BY Zenon DEF OrderInv, GoodCo
  <2>2. PhaseOK(coordinator[s])'
    BY <1>0, <1>1, <1>2, <2>1 DEF PhaseOK, Idle
  <2>. QED BY <1>0, <1>1, <2>1, <2>2 DEF PhaseOK
<1>4. ASSUME ~Deployed(node.done)
      PROVE  MempoolOK' /\ \A v \in Signer : DeployOK(coordinator[v])'
  <2>1. /\ p \in DOMAIN Contract /\ w \in Nat /\ DOMAIN Contract \subseteq Nat
        /\ w \in DOMAIN node.mempool => At(w, p)
        /\ \A n, j : At(n, j)' <=> At(n, j) \/ (n = w /\ j = p)
    BY <1>4, TakenOnce, JobsAreSequences
  <2>2. /\ MempoolOK /\ Ready(w, p) /\ IsRest(c.todo) /\ c.todo # << >>
        /\ Contract[p] \notin node.done
    BY <1>4, Zenon DEF OrderInv, GoodCo, DeployOK
  <2>3. DOMAIN node.mempool \subseteq Nat /\ node.nonce \in Nat /\ NoNonceGap
    BY DEF NonceInv, NodeOK
  <2>. HIDE DEF p
  <2>4. \A n, j \in Nat : Ahead(n, j) => Ahead(n, j)'
    BY <1>0, <2>1 DEF Ahead
  <2>5. MempoolOK'
    <3>1. DOMAIN node'.mempool = DOMAIN node.mempool \cup {w}
      BY Zenon DEF InMempool, NonceInv, NodeOK
    <3>2. \A n \in DOMAIN node'.mempool :
             n >= node'.nonce /\ \E i \in DOMAIN Contract : At(n, i)'
      BY <1>0, <2>1, <2>2, <3>1 DEF MempoolOK
    <3>3. ASSUME NEW n \in Nat, NEW m \in Nat, NEW i \in Nat, NEW j \in Nat,
                 At(n, i)', At(m, j)', n < m
          PROVE  i < j
      <4>1. CASE At(n, i) /\ At(m, j)
        BY <2>2, <3>3, <4>1 DEF MempoolOK
      <4>2. CASE At(n, i) /\ m = w /\ j = p
        BY <2>2, <3>3, <4>2 DEF Ready
      <4>3. CASE n = w /\ i = p /\ At(m, j)
        <5>1. m \in DOMAIN node.mempool /\ w \in node.nonce..m
          BY <2>1, <2>3, <3>3, <4>3 DEF At
        <5>2. At(n, i)
          BY <2>1, <2>3, <4>3, <5>1, Zenon DEF NoNonceGap
        <5>. QED BY <2>2, <3>3, <4>3, <5>2, Zenon DEF MempoolOK
      <4>. QED BY <2>1, <3>3, <4>1, <4>2, <4>3
    <3>4. \A n, i \in Nat : At(n, i)' => Ahead(n, i)' /\ Contract[i] \notin node'.done
      BY <1>0, <2>1, <2>2, <2>4 DEF MempoolOK, Ready
    <3>. QED BY <3>2, <3>3, <3>4, Zenon DEF MempoolOK
  <2>6. ASSUME NEW n \in Nat, NEW j \in Nat, Ready(n, j), Covered(n)
        PROVE  Ready(n, j)'
    <3>. SUFFICES ASSUME n >= node.nonce
                  PROVE  Ahead(n, j)' /\ \A k, l \in Nat : At(k, l)' /\ k < n => l < j
      BY <1>0 DEF Ready
    <3>1. Ahead(n, j) /\ \A k, l \in Nat : At(k, l) /\ k < n => l < j
      BY <2>6 DEF Ready
    <3>2. w < n => At(w, p)
      BY <2>1, <2>3, <2>6 DEF Covered
    <3>. QED BY <2>1, <2>4, <3>1, <3>2
  <2>7. ASSUME NEW v \in Signer, v # s PROVE DeployOK(coordinator[v])'
    <3>. DEFINE d == coordinator[v]
    <3>1. DeployOK(d) /\ d.nonce \in Nat /\ d.tx.nonce \in Nat /\ WalletOK(d)
      BY <1>4, Zenon DEF OrderInv, GoodCo, NonceInv, CoordinatorOK
    <3>2. d.pc # "idle" => Place(d.todo) \in Nat
      BY <3>1, RestPlace, Zenon DEF DeployOK
    <3>3. coordinator'[v] = d
      BY <1>1, <2>7, Zenon
    <3>4. d.pc = "loop" => Ready(d.nonce, Place(d.todo))'
      BY <2>6, <3>1, <3>2, <3>3, Zenon DEF DeployOK, WalletOK
    <3>5. d.pc \in {"collect", "submit"} => Ready(d.tx.nonce, Place(d.todo))'
      BY <2>6, <3>1, <3>2, <3>3, Zenon DEF DeployOK, WalletOK
    <3>. QED BY <1>0, <3>1, <3>3, <3>4, <3>5, ZenonT(30) DEF DeployOK
  <2>8. DeployOK(coordinator[s])'
    <3>1. CASE coordinator'[s] = Idle
      BY <3>1 DEF DeployOK, Idle
    <3>2. CASE coordinator'[s] = NextState(s, w + 1) /\ nonce = w + 1
      <4>1. IsRest(Tail(c.todo)) /\ Place(Tail(c.todo)) = p + 1
        BY <2>2, RestTail, Zenon DEF p
      <4>2. /\ coordinator'[s].pc = "loop" /\ coordinator'[s].nonce = w + 1
            /\ coordinator'[s].todo = Tail(c.todo)
        BY <1>2, <3>2
      <4>3. PICK a \in Nat, q \in Nat : a = w /\ q = p
        BY <2>1
      <4>4. Ready(a + 1, q + 1)'
        <5>1. Ahead(a, q) /\ \A k, l \in Nat : At(k, l) /\ k < a => l < q
          BY <2>2, <4>3, Zenon DEF Ready
        <5>2. At(a, q)' /\ \A n, l : At(n, l)' => At(n, l) \/ (n = a /\ l = q)
          BY <2>1, <4>3
        <5>3. \A l \in 1..q : Contract[l] \in node'.done \/ \E k \in Nat : k < a + 1 /\ At(k, l)'
          BY <1>0, <2>1, <5>1, <5>2 DEF Ahead
        <5>4. Ahead(a + 1, q + 1)'
          BY <5>3 DEF Ahead
        <5>5. ASSUME NEW l \in Nat, At(a, l) PROVE l = q
          BY <2>1, <4>3, <5>5, ContractsDiffer DEF At
        <5>6. \A k, l \in Nat : At(k, l)' /\ k < a + 1 => l < q + 1
          BY <5>1, <5>2, <5>5
        <5>. QED BY <5>4, <5>6, Zenon DEF Ready
      <4>. QED BY <4>1, <4>2, <4>3, <4>4, Zenon DEF DeployOK
    <3>. QED BY <1>1, <1>4, <3>1, <3>2
  <2>. QED BY <2>5, <2>7, <2>8, Zenon
<1>. QED BY <1>0, <1>3, <1>4 DEF OrderInv, GoodCo

\* What is submitted for a nonce that waits already is the same contract.
LEMMA SubmitOrder ==
  ASSUME NonceInv, OrderInv, SignersKnow', NEW s \in Signer, Submit(s) \/ SubmitFails(s)
  PROVE  OrderInv'
<1>. DEFINE c == coordinator[s]
            tx == c.tx
<1>1. /\ c.pc = "submit" /\ c.nonce = tx.nonce + 1 /\ tx.nonce \in Nat /\ c.nonce \in Nat
      /\ node.nonce \in Nat
  BY DEF Submit, SubmitFails, NonceInv, CoordinatorOK, WalletOK, NodeOK
<1>2. SubmitTx(tx) = "Acceptance" => tx.nonce >= node.nonce
  BY <1>1 DEF SubmitTx
<1>3. CASE Submit(s)
  <2>1. CASE SubmitTx(tx) = "Acceptance"
    <3>1. node' = InMempool(tx) /\ NextJob(s, c.nonce)
      BY <1>3, <2>1, Zenon DEF Submit
    <3>. QED BY <1>1, <1>2, <2>1, <3>1, TakenOrder
  <2>2. CASE SubmitTx(tx) # "Acceptance"
    <3>1. UNCHANGED node /\ Fail(s, SubmitTx(tx))
      BY <1>3, <2>2, Zenon DEF Submit
    <3>. QED BY <1>1, <3>1, FailedOrder
  <2>. QED BY <2>1, <2>2, Zenon
<1>4. CASE SubmitFails(s)
  <2>1. Fail(s, "StacksNodeRequest")
    BY <1>4 DEF SubmitFails
  <2>2. CASE UNCHANGED node
    BY <1>1, <2>1, <2>2, FailedOrder
  <2>3. CASE SubmitTx(tx) = "Acceptance" /\ node' = InMempool(tx)
    <3>1. CASE c.phase = "deploy"
      <4>1. EndTenure(s)
        BY <2>1, <3>1 DEF Fail
      <4>. QED BY <1>1, <1>2, <2>3, <4>1, TakenOrder
    <3>2. CASE c.phase # "deploy"
      <4>1. Deployed(node.done)
        BY <1>1, <3>2 DEF OrderInv, GoodCo, PhaseOK
      <4>2. /\ adjust_nonce(c.nonce, "StacksNodeRequest") \in Nat
            /\ NextJob(s, adjust_nonce(c.nonce, "StacksNodeRequest"))
        BY <1>1, <2>1, <3>2 DEF Fail, adjust_nonce
      <4>. QED BY <1>1, <1>2, <2>3, <4>1, <4>2, TakenOrder
    <3>. QED BY <3>1, <3>2
  <2>. QED BY <1>4, <2>2, <2>3 DEF SubmitFails
<1>. QED BY <1>3, <1>4, Zenon

\* The list starts where the account is: no missing contract has a lower nonce.
LEMMA ProcessOrder ==
  ASSUME NonceInv, OrderInv, SignersKnow', NEW s \in Signer, ProcessNewBlocks(s)
  PROVE  OrderInv'
<1>0. UNCHANGED node
  BY DEF ProcessNewBlocks
<1>1. CASE coordinator' = coordinator
  BY <1>0, <1>1, NoneOrder
<1>2. CASE coordinator' # coordinator
  <2>. DEFINE deployed == signer[s].contracts_deployed
              phase == IF deployed THEN "respond" ELSE "deploy"
              tip == Head(signer[s].signals)
              co == [Idle EXCEPT !.pc = "loop", !.tip = tip, !.nonce = get_signer_wallet,
                                 !.phase = phase, !.todo = Todo(deployed)]
  <2>1. coordinator' = [coordinator EXCEPT ![s] = co]
    BY <1>2 DEF ProcessNewBlocks
  <2>2. /\ co.pc = "loop" /\ co.nonce = node.nonce /\ co.phase = phase
        /\ co.todo = Todo(deployed)
    BY DEF Idle, get_signer_wallet
  <2>. HIDE DEF co
  <2>3. deployed => Deployed(node.done)
    BY DEF OrderInv, SignersKnow
  <2>4. PhaseOK(co)
    BY <2>2, <2>3 DEF PhaseOK
  <2>5. ASSUME ~Deployed(node.done) PROVE DeployOK(co)
    <3>1. co.todo = Contract
      BY <2>2, <2>3, <2>5 DEF Todo
    <3>2. MempoolOK /\ node.nonce \in Nat
      BY <2>5 DEF OrderInv, NonceInv, NodeOK
    <3>3. Ready(node.nonce, 1)
      BY <3>2 DEF Ready, Ahead, MempoolOK, At
    <3>. QED BY <2>2, <3>1, <3>3, RestAll DEF DeployOK
  <2>. QED BY <1>0, <2>1, <2>4, <2>5, OneCoordinatorOrder, Zenon DEF GoodCo
<1>. QED BY <1>1, <1>2

\* The transaction is for the contract at the place of the coordinator, which is
\* missing.
LEMMA ConstructOrder ==
  ASSUME NonceInv, OrderInv, SignersKnow', NEW s \in Signer, Construct(s)
  PROVE  OrderInv'
<1>. DEFINE c == coordinator[s]
<1>1. PICK tx : /\ tx.nonce = c.nonce /\ tx.job = Head(c.todo)
                /\ coordinator' = [coordinator EXCEPT ![s].pc = "collect", ![s].tx = tx,
                                                      ![s].nonce = c.nonce + 1]
  BY Zenon DEF Construct, new_tx
<1>. DEFINE co == [c EXCEPT !.pc = "collect", !.tx = tx, !.nonce = c.nonce + 1]
<1>2. coordinator' = [coordinator EXCEPT ![s] = co]
  BY <1>1, Zenon DEF NonceInv
<1>3. /\ co.pc = "collect" /\ co.tx = tx /\ co.phase = c.phase /\ co.todo = c.todo
  BY DEF NonceInv, CoordinatorOK
<1>. HIDE DEF co
<1>4. /\ c.pc = "loop" /\ c.todo # << >> /\ Head(c.todo) \notin node.done
      /\ UNCHANGED node /\ GoodCo(c)
  BY DEF Construct, AtJob, OrderInv
<1>5. PhaseOK(co)
  BY <1>3, <1>4 DEF GoodCo, PhaseOK
<1>6. ASSUME ~Deployed(node.done) PROVE DeployOK(co)
  <2>1. IsRest(c.todo) /\ Ready(c.nonce, Place(c.todo))
    BY <1>4, <1>6 DEF GoodCo, DeployOK
  <2>2. Head(c.todo) = Contract[Place(c.todo)]
    BY <1>4, <2>1, RestTail
  <2>. QED BY <1>1, <1>3, <1>4, <2>1, <2>2 DEF DeployOK
<1>. QED BY <1>2, <1>4, <1>5, <1>6, OneCoordinatorOrder, Zenon DEF GoodCo

\* A signature leaves the transaction as it is.
LEMMA CollectOrder ==
  ASSUME NonceInv, OrderInv, SignersKnow', UNCHANGED node, NEW m, m.from \in Signer, Collect(m)
  PROVE  OrderInv'
<1>. DEFINE c == coordinator[m.from]
            sigs == add_signature(c, m.to)
            pc == IF IsSigned(sigs) THEN "submit" ELSE "collect"
            co == [c EXCEPT !.sigs = sigs, !.pc = pc]
<1>1. CASE UNCHANGED coordinator
  BY <1>1, NoneOrder
<1>2. CASE /\ c.pc = "collect"
           /\ coordinator' = [coordinator EXCEPT ![m.from].sigs = sigs, ![m.from].pc = pc]
  <2>1. coordinator' = [coordinator EXCEPT ![m.from] = co]
    BY <1>2, Zenon DEF NonceInv
  <2>2. /\ co.pc \in {"collect", "submit"} /\ co.tx = c.tx /\ co.phase = c.phase
        /\ co.todo = c.todo
    BY DEF NonceInv, CoordinatorOK
  <2>. HIDE DEF co
  <2>3. GoodCo(co)
    BY <1>2, <2>2 DEF OrderInv, GoodCo, PhaseOK, DeployOK
  <2>. QED BY <2>1, <2>3, OneCoordinatorOrder, Zenon
<1>. QED BY <1>1, <1>2 DEF Collect

\* Every step keeps the invariant.
LEMMA StepOrder == NonceInv /\ TypeInv /\ OrderInv /\ [Next]_vars => OrderInv'
<1>. SUFFICES ASSUME NonceInv, TypeInv, OrderInv, [Next]_vars PROVE OrderInv'
  OBVIOUS
<1>0. SignersKnow'
  BY SignersStep DEF OrderInv
<1>1. CASE Mine
  BY <1>0, <1>1, MineOrder
<1>2. CASE EarlyBlock \/ LateBlock \/ (NextBlock({}) /\ UNCHANGED faults)
  BY <1>0, <1>2, NoneOrder, Zenon DEF EarlyBlock, LateBlock, NextBlock
<1>3. ASSUME NEW m \in inbox, HandleSignRequest(m) PROVE OrderInv'
  <2>1. UNCHANGED node /\ (Collect(m) \/ UNCHANGED coordinator)
    BY <1>3 DEF HandleSignRequest
  <2>2. m.from \in Signer
    BY DEF TypeInv
  <2>. QED BY <1>0, <2>1, <2>2, CollectOrder, NoneOrder
<1>4. ASSUME NEW m \in inbox, LoseMessage(m) PROVE OrderInv'
  BY <1>0, <1>4, NoneOrder DEF LoseMessage
<1>5. ASSUME NEW s \in Signer, Observe(s) \/ ProcessFails(s) PROVE OrderInv'
  BY <1>0, <1>5, NoneOrder DEF Observe, ProcessFails
<1>6. ASSUME NEW s \in Signer, ProcessNewBlocks(s) PROVE OrderInv'
  BY <1>0, <1>6, ProcessOrder
<1>7. ASSUME NEW s \in Signer, StopTenure(s) \/ Restart(s) PROVE OrderInv'
  BY <1>0, <1>7, EndedOrder DEF StopTenure, Restart, EndTenure
<1>8. ASSUME NEW s \in Signer, SkipDone(s) PROVE OrderInv'
  <2>1. /\ UNCHANGED node /\ coordinator[s].pc = "loop" /\ coordinator[s].todo # << >>
        /\ Head(coordinator[s].todo) \in node.done /\ NextJob(s, coordinator[s].nonce)
        /\ coordinator[s].nonce \in Nat
    BY <1>8 DEF SkipDone, AtJob, NonceInv, CoordinatorOK
  <2>. QED BY <1>0, <2>1, ContinuedOrder
<1>9. ASSUME NEW s \in Signer, ConstructFails(s) PROVE OrderInv'
  <2>1. UNCHANGED node /\ coordinator[s].pc = "loop" /\ coordinator[s].nonce \in Nat
    BY <1>9 DEF ConstructFails, AtJob, NonceInv, CoordinatorOK
  <2>2. CASE coordinator[s].phase = "deploy"
    BY <1>0, <1>9, <2>1, <2>2, EndedOrder DEF ConstructFails
  <2>3. CASE coordinator[s].phase # "deploy"
    <3>1. Deployed(node.done)
      BY <2>1, <2>3 DEF OrderInv, GoodCo, PhaseOK
    <3>2. NextJob(s, coordinator[s].nonce)
      BY <1>9, <2>3 DEF ConstructFails
    <3>. QED BY <1>0, <2>1, <3>1, <3>2, ContinuedOrder
  <2>. QED BY <2>2, <2>3
<1>10. ASSUME NEW s \in Signer, Construct(s) PROVE OrderInv'
  BY <1>0, <1>10, ConstructOrder
<1>11. ASSUME NEW s \in Signer, Timeout(s) PROVE OrderInv'
  <2>1. UNCHANGED node /\ coordinator[s].pc = "collect" /\ Fail(s, "SignatureTimeout")
    BY <1>11 DEF Timeout
  <2>. QED BY <1>0, <2>1, FailedOrder
<1>12. ASSUME NEW s \in Signer, Submit(s) \/ SubmitFails(s) PROVE OrderInv'
  BY <1>0, <1>12, SubmitOrder
<1>13. CASE UNCHANGED vars
  BY <1>0, <1>13, NoneOrder DEF vars
<1>. QED BY <1>1, <1>2, <1>3, <1>4, <1>5, <1>6, <1>7, <1>8, <1>9, <1>10, <1>11, <1>12, <1>13
            DEF Next, Work

\* What waits in the mempool can be mined in the order of its nonces, and no
\* contract is ahead of one that it refers to, whichever coordinators, blocks
\* and errors interleave: all of them walk the same list from the same nonce.
THEOREM MinedInOrder == Spec => []TransactionsInOrder
<1>1. OnceInv /\ OrderInv => TransactionsInOrder
  <2>. SUFFICES ASSUME OnceInv, OrderInv PROVE ContractsInOrder
    BY DEF OnceInv, NonceInv, TransactionsInOrder
  <2>1. CASE Deployed(node.done)
    <3>1. \A i \in DOMAIN Contract : \A j \in 1..(i - 1) : j \in DOMAIN Contract
      BY JobsAreSequences
    <3>. QED BY <2>1, <3>1 DEF ContractsInOrder, Deployed
  <2>2. CASE ~Deployed(node.done)
    <3>. SUFFICES ASSUME NEW n \in DOMAIN node.mempool, NEW i \in DOMAIN Contract,
                         node.mempool[n].job = Contract[i], NEW j \in 1..(i - 1)
                  PROVE  \/ Contract[j] \in node.done
                         \/ \E k \in DOMAIN node.mempool :
                               k < n /\ node.mempool[k].job = Contract[j]
      BY DEF ContractsInOrder
    <3>1. n \in Nat /\ i \in Nat
      BY JobsAreSequences DEF OnceInv, NonceInv, NodeOK
    <3>2. Ahead(n, i)
      BY <2>2, <3>1 DEF OrderInv, MempoolOK, At
    <3>. QED BY <3>2 DEF Ahead, At
  <2>. QED BY <2>1, <2>2
<1>2. OnceInv /\ OrderInv /\ [Next]_vars => OnceInv' /\ OrderInv'
  BY StepOnce, StepOrder DEF OnceInv
<1>. QED BY <1>1, <1>2, InitOnce, InitOrder, PTL DEF Spec
=============================================================================
