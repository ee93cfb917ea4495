------------------------------- MODULE Tenure -------------------------------
(***************************************************************************)
(* The tenure of a coordinator on Stacks: it deploys the contracts or      *)
(* answers the swept requests, one transaction after the other, from the   *)
(* multi-signature wallet of the signers (signer/src/                      *)
(* transaction_coordinator.rs, transaction_signer.rs, stacks/wallet.rs).   *)
(*                                                                         *)
(* A job is a contract to deploy or a request to answer.  A transaction is *)
(* a job with the nonce and the fee it was made with; its id is a function *)
(* of these.  What the jobs contain is in ContractCalls, the rotation of   *)
(* the keys in KeyRotation and the sweeps in WithdrawalSweeps and          *)
(* DepositSweeps: the wallet is the same throughout.                       *)
(*                                                                         *)
(* Faults are counted: a call that fails, an answer or a message that is   *)
(* lost, a timeout while signatures are on their way, a block or a restart *)
(* in the middle of a tenure, a signer that is late.                       *)
(***************************************************************************)
EXTENDS Integers, Sequences, FiniteSets, TLC

CONSTANTS
    Signer,                         \* the signer set of the wallet
    Leaders,                        \* the signers that blocks select
    SignaturesRequired,             \* wallet.signatures_required()
    Contract, Swept,                \* the contracts, and the swept requests, in order
    Estimate,                       \* what estimate_fees may return
    stacks_fees_max_ustx,           \* the configured maximum of the fee
    MaxTip, MaxFaults,              \* bounds: blocks at a time, faults
    STACKS_SIGN_REQUEST_LRU_SIZE

ASSUME TenureConstants ==
    /\ Leaders \subseteq Signer
    /\ SignaturesRequired \in Nat
    /\ Estimate \subseteq Nat /\ stacks_fees_max_ustx \in Nat
    /\ MaxTip \in Nat /\ MaxFaults \in Nat
    /\ STACKS_SIGN_REQUEST_LRU_SIZE \in Nat \ {0}

VARIABLES
    node,           \* the Stacks node: the account's nonce, the mempool, what is done
    chain,          \* the bitcoin chain: the tip and the leader it selects
    signer,         \* signer |-> what its process holds
    coordinator,    \* signer |-> its coordinator event loop
    inbox,          \* sign requests that are on their way
    faults,
    restarted,      \* the signers that lost their memory of the current blocks
    finalized       \* the transactions that had enough signatures

vars == <<node, chain, signer, coordinator, inbox, faults, restarted, finalized>>

Jobs == {Contract[i] : i \in DOMAIN Contract} \cup {Swept[i] : i \in DOMAIN Swept}

ASSUME JobsAreSequences == Contract \in Seq(Jobs) /\ Swept \in Seq(Jobs)

ASSUME ContractsDiffer == \A i, j \in DOMAIN Contract : Contract[i] = Contract[j] => i = j

Deployed(done) == \A i \in DOMAIN Contract : Contract[i] \in done

NoTx == [job |-> "none", nonce |-> 0, fee |-> 0]
Idle == [pc |-> "idle", tip |-> 0, phase |-> "none", todo |-> << >>, nonce |-> 0, tx |-> NoTx,
         sigs |-> {}]
Fresh == [tip |-> 0, signals |-> << >>, signed |-> << >>, contracts_deployed |-> FALSE]

\* Either the contracts are to be deployed and there is no request yet, or
\* they are deployed and there are requests.
Init ==
    /\ \E start \in {Contract, Swept} :
         node = [nonce |-> 0, mempool |-> << >>,
                 done |-> Jobs \ {start[i] : i \in DOMAIN start}]
    /\ \E s \in Leaders : chain = [tip |-> 1, leader |-> <<s>>]
    /\ signer = [s \in Signer |-> Fresh]
    /\ coordinator = [s \in Signer |-> Idle]
    /\ inbox = {} /\ restarted = {} /\ finalized = {}
    /\ faults = 0

Fault == faults < MaxFaults /\ faults' = faults + 1

-----------------------------------------------------------------------------
(* The Stacks node. *)

\* submit_tx: the mempool keeps one transaction for each nonce, and replaces it
\* for a higher fee.
SubmitTx(tx) ==
    IF tx.nonce < node.nonce THEN "BadNonce"
    ELSE IF tx.nonce \notin DOMAIN node.mempool THEN "Acceptance"
    ELSE IF node.mempool[tx.nonce] = tx \/ tx.fee > node.mempool[tx.nonce].fee
    THEN "Acceptance" ELSE "ConflictingNonceInMempool"

InMempool(tx) ==
    [node EXCEPT !.mempool = [n \in DOMAIN node.mempool \cup {tx.nonce} |->
                                 IF n = tx.nonce THEN tx ELSE node.mempool[n]]]

\* A miner takes the next transaction.  A contract call for a job that is done
\* fails, which uses the nonce all the same.
Mine ==
    /\ node.nonce \in DOMAIN node.mempool
    /\ node' = [nonce |-> node.nonce + 1,
                mempool |-> [n \in DOMAIN node.mempool \ {node.nonce} |-> node.mempool[n]],
                done |-> node.done \cup {node.mempool[node.nonce].job}]
    /\ UNCHANGED <<chain, signer, coordinator, inbox, faults, restarted, finalized>>

-----------------------------------------------------------------------------
(* The blocks. *)

Quiet ==
    /\ inbox = {}
    /\ \A s \in Signer : /\ coordinator[s].pc = "idle"
                         /\ signer[s].tip = chain.tip /\ signer[s].signals = << >>

\* The block observer sets the state of a signer, and the request decider
\* signals that the requests were handled.  Only the coordinator of the block
\* has more to do then.
Seen(s, block) ==
    [signer[s] EXCEPT !.tip = block.tip, !.contracts_deployed = Deployed(node.done),
                      !.signals = IF block.leader[block.tip] = s
                                  THEN Append(signer[s].signals, block.tip) ELSE signer[s].signals]

\* A block after all the work for the last one.  Nothing refers to the old
\* blocks any more, so that the numbering starts again.  The delay of the
\* coordinator gives all the signers the time to see the block first.
NextBlock(late) ==
    /\ Quiet
    /\ \E s \in Leaders : chain' = [tip |-> 1, leader |-> <<s>>]
    /\ signer' = [s \in Signer |-> IF s \in late THEN [signer[s] EXCEPT !.tip = 0, !.signed = << >>]
                                   ELSE [Seen(s, chain') EXCEPT !.signed = << >>]]
    /\ restarted' = {} /\ finalized' = {}
    /\ UNCHANGED <<node, coordinator, inbox>>

\* A block that a signer sees late.
LateBlock == Fault /\ \E s \in Signer : NextBlock({s})

\* A block while there is still work.
EarlyBlock ==
    /\ Fault
    /\ ~Quiet
    /\ chain.tip < MaxTip
    /\ \E s \in Leaders : chain' = [tip |-> chain.tip + 1, leader |-> Append(chain.leader, s)]
    /\ UNCHANGED <<node, signer, coordinator, inbox, restarted, finalized>>

Observe(s) ==
    /\ signer[s].tip # chain.tip
    /\ signer' = [signer EXCEPT ![s] = Seen(s, chain)]
    /\ UNCHANGED <<node, chain, coordinator, inbox, faults, restarted, finalized>>

\* The process of a signer is started again.
Restart(s) ==
    /\ Fault
    /\ signer' = [signer EXCEPT ![s] = Fresh]
    /\ coordinator' = [coordinator EXCEPT ![s] = Idle]
    /\ inbox' = {m \in inbox : m.to # s}
    /\ restarted' = restarted \cup {s}
    /\ UNCHANGED <<node, chain, finalized>>

-----------------------------------------------------------------------------
(* The coordinator. *)

\* coordinator_public_key: the hash of the block selects it.
coordinator_public_key(tip) == chain.leader[tip]
is_coordinator(s, tip) == coordinator_public_key(tip) = s

\* The wallet starts at the nonce that the node has for the account.
get_signer_wallet == node.nonce

\* The contracts, or the responses to the swept deposits and withdrawals.
Todo(deployed) == IF deployed THEN Swept ELSE Contract

\* estimate_stacks_tx_fee caps what estimate_fees returned.
estimate_stacks_tx_fee(estimate) ==
    IF estimate < stacks_fees_max_ustx THEN estimate ELSE stacks_fees_max_ustx

new_tx(job, nonce, fee) == [job |-> job, nonce |-> nonce, fee |-> fee]

EndTenure(s) == coordinator' = [coordinator EXCEPT ![s] = Idle]

NextJob(s, nonce) ==
    coordinator' = [coordinator EXCEPT ![s].pc = "loop", ![s].nonce = nonce, ![s].tx = NoTx,
                                       ![s].sigs = {}, ![s].todo = Tail(coordinator[s].todo)]

\* process_new_blocks, up to the wallet with the nonce of the account.
ProcessNewBlocks(s) ==
    /\ coordinator[s].pc = "idle"
    /\ signer[s].signals # << >>
    /\ LET tip == Head(signer[s].signals)
           deployed == signer[s].contracts_deployed
       IN  coordinator' =
             IF is_coordinator(s, tip) /\ signer[s].tip = tip
             THEN [coordinator EXCEPT ![s] =
                      [Idle EXCEPT !.pc = "loop", !.tip = tip, !.nonce = get_signer_wallet,
                                   !.phase = IF deployed THEN "respond" ELSE "deploy",
                                   !.todo = Todo(deployed)]]
             ELSE coordinator
    /\ signer' = [signer EXCEPT ![s].signals = Tail(signer[s].signals)]
    /\ UNCHANGED <<node, chain, inbox, faults, restarted, finalized>>

\* The tenure ends with an error before there is a wallet.
ProcessFails(s) ==
    /\ Fault
    /\ coordinator[s].pc = "idle" /\ signer[s].signals # << >>
    /\ signer' = [signer EXCEPT ![s].signals = Tail(signer[s].signals)]
    /\ UNCHANGED <<node, chain, coordinator, inbox, restarted, finalized>>

AtJob(s) ==
    /\ coordinator[s].pc = "loop"
    /\ coordinator[s].todo # << >>
    /\ coordinator[s].phase = "respond" => signer[s].tip = coordinator[s].tip

\* There is nothing left, or another block arrived.
StopTenure(s) ==
    /\ coordinator[s].pc = "loop"
    /\ ~AtJob(s)
    /\ EndTenure(s)
    /\ UNCHANGED <<node, chain, signer, inbox, faults, restarted, finalized>>

\* mutant: a job that is done ends the loop.
StopAtDone(s) ==
    /\ AtJob(s)
    /\ Head(coordinator[s].todo) \in node.done
    /\ EndTenure(s)
    /\ UNCHANGED <<node, chain, signer, inbox, faults, restarted, finalized>>

\* is_deposit_completed, is_withdrawal_completed, is_deployed.
SkipDone(s) ==
    /\ AtJob(s)
    /\ Head(coordinator[s].todo) \in node.done
    /\ NextJob(s, coordinator[s].nonce)
    /\ UNCHANGED <<node, chain, signer, inbox, faults, restarted, finalized>>

\* An error of these or of the fee estimate: no transaction was made.
ConstructFails(s) ==
    /\ Fault
    /\ AtJob(s)
    /\ IF coordinator[s].phase = "deploy" THEN EndTenure(s)
       ELSE NextJob(s, coordinator[s].nonce)
    /\ UNCHANGED <<node, chain, signer, inbox, restarted, finalized>>

\* MultisigTx::new_tx takes the nonce and increments it; the request to sign
\* goes to all the signers, the own one included.  The last request reached
\* them all by then, or it counts as lost.
Construct(s) ==
    /\ AtJob(s)
    /\ Head(coordinator[s].todo) \notin node.done
    /\ \A m \in inbox : m.from # s
    /\ \E estimate \in Estimate :
         LET tx == new_tx(Head(coordinator[s].todo), coordinator[s].nonce,
                          estimate_stacks_tx_fee(estimate))
         IN  /\ coordinator' = [coordinator EXCEPT ![s].pc = "collect", ![s].tx = tx,
                                                   ![s].nonce = coordinator[s].nonce + 1]
             /\ inbox' = inbox \cup {[to |-> v, from |-> s, tip |-> coordinator[s].tip, tx |-> tx] :
                                        v \in Signer}
    /\ UNCHANGED <<node, chain, signer, faults, restarted, finalized>>

\* add_signature keeps one signature of each signer; the transaction is
\* finalized when there are enough.
add_signature(co, v) == co.sigs \cup {v}
IsSigned(sigs) == Cardinality(sigs) >= SignaturesRequired

\* sign_stacks_transaction: a signature counts while the coordinator waits for
\* one over this transaction and for this block.
Collect(m) ==
    LET co == coordinator[m.from]
        sigs == add_signature(co, m.to)
        enough == IsSigned(sigs)
    IN  IF co.pc = "collect" /\ co.tip = m.tip /\ co.tx = m.tx
        THEN /\ coordinator' = [coordinator EXCEPT ![m.from].sigs = sigs,
                                   ![m.from].pc = IF enough THEN "submit" ELSE "collect"]
             /\ finalized' = IF enough
                             THEN finalized \cup {[tip |-> m.tip, tx |-> m.tx, by |-> sigs]}
                             ELSE finalized
        ELSE UNCHANGED <<coordinator, finalized>>

\* mutant: the nonce is not given back.
AdjustNever(nonce, error) == nonce

\* adjust_nonce: the nonce is in use when the mempool says so.
adjust_nonce(nonce, error) ==
    IF error = "ConflictingNonceInMempool" \/ nonce = 0 THEN nonce ELSE nonce - 1

Fail(s, error) ==
    IF coordinator[s].phase = "deploy" THEN EndTenure(s)
    ELSE NextJob(s, adjust_nonce(coordinator[s].nonce, error))

\* Nothing more can arrive for the transaction of the coordinator.
Silent(s) == \A m \in inbox : m.tip # coordinator[s].tip \/ m.tx # coordinator[s].tx

Timeout(s) ==
    /\ coordinator[s].pc = "collect"
    /\ IF Silent(s) THEN UNCHANGED faults ELSE Fault
    /\ Fail(s, "SignatureTimeout")
    /\ UNCHANGED <<node, chain, signer, inbox, restarted, finalized>>

\* process_sign_request, with the answer of the node.
Submit(s) ==
    /\ coordinator[s].pc = "submit"
    /\ LET response == SubmitTx(coordinator[s].tx)
       IN  IF response = "Acceptance"
           THEN node' = InMempool(coordinator[s].tx) /\ NextJob(s, coordinator[s].nonce)
           ELSE UNCHANGED node /\ Fail(s, response)
    /\ UNCHANGED <<chain, signer, inbox, faults, restarted, finalized>>

\* The call fails, before the node saw the transaction or after.
SubmitFails(s) ==
    /\ Fault
    /\ coordinator[s].pc = "submit"
    /\ \/ UNCHANGED node
       \/ SubmitTx(coordinator[s].tx) = "Acceptance" /\ node' = InMempool(coordinator[s].tx)
    /\ Fail(s, "StacksNodeRequest")
    /\ UNCHANGED <<chain, signer, inbox, restarted, finalized>>

-----------------------------------------------------------------------------
(* The signers. *)

\* stacks_sign_request: the jobs signed for the blocks used last.
SignedFor(s, tip) ==
    UNION {signer[s].signed[i].jobs :
             i \in {j \in DOMAIN signer[s].signed : signer[s].signed[j].tip = tip}}

\* mutant: nothing is remembered.
MarkNothing(s, tip, job) == signer[s].signed

\* The entry of the block becomes the first one, and the cache keeps its size.
MarkSigned(s, tip, job) ==
    LET cache == signer[s].signed
        i == CHOOSE j \in 1..(Len(cache) + 1) :
                \/ j = Len(cache) + 1 /\ \A k \in DOMAIN cache : cache[k].tip # tip
                \/ j \in DOMAIN cache /\ cache[j].tip = tip
        all == <<[tip |-> tip, jobs |-> SignedFor(s, tip) \cup {job}]>>
                  \o SubSeq(cache, 1, i - 1) \o SubSeq(cache, i + 1, Len(cache))
    IN  SubSeq(all, 1, IF Len(all) < STACKS_SIGN_REQUEST_LRU_SIZE THEN Len(all)
                       ELSE STACKS_SIGN_REQUEST_LRU_SIZE)

\* MsgChainTipReport: the sender is the coordinator of the signer's own tip.
is_from_canonical_coordinator(m) ==
    signer[m.to].tip = m.tip /\ is_coordinator(m.from, m.tip)

\* The request was not signed for this tip, its fee is acceptable, and it passes
\* the validation of its kind.
assert_valid_stacks_tx_sign_request(m) ==
    /\ is_from_canonical_coordinator(m)
    /\ m.tx.fee <= stacks_fees_max_ustx
    /\ m.tx.job \notin SignedFor(m.to, m.tip)
    /\ m.tx.job \notin node.done

\* handle_stacks_transaction_sign_request.
HandleSignRequest(m) ==
    /\ m \in inbox
    /\ inbox' = inbox \ {m}
    /\ IF assert_valid_stacks_tx_sign_request(m)
       THEN /\ Collect(m)
            /\ signer' = [signer EXCEPT ![m.to].signed = MarkSigned(m.to, m.tip, m.tx.job)]
       ELSE UNCHANGED <<coordinator, signer, finalized>>
    /\ UNCHANGED <<node, chain, faults, restarted>>

\* The request is lost, or the signature is.
LoseMessage(m) ==
    /\ Fault
    /\ m \in inbox
    /\ inbox' = inbox \ {m}
    /\ \/ UNCHANGED signer
       \/ /\ assert_valid_stacks_tx_sign_request(m)
          /\ signer' = [signer EXCEPT ![m.to].signed = MarkSigned(m.to, m.tip, m.tx.job)]
    /\ UNCHANGED <<node, chain, coordinator, restarted, finalized>>

-----------------------------------------------------------------------------

Work ==
    \/ NextBlock({}) /\ UNCHANGED faults
    \/ \E m \in inbox : HandleSignRequest(m)
    \/ \E s \in Signer :
         \/ Observe(s) \/ ProcessNewBlocks(s) \/ StopTenure(s) \/ SkipDone(s)
         \/ Construct(s) \/ Timeout(s) \/ Submit(s)

Next ==
    \/ Mine \/ EarlyBlock \/ LateBlock
    \/ Work
    \/ \E m \in inbox : LoseMessage(m)
    \/ \E s \in Signer : \/ Restart(s) \/ ProcessFails(s) \/ ConstructFails(s) \/ SubmitFails(s)

Spec == Init /\ [][Next]_vars

\* The event loops run, blocks arrive and miners take what they can.
FairSpec == Spec /\ WF_vars(Work) /\ WF_vars(Mine)

-----------------------------------------------------------------------------
(* What the tenures promise. *)

\* The nonces of the wallet's transactions that wait in the mempool follow the
\* nonce of the account without a gap, so that a miner can always take the
\* next one, whatever fails after new_tx took a nonce (adjust_nonce).
NoNonceGap ==
    \A n \in DOMAIN node.mempool : \A k \in node.nonce..n : k \in DOMAIN node.mempool

\* A contract is only on its way to a block behind the contracts it refers to:
\* deploy_smart_contracts stops at the first error, also when signatures time
\* out or the answer of the node is lost.
ContractsInOrder ==
    \A n \in DOMAIN node.mempool, i \in DOMAIN Contract :
       node.mempool[n].job = Contract[i] =>
          \A j \in 1..(i - 1) :
             \/ Contract[j] \in node.done
             \/ \E k \in DOMAIN node.mempool : k < n /\ node.mempool[k].job = Contract[j]

\* Two different transactions for the same job and block get enough signatures
\* only if every signer that signed both lost its stacks_sign_request cache in
\* a restart in between.
OncePerTenure ==
    \A f, g \in finalized :
       f.tip = g.tip /\ f.tx.job = g.tx.job /\ f.tx # g.tx => f.by \cap g.by \subseteq restarted

\* The contracts are deployed and every swept request is answered in the end:
\* what a tenure fails to do, a later one finds undone and does again.
AllAnswered == <>[](Jobs \subseteq node.done)

\* What waits in the mempool can be mined in the order of its nonces, and leaves
\* no contract before one that it refers to.
TransactionsInOrder == NoNonceGap /\ ContractsInOrder
=============================================================================
