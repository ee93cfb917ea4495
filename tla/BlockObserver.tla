--------------------------- MODULE BlockObserver ---------------------------
(***************************************************************************)
(* The block observer of one signer (block_observer.rs), the poller that   *)
(* feeds it (bitcoin/poller.rs), the backfill of Stacks blocks             *)
(* (stacks/api.rs), the deconstruction of sweep transactions               *)
(* (bitcoin/utxo.rs) and the webhook that stores the registry's events     *)
(* (api/new_block.rs).                                                     *)
(*                                                                         *)
(* `db` is the Postgres database.  `mem` is an in-memory store that gets   *)
(* the same calls.  Each step is one committed write; a call to bitcoind,  *)
(* to the Stacks node, to Emily or to the database may fail, and the       *)
(* process may crash.  `left` bounds what the surroundings still do.       *)
(***************************************************************************)
EXTENDS MemoryStore

CONSTANTS
    Txid,
    BlockTxs,            \* block -> its transactions, coinbase left out
    StartHeight,         \* sbtc_bitcoin_start_height, the Nakamoto start
    BootstrapKeys,       \* the bootstrap aggregate key of the configuration
    VerificationWindow,  \* dkg_verification_window
    ContextWindow,
    LimitWindow,         \* blocks of the rolling withdrawal limit
    StxEvents,           \* Stacks block -> sequence of registry events
    EmilyDeposits,       \* the sequence of deposits that Emily returns
    Self,                \* this signer
    NewShares,           \* a row of dkg_shares that a DKG run may write
    BroadcastCapacity,   \* DEFAULT_BROADCAST_CAPACITY
    Budgets              \* bounds on what the surroundings do, chosen in Init

VARIABLES
    best,      \* bitcoind's best block
    stxSeen,   \* the blocks the Stacks node has
    stream,    \* hashes broadcast and not yet received, and the last one seen
    obs,       \* the observer: program counter and locals
    hook,      \* the webhook call that is being handled
    acked,     \* Stacks blocks whose webhook was answered 200
    db, mem,
    state,     \* SignerState
    signalled, \* the tip of the last BitcoinBlockObserved event
    faults,    \* failures and crashes so far
    left       \* what is left of the chosen budget

nodeVars == <<best, stxSeen>>
vars == <<best, stxSeen, stream, obs, hook, acked, db, mem, state, signalled, faults, left>>

(***************************************************************************)
(* TxDeconstructor.                                                        *)
(***************************************************************************)

IsSignerCreated(txid, scripts) ==
    TxIns[txid] # << >> /\ TxIns[txid][1].script \in scripts

\* The first input of a sweep is the signers' own, the others are deposits.
ToInputs(txid, scripts) ==
    IF ~IsSignerCreated(txid, scripts) THEN {}
    ELSE {[txid |-> txid, prevout |-> <<TxIns[txid][i].txid, TxIns[txid][i].vout>>,
           type |-> IF i = 1 THEN "signers_input" ELSE "deposit"] : i \in DOMAIN TxIns[txid]}

\* Outputs count from 0: the signers', the OP_RETURN, then withdrawals.  When
\* someone else made the transaction, what it pays to the signers is a gift.
ToTxOutputs(txid, scripts) ==
    LET row(i, type) == [txid |-> txid, index |-> i - 1, type |-> type,
                         script |-> TxOuts[txid][i].script, amount |-> TxOuts[txid][i].amount]
    IN  IF ~IsSignerCreated(txid, scripts)
        THEN {row(i, "donation") : i \in {j \in DOMAIN TxOuts[txid] : TxOuts[txid][j].script \in scripts}}
        ELSE {row(i, CASE i = 1 -> "signers_output" [] i = 2 -> "signers_op_return"
                       [] OTHER -> "withdrawal") : i \in DOMAIN TxOuts[txid]}

\* Version 0 of the OP_RETURN has no ids.
HasWithdrawals(txid, scripts) ==
    /\ IsSignerCreated(txid, scripts)
    /\ Len(TxOuts[txid]) > 2
    /\ OpReturnIds[txid].version # 0

ToWithdrawalOutputs(txid, scripts) ==
    IF ~HasWithdrawals(txid, scripts) THEN {}
    ELSE {[txid |-> txid, index |-> i + 1, request_id |-> OpReturnIds[txid].ids[i]] :
             i \in 1..(Len(TxOuts[txid]) - 2)}

\* Otherwise the block is refused: an unknown version, or a number of ids
\* that is not the number of withdrawal outputs.
IsWellFormed(txid, scripts) ==
    HasWithdrawals(txid, scripts) =>
        /\ OpReturnIds[txid].version = 1
        /\ Len(OpReturnIds[txid].ids) = Len(TxOuts[txid]) - 2

(***************************************************************************)
(* extract_sbtc_transactions.  One pass looks for the scripts known when it*)
(* starts; the second one finds sweeps of an output with a script that the *)
(* first one has seen for the first time.  The result is the set of the one*)
(* store that the two passes lead to.                                      *)
(***************************************************************************)

SbtcTxs(b, scripts) ==
    {t \in BlockTxs[b] :
        \/ \E i \in DOMAIN TxOuts[t] : TxOuts[t][i].script \in scripts
        \/ \E i \in DOMAIN TxIns[t] : TxIns[t][i].script \in scripts}

BootstrapScripts == {Script[k] : k \in BootstrapKeys}

ExtractPass(d, b) ==
    LET scripts == GetSignersScriptPubkeys(d) \cup BootstrapScripts
        txs     == SbtcTxs(b, scripts)
        d1      == WriteTxPrevouts(d, UNION {ToInputs(t, scripts) : t \in txs})
        d2      == WriteTxOutputs(d1, UNION {ToTxOutputs(t, scripts) : t \in txs})
        d3      == WriteWithdrawalTxOutputs(d2, UNION {ToWithdrawalOutputs(t, scripts) : t \in txs})
    IN  WriteBitcoinTransactions(d3, txs \X {b})

Extract(d, b) == {ExtractPass(first, b) : first \in {ExtractPass(d, b)}}

MemExtractPass(m, b) ==
    LET scripts == MemGetSignersScriptPubkeys(m) \cup BootstrapScripts
        txs     == SbtcTxs(b, scripts)
        m1      == FoldSet(LAMBDA r, e : MemWriteTxPrevout(e, r), m,
                           UNION {ToInputs(t, scripts) : t \in txs})
        m2      == FoldSet(LAMBDA r, e : MemWriteTxOutput(e, r), m1,
                           UNION {ToTxOutputs(t, scripts) : t \in txs})
        m3      == FoldSet(LAMBDA r, e : MemWriteWithdrawalTxOutput(e, r), m2,
                           UNION {ToWithdrawalOutputs(t, scripts) : t \in txs})
    IN  MemWriteBitcoinTransactions(m3, txs \X {b})

MemExtract(m, b) == {MemExtractPass(first, b) : first \in {MemExtractPass(m, b)}}

\* A panic drops the transaction, so that nothing it wrote shows, and the store
\* gets no more calls.
MemStep(written) ==
    \E m \in {written} : mem' = IF m.panicked THEN [mem EXCEPT !.panicked = TRUE] ELSE m

\* process_bitcoin_block: the block and its transactions in one transaction.
StoreBlock(d, b) ==
    {PgTransactionWrite([db |-> d], w).db : w \in Extract(WriteBitcoinBlock(d, b), b)}

(***************************************************************************)
(* The nodes.                                                              *)
(***************************************************************************)

Spend(what) == left[what] > 0 /\ left' = [left EXCEPT ![what] = @ - 1]

Canonical == Line[best]

\* The tip of the Stacks chain on bitcoind's best chain.
StxTip ==
    CHOOSE x \in {y \in stxSeen : Anchor[y] \in Canonical} :
        \A y \in stxSeen : Anchor[y] \in Canonical => StxHeight[y] <= StxHeight[x]

TenureHeaders(b) == {x \in stxSeen : Anchor[x] = b}

\* A longer chain replaces the best one.
BitcoinAdvance ==
    /\ Spend("bitcoin")
    /\ \E b \in Block : BtcHeight[b] > BtcHeight[best] /\ best' = b
    /\ UNCHANGED <<stxSeen, stream, obs, hook, acked, db, mem, state, signalled, faults>>

StacksAdvance ==
    /\ Spend("stacks")
    /\ \E x \in StxBlock \ stxSeen :
          /\ StxParent[x] \in stxSeen
          /\ Anchor[x] \in Canonical
          /\ stxSeen' = stxSeen \cup {x}
    /\ UNCHANGED <<best, stream, obs, hook, acked, db, mem, state, signalled, faults>>

\* run_rpc_poller: a full channel drops its oldest hash, and the subscriber
\* gets an error in its place.
Poll ==
    /\ best # stream.last
    /\ stream' = [ last |-> best,
                   queue |-> IF Len(stream.queue) < BroadcastCapacity
                             THEN Append(stream.queue, best)
                             ELSE Append(Tail(stream.queue), best),
                   lagged |-> stream.lagged \/ Len(stream.queue) >= BroadcastCapacity ]
    /\ UNCHANGED <<best, stxSeen, obs, hook, acked, db, mem, state, signalled, faults, left>>

(***************************************************************************)
(* PgStore: a query on the pool sees what is committed, and an operation on*)
(* the pool is committed at once.                                          *)
(***************************************************************************)
PgStoreRead == db

PgStoreWrite(written) == db' = written

(***************************************************************************)
(* The observer's loop.                                                    *)
(***************************************************************************)

Idle == [ pc |-> "idle", tip |-> NoBlock, todo |-> << >>, tenure |-> NoBlock,
          staged |-> {}, requests |-> << >>, batch |-> {} ]

\* mutant: after a lag the receiver subscribes anew and misses what waits
ReceiveSubscribesAnew ==
    /\ obs.pc = "idle"
    /\ \/ /\ stream.lagged
          /\ stream' = [stream EXCEPT !.lagged = FALSE, !.queue = << >>]
          /\ UNCHANGED obs
       \/ /\ ~stream.lagged
          /\ stream.queue # << >>
          /\ stream' = [stream EXCEPT !.queue = Tail(@)]
          /\ obs' = [Idle EXCEPT !.pc = "headers", !.tip = Head(stream.queue)]
    /\ UNCHANGED <<nodeVars, hook, acked, db, mem, state, signalled, faults, left>>

\* A stream item: a lag error is logged and the loop goes on.
Receive ==
    /\ obs.pc = "idle"
    /\ \/ /\ stream.lagged
          /\ stream' = [stream EXCEPT !.lagged = FALSE]
          /\ UNCHANGED obs
       \/ /\ ~stream.lagged
          /\ stream.queue # << >>
          /\ stream' = [stream EXCEPT !.queue = Tail(@)]
          /\ obs' = [Idle EXCEPT !.pc = "headers", !.tip = Head(stream.queue)]
    /\ UNCHANGED <<nodeVars, hook, acked, db, mem, state, signalled, faults, left>>

\* next_headers_to_process: the unknown blocks above the first known one and
\* not below the start height, lowest first.
NextHeadersToProcess(b) ==
    SetToSortSeq({c \in Line[b] :
                    /\ BtcHeight[c] >= StartHeight
                    /\ \A e \in Line[b] : c \in Line[e] => ~IsKnownBitcoinBlockHash(PgStoreRead, e)},
                 LAMBDA c, e : BtcHeight[c] < BtcHeight[e])

FetchHeaders ==
    /\ obs.pc = "headers"
    /\ obs' = [obs EXCEPT !.pc = "blocks", !.todo = NextHeadersToProcess(obs.tip)]
    /\ UNCHANGED <<nodeVars, stream, hook, acked, db, mem, state, signalled, faults, left>>

\* process_bitcoin_blocks_until, for the tip and for a deposit's block.
ProcessBitcoinBlock ==
    /\ obs.pc \in {"blocks", "deposit_blocks"}
    /\ obs.todo # << >>
    /\ \A t \in BlockTxs[Head(obs.todo)] :
          IsWellFormed(t, GetSignersScriptPubkeys(db) \cup BootstrapScripts)
    /\ db' \in StoreBlock(db, Head(obs.todo))
    /\ \E m \in MemExtract(MemWriteBitcoinBlock(mem, Head(obs.todo)), Head(obs.todo)) : MemStep(m)
    /\ obs' = [obs EXCEPT !.todo = Tail(@)]
    /\ UNCHANGED <<nodeVars, stream, hook, acked, state, signalled, faults, left>>

SetCanonical ==
    /\ obs.pc = "blocks"
    /\ obs.todo = << >>
    /\ IF IsKnownBitcoinBlockHash(PgStoreRead, obs.tip)
       THEN /\ PgStoreWrite(SetCanonicalBitcoinBlockchain(db, obs.tip))
            /\ MemStep(MemSetCanonicalBitcoinBlockchain(mem, obs.tip))
       ELSE UNCHANGED <<db, mem>>
    /\ obs' = [obs EXCEPT !.pc = "tenure"]
    /\ UNCHANGED <<nodeVars, stream, hook, acked, state, signalled, faults, left>>

\* process_stacks_blocks asks for the current tenure.
GetTenureInfo ==
    /\ obs.pc = "tenure"
    /\ obs' = [obs EXCEPT !.pc = "stacks", !.tenure = Anchor[StxTip], !.staged = {}]
    /\ UNCHANGED <<nodeVars, stream, hook, acked, db, mem, state, signalled, faults, left>>

\* mutant: every tenure is committed when it is fetched
FetchTenureCommitEach ==
    /\ obs.pc = "stacks"
    /\ LET headers == TenureHeaders(obs.tenure)
           done    == \/ BtcHeight[obs.tenure] <= StartHeight
                      \/ \E x \in headers : StacksBlockExists(db, StxParent[x])
       IN  /\ db' = WriteStacksBlockHeaders(db, headers)
           /\ MemStep(MemWriteStacksBlockHeaders(mem, headers))
           /\ obs' = IF done THEN [obs EXCEPT !.pc = "dkg"] ELSE [obs EXCEPT !.tenure = BtcParent[@]]
    /\ UNCHANGED <<nodeVars, stream, hook, acked, state, signalled, faults, left>>

\* One round of update_db_with_unknown_ancestors.  The headers are written in
\* a transaction that is committed when the loop ends: at the Nakamoto start,
\* or at a tenure whose first block has a parent we know.
FetchTenure ==
    /\ obs.pc = "stacks"
    /\ LET headers == TenureHeaders(obs.tenure)
           tx      == [db |-> WriteStacksBlockHeaders(db, obs.staged \cup headers)]
           first   == {x \in headers : \A y \in headers : StxHeight[x] <= StxHeight[y]}
           done    == \/ BtcHeight[obs.tenure] <= StartHeight
                      \/ \E x \in first :
                            StacksBlockExists(PgTransactionRead(tx), StxParent[x])
       IN  IF done
           THEN /\ db' = tx.db
                /\ MemStep(MemWriteStacksBlockHeaders(mem, obs.staged \cup headers))
                /\ obs' = [obs EXCEPT !.pc = "dkg", !.staged = {}]
           ELSE /\ obs' = [obs EXCEPT !.staged = @ \cup headers, !.tenure = BtcParent[@]]
                /\ UNCHANGED <<db, mem>>
    /\ UNCHANGED <<nodeVars, stream, hook, acked, state, signalled, faults, left>>

\* check_pending_dkg_shares: fails, and gives the block up, when the shares
\* are pending and the tip is not stored.
ExpiredShares(d, tip) ==
    {s \in GetLatestEncryptedDkgShares(d) :
        /\ s.status = "unverified"
        /\ s.started_at + VerificationWindow < BtcHeight[tip]}

CheckPendingDkgShares ==
    /\ obs.pc = "dkg"
    /\ IF /\ \E s \in GetLatestEncryptedDkgShares(PgStoreRead) : s.status = "unverified"
          /\ GetBitcoinBlock(PgStoreRead, obs.tip) = {}
       THEN obs' = Idle /\ UNCHANGED <<db, mem>>
       ELSE /\ PgStoreWrite(FoldSet(LAMBDA s, d : RevokeDkgShares(d, s.key), db,
                                 ExpiredShares(PgStoreRead, obs.tip)))
            /\ MemStep(FoldSet(LAMBDA s, m : MemRevokeDkgShares(m, s.key), mem, ExpiredShares(db, obs.tip)))
            /\ obs' = [obs EXCEPT !.pc = "limits"]
    /\ UNCHANGED <<nodeVars, stream, hook, acked, state, signalled, faults, left>>

(***************************************************************************)
(* update_signer_state, one field after the other.                         *)
(***************************************************************************)

UpdateSbtcLimits ==
    /\ obs.pc = "limits"
    /\ state' = [state EXCEPT !.withdrawn_total = ComputeWithdrawnTotal(PgStoreRead, obs.tip, LimitWindow)]
    /\ obs' = [obs EXCEPT !.pc = "signer_set"]
    /\ UNCHANGED <<nodeVars, stream, hook, acked, db, mem, signalled, faults, left>>

\* The registry's data at the Stacks node's tip, kept when it has none.
RegistryKeys ==
    LET events == UNION {{e \in ToSet(StxEvents[x]) : e.topic = "key-rotation"} : x \in StxLine[StxTip]}
    IN  {e.row.key : e \in Highest(events, LAMBDA e : StxHeight[e.row.block])}

SetSignerSetInfo ==
    /\ obs.pc = "signer_set"
    /\ state' = [state EXCEPT !.aggregate_key = IF RegistryKeys = {} THEN @ ELSE RegistryKeys]
    /\ obs' = [obs EXCEPT !.pc = "stacks_tip"]
    /\ UNCHANGED <<nodeVars, stream, hook, acked, db, mem, signalled, faults, left>>

SetStacksChainTip ==
    /\ obs.pc = "stacks_tip"
    /\ IF GetStacksChainTip(PgStoreRead, obs.tip) = {}
       THEN obs' = Idle /\ UNCHANGED state
       ELSE /\ state' = [state EXCEPT !.stacks_chain_tip = GetStacksChainTip(PgStoreRead, obs.tip)]
            /\ obs' = [obs EXCEPT !.pc = "bitcoin_tip"]
    /\ UNCHANGED <<nodeVars, stream, hook, acked, db, mem, signalled, faults, left>>

SetBitcoinChainTip ==
    /\ obs.pc = "bitcoin_tip"
    /\ GetBitcoinBlock(PgStoreRead, obs.tip) # {}
    /\ state' = [state EXCEPT !.bitcoin_chain_tip = GetBitcoinBlock(PgStoreRead, obs.tip)]
    /\ obs' = [obs EXCEPT !.pc = "deposits", !.requests = EmilyDeposits]
    /\ UNCHANGED <<nodeVars, stream, hook, acked, db, mem, signalled, faults, left>>

(***************************************************************************)
(* load_requests: validate each deposit, process blocks up to the one that *)
(* confirms it, then write the transactions, then the requests.            *)
(***************************************************************************)

ConfirmingBlocks(d) == {b \in Canonical : d[1] \in BlockTxs[b]}

\* A deposit that bitcoind has not confirmed is left out.
ValidateDeposit ==
    /\ obs.pc = "deposits"
    /\ obs.requests # << >>
    /\ \/ /\ ConfirmingBlocks(Head(obs.requests)) = {}
          /\ obs' = [obs EXCEPT !.requests = Tail(@)]
       \/ \E b \in ConfirmingBlocks(Head(obs.requests)) :
             obs' = [obs EXCEPT !.pc = "deposit_blocks",
                                !.todo = NextHeadersToProcess(b),
                                !.batch = @ \cup {<<Head(obs.requests), b>>},
                                !.requests = Tail(@)]
    /\ UNCHANGED <<nodeVars, stream, hook, acked, db, mem, state, signalled, faults, left>>

DepositBlocksDone ==
    /\ obs.pc = "deposit_blocks"
    /\ obs.todo = << >>
    /\ obs' = [obs EXCEPT !.pc = "deposits"]
    /\ UNCHANGED <<nodeVars, stream, hook, acked, db, mem, state, signalled, faults, left>>

WriteDepositTxs ==
    /\ obs.pc = "deposits"
    /\ obs.requests = << >>
    /\ LET txs == {<<p[1][1], p[2]>> : p \in obs.batch}
       IN  /\ PgStoreWrite(WriteBitcoinTransactions(db, txs))
           /\ MemStep(MemWriteBitcoinTransactions(mem, txs))
    /\ obs' = [obs EXCEPT !.pc = "deposit_requests"]
    /\ UNCHANGED <<nodeVars, stream, hook, acked, state, signalled, faults, left>>

WriteDeposits ==
    /\ obs.pc = "deposit_requests"
    /\ LET requests == {p[1] : p \in obs.batch}
       IN  /\ PgStoreWrite(WriteDepositRequests(db, requests))
           /\ MemStep(MemWriteDepositRequests(mem, requests))
    /\ obs' = [obs EXCEPT !.pc = "signal"]
    /\ UNCHANGED <<nodeVars, stream, hook, acked, state, signalled, faults, left>>

Signal ==
    /\ obs.pc = "signal"
    /\ signalled' = obs.tip
    /\ obs' = Idle
    /\ UNCHANGED <<nodeVars, stream, hook, acked, db, mem, state, faults, left>>

(***************************************************************************)
(* Where a failed call leaves the loop.                                    *)
(***************************************************************************)
ObserverFault ==
    /\ Spend("faults")
    /\ obs.pc # "idle"
    /\ obs' = CASE obs.pc \in {"headers", "blocks"} ->
                      [Idle EXCEPT !.pc = "tenure", !.tip = obs.tip]
                [] obs.pc \in {"tenure", "stacks"} ->
                      [Idle EXCEPT !.pc = "dkg", !.tip = obs.tip]
                [] obs.pc \in {"deposits", "deposit_blocks", "deposit_requests"} ->
                      [Idle EXCEPT !.pc = "signal", !.tip = obs.tip]
                [] OTHER -> Idle
    /\ faults' = faults + 1
    /\ UNCHANGED <<nodeVars, stream, hook, acked, db, mem, state, signalled>>

(***************************************************************************)
(* new_block_handler.  The node delivers a block's events until it gets a  *)
(* 200, a block after its parent.                                          *)
(***************************************************************************)

NoHook == [block |-> NoBlock, left |-> << >>]

Deliver ==
    /\ Spend("deliver")
    /\ hook = NoHook
    /\ \E x \in stxSeen \ acked :
          /\ StxParent[x] \in StxBlock => StxParent[x] \in acked
          /\ hook' = [block |-> x, left |-> SelectSeq(StxEvents[x], LAMBDA e : e.committed)]
    /\ UNCHANGED <<nodeVars, stream, obs, acked, db, mem, state, signalled, faults>>

HandleEvent(d, e) ==
    CASE e.topic = "completed-deposit"  -> WriteCompletedDepositEvent(d, e.row)
      [] e.topic = "withdrawal-accept"  -> WriteWithdrawalAcceptEvent(d, e.row)
      [] e.topic = "withdrawal-reject"  -> WriteWithdrawalRejectEvent(d, e.row)
      [] e.topic = "withdrawal-create"  -> WriteWithdrawalRequest(d, e.row)
      [] e.topic = "key-rotation"       -> WriteRotateKeysTransaction(d, e.row)
      [] OTHER -> d    \* the value could not be converted: logged

MemHandleEvent(m, e) ==
    CASE e.topic = "completed-deposit"  -> MemWriteCompletedDepositEvent(m, e.row)
      [] e.topic = "withdrawal-accept"  -> MemWriteWithdrawalAcceptEvent(m, e.row)
      [] e.topic = "withdrawal-reject"  -> MemWriteWithdrawalRejectEvent(m, e.row)
      [] e.topic = "withdrawal-create"  -> MemWriteWithdrawalRequest(m, e.row)
      [] e.topic = "key-rotation"       -> MemWriteRotateKeysTransaction(m, e.row)
      [] OTHER -> m

HandleNextEvent ==
    /\ hook.left # << >>
    /\ PgStoreWrite(HandleEvent(db, Head(hook.left)))
    /\ MemStep(MemHandleEvent(mem, Head(hook.left)))
    /\ hook' = [hook EXCEPT !.left = Tail(@)]
    /\ UNCHANGED <<nodeVars, stream, obs, acked, state, signalled, faults, left>>

Answer200 ==
    /\ hook # NoHook
    /\ hook.left = << >>
    /\ acked' = acked \cup {hook.block}
    /\ hook' = NoHook
    /\ UNCHANGED <<nodeVars, stream, obs, db, mem, state, signalled, faults, left>>

\* A failed write of an event is answered 500: the node sends it all again.
Answer500 ==
    /\ Spend("faults")
    /\ hook.left # << >>
    /\ hook' = NoHook
    /\ faults' = faults + 1
    /\ UNCHANGED <<nodeVars, stream, obs, acked, db, mem, state, signalled>>

(***************************************************************************)
(* The other writers of the database, and the process.                     *)
(***************************************************************************)

\* The rows that a DKG run and the decider of requests write.
WriteShares ==
    /\ Spend("shares")
    /\ GetEncryptedDkgShares(db, NewShares.key) = {}
    /\ db' = WriteEncryptedDkgShares(db, NewShares)
    /\ MemStep(MemWriteEncryptedDkgShares(mem, NewShares))
    /\ UNCHANGED <<nodeVars, stream, obs, hook, acked, state, signalled, faults>>

VerifyShares ==
    /\ Spend("shares")
    /\ \E s \in GetEncryptedDkgShares(db, NewShares.key) : s.status = "unverified"
    /\ db' = VerifyDkgShares(db, NewShares.key)
    /\ MemStep(MemVerifyDkgShares(mem, NewShares.key))
    /\ UNCHANGED <<nodeVars, stream, obs, hook, acked, state, signalled, faults>>

Decide ==
    /\ Spend("votes")
    /\ \E tip \in state.bitcoin_chain_tip :
       \E d \in GetPendingDepositRequests(db, tip, ContextWindow, Self) :
       \E can_sign \in CanSignDepositTx(db, d, Self) :
          /\ db' = WriteDepositSignerDecision(db, d, Self, TRUE, can_sign)
          /\ MemStep(MemWriteDepositSignerDecision(mem, d, Self, TRUE, can_sign))
    /\ UNCHANGED <<nodeVars, stream, obs, hook, acked, state, signalled, faults>>

NoState == [ bitcoin_chain_tip |-> {}, stacks_chain_tip |-> {},
             aggregate_key |-> {}, withdrawn_total |-> 0 ]

\* The poller starts again with nothing seen, so the best block is sent anew.
NewStream == [last |-> NoBlock, queue |-> << >>, lagged |-> FALSE]

Crash ==
    /\ Spend("faults")
    /\ obs # Idle \/ hook # NoHook
    /\ obs' = Idle
    /\ hook' = NoHook
    /\ stream' = NewStream
    /\ state' = NoState
    /\ faults' = faults + 1
    /\ UNCHANGED <<nodeVars, acked, db, mem, signalled>>

ObserverStep ==
    \/ Receive \/ FetchHeaders \/ ProcessBitcoinBlock \/ SetCanonical
    \/ GetTenureInfo \/ FetchTenure \/ CheckPendingDkgShares
    \/ UpdateSbtcLimits \/ SetSignerSetInfo \/ SetStacksChainTip \/ SetBitcoinChainTip
    \/ ValidateDeposit \/ DepositBlocksDone \/ WriteDepositTxs \/ WriteDeposits \/ Signal

HookStep == Deliver \/ HandleNextEvent \/ Answer200

Init ==
    /\ best \in {b \in Block : BtcHeight[b] = StartHeight}
    /\ stxSeen = {x \in StxBlock : StxParent[x] \notin StxBlock}
    /\ stream = NewStream
    /\ obs = Idle
    /\ hook = NoHook
    /\ acked = {}
    /\ db = EmptyDb
    /\ mem = EmptyStore
    /\ state = NoState
    /\ signalled = NoBlock
    /\ faults = 0
    /\ left \in Budgets

Next ==
    \/ BitcoinAdvance \/ StacksAdvance \/ Poll
    \/ ObserverStep \/ ObserverFault
    \/ HookStep \/ Answer500
    \/ WriteShares \/ VerifyShares \/ Decide
    \/ Crash

\* The tasks are spawned on the same runtime and each of them loops: a step
\* that stays possible is taken.
Fairness == WF_vars(Poll) /\ WF_vars(ObserverStep) /\ WF_vars(HookStep)

Spec == Init /\ [][Next]_vars /\ Fairness

(***************************************************************************)
(* Properties.                                                             *)
(***************************************************************************)

\* Blocks are written lowest first and one commit at a time, so whatever
\* fails in between, a stored Bitcoin block above the start height has its
\* parent stored: every query that walks the chain sees all of it.
BitcoinAncestorsKnown ==
    \A b \in db.bitcoin_blocks :
        BtcHeight[b] > StartHeight => BtcParent[b] \in db.bitcoin_blocks

\* The backfill stops at the first tenure with a known parent, so it must
\* never leave a gap: a stored Stacks block that is not of the first tenure
\* has its parent stored, whatever failed in the middle of a backfill.
StacksAncestorsKnown ==
    \A x \in db.stacks_blocks :
        BtcHeight[Anchor[x]] > StartHeight => StxParent[x] \in db.stacks_blocks

SignersScripts == {Script[k] : k \in DOMAIN Script}

IsSweep(t) == IsSignerCreated(t, SignersScripts)

\* extract_sbtc_transactions: every sweep of a stored block is recorded as
\* one, with the input it spends and the output it makes, also when it
\* spends an output to a new key made earlier in the same block.
SweepsRecorded ==
    \A b \in db.bitcoin_blocks : \A t \in {u \in BlockTxs[b] : IsSweep(u)} :
        /\ <<t, b>> \in db.bitcoin_transactions
        /\ ToInputs(t, SignersScripts) \subseteq db.bitcoin_tx_inputs
        /\ ToTxOutputs(t, SignersScripts) \subseteq db.bitcoin_tx_outputs
        /\ ToWithdrawalOutputs(t, SignersScripts) \subseteq db.withdrawal_tx_outputs

Marked == {b \in db.bitcoin_blocks : db.is_canonical[b] = "true"}

\* set_canonical_bitcoin_blockchain only rewrites the marks from the last
\* marked ancestor up.  After any reorgs, failures and blocks stored for a
\* deposit, the marked blocks are exactly the chain of one stored block.
CanonicalIsOneChain ==
    Marked # {} => \E b \in Marked : Marked = BitcoinChain(db, b)

\* What the chain says of the signers' output: the first output of the sweep
\* that no other sweep spends, or before the first sweep the largest gift.
Sweeps(tip) == UNION {{t \in BlockTxs[b] : IsSweep(t)} : b \in Line[tip]}

Unspent(tip, o) == \A t \in Sweeps(tip) : TxIns[t][1].txid # o[1] \/ TxIns[t][1].vout # o[2]

SignersUtxo(tip) ==
    LET swept == {<<t, 0>> : t \in Sweeps(tip)}
        gifts == {o \in UNION {{<<t, i - 1>> : i \in DOMAIN TxOuts[t]} :
                                  t \in UNION {BlockTxs[b] : b \in Line[tip]} \ Sweeps(tip)} :
                     TxOuts[o[1]][o[2] + 1].script \in SignersScripts}
        amount(o) == TxOuts[o[1]][o[2] + 1].amount
    IN  IF swept # {} THEN {o \in swept : Unspent(tip, o)}
        ELSE Highest({o \in gifts : Unspent(tip, o)}, amount)

HasKeyOf(o) ==
    \E s \in Shares(db) : Script[s.key] = TxOuts[o[1]][o[2] + 1].script

\* get_signer_utxo looks only a bounded way back, from the highest output on
\* any fork.  For the tip in the signer's state, whatever else is already
\* stored, it finds the output the chain says is the signers', provided the
\* signer has shares of its key.
SignerUtxoIsUnspent ==
    \A tip \in state.bitcoin_chain_tip :
        {<<o.txid, o.index>> : o \in GetSignerUtxo(db, tip)}
            = {o \in SignersUtxo(tip) : HasKeyOf(o)}

\* A stored deposit request has its transaction in a stored block, although
\* blocks, transactions and requests are committed one after the other; the
\* status summary of a deposit relies on it.
DepositsHaveTheirBlock ==
    \A d \in db.deposit_requests : GetDepositRequestLeastHeight(db, d) # {}

\* For the tip in the state, the report on a deposit says confirmed or spent
\* exactly when its transaction is in the chain, provided the transaction was
\* only ever recorded in one block.
ReportFindsTheConfirmation ==
    \A tip \in state.bitcoin_chain_tip : \A d \in db.deposit_requests :
        Cardinality(BlocksWith(db, d[1])) = 1 =>
            \A r \in GetDepositRequestReport(db, tip, d, Self) :
                r.status = "unconfirmed" <=> ~ConfirmedIn(db, d[1], Line[tip])

\* When the observer announces a block, the rest of the signer can rely on
\* its state: the Bitcoin tip is that block, and the Stacks tip is the
\* highest stored block of that Bitcoin chain, whatever was stored of forks.
AnnouncedTipsAgree ==
    obs.pc = "signal" =>
        /\ state.bitcoin_chain_tip = {obs.tip}
        /\ \E x \in state.stacks_chain_tip :
              /\ Anchor[x] \in Line[obs.tip]
              /\ \A y \in db.stacks_blocks : Anchor[y] \in Line[obs.tip] => StxHeight[y] <= StxHeight[x]

RowOf(e, d) ==
    CASE e.topic = "completed-deposit" -> e.row \in d.completed_deposit_events
      [] e.topic = "withdrawal-accept" -> e.row \in d.withdrawal_accept_events
      [] e.topic = "withdrawal-reject" -> e.row \in d.withdrawal_reject_events
      [] e.topic = "withdrawal-create" -> e.row \in d.withdrawal_requests
      [] e.topic = "key-rotation"      -> e.row \in d.rotate_keys_transactions
      [] OTHER -> TRUE

\* The node does not send a block again once it was answered 200, so by then
\* every committed event of the block is stored, through failed writes,
\* repeated deliveries and crashes.
AcknowledgedEventsStored ==
    \A x \in acked : \A e \in ToSet(StxEvents[x]) : e.committed => RowOf(e, db)

\* Tests run on the in-memory store stand for Postgres: after the same
\* calls, on any tip, these queries give the same answer in both, up to the
\* first sweep with a withdrawal, which the in-memory store cannot write.
StoresAgree ==
    ~mem.panicked =>
        /\ \A b \in Block :
              /\ GetBitcoinBlock(db, b) = MemGetBitcoinBlock(mem, b)
              /\ IsKnownBitcoinBlockHash(db, b) = MemIsKnownBitcoinBlockHash(mem, b)
        /\ \A x \in StxBlock :
              /\ GetStacksBlock(db, x) = MemGetStacksBlock(mem, x)
              /\ StacksBlockExists(db, x) = MemStacksBlockExists(mem, x)
        /\ GetBitcoinCanonicalChainTip(db) = MemGetBitcoinCanonicalChainTip(mem)
        /\ GetLatestEncryptedDkgShares(db) = MemGetLatestEncryptedDkgShares(mem)
        /\ GetLatestVerifiedDkgShares(db) = MemGetLatestVerifiedDkgShares(mem)
        /\ GetLatestNonFailedDkgShares(db) = MemGetLatestNonFailedDkgShares(mem)
        /\ GetEncryptedDkgSharesCount(db) = MemGetEncryptedDkgSharesCount(mem)
        /\ \A k \in DOMAIN Script :
              /\ GetEncryptedDkgShares(db, k) = MemGetEncryptedDkgShares(mem, k)
              /\ IsSignerScriptPubKey(db, Script[k]) = MemIsSignerScriptPubKey(mem, Script[k])
        /\ \A tip \in db.bitcoin_blocks :
              /\ GetStacksChainTip(db, tip) = MemGetStacksChainTip(mem, tip)
              /\ GetLastKeyRotation(db, tip) = MemGetLastKeyRotation(mem, tip)
              /\ GetPendingDepositRequests(db, tip, ContextWindow, Self)
                    = MemGetPendingDepositRequests(mem, tip, ContextWindow, Self)
              /\ \A x \in GetStacksChainTip(db, tip) :
                    GetPendingWithdrawalRequests(db, tip, x, ContextWindow, Self)
                        = MemGetPendingWithdrawalRequests(mem, tip, ContextWindow, Self)
              /\ \A b \in Block :
                    InCanonicalBitcoinBlockchain(db, tip, b, BtcHeight[b])
                        = MemInCanonicalBitcoinBlockchain(mem, tip, b, BtcHeight[b])
        /\ \A d \in ToSet(EmilyDeposits) :
              /\ DepositRequestExists(db, d) = MemDepositRequestExists(mem, d)
              /\ GetDepositRequest(db, d) = MemGetDepositRequest(mem, d)
              /\ CanSignDepositTx(db, d, Self) = MemCanSignDepositTx(mem, d, Self)
              /\ GetBitcoinBlocksWithTransaction(db, d[1]) = MemGetBitcoinBlocksWithTransaction(mem, d[1])
              /\ {v.signer : v \in GetDepositSigners(db, d)} = {v.signer : v \in MemGetDepositSigners(mem, d)}

\* Hashes are dropped when the channel is full and best blocks are skipped
\* by the poll, but without failed calls the observer comes to announce
\* bitcoind's best block.
BestBlockIsAnnounced == <>[](faults > 0 \/ signalled = best)

\* What the rest of the signer takes for granted of the database: the chains it
\* walks have no gaps, every sweep and every acknowledged event is there, and
\* the tips that are announced are those of the stored chain.
ChainIsStored ==
    /\ BitcoinAncestorsKnown /\ StacksAncestorsKnown
    /\ SweepsRecorded /\ DepositsHaveTheirBlock
    /\ AnnouncedTipsAgree /\ AcknowledgedEventsStored

\* What the database answers about the chain of a tip is what that chain says,
\* though it holds blocks and sweeps of other forks as well.
AnswersFollowTheChain ==
    CanonicalIsOneChain /\ SignerUtxoIsUnspent /\ ReportFindsTheConfirmation
=============================================================================
