---------------------------- MODULE DepositSweeps ----------------------------
(***************************************************************************)
(* A deposit from its confirmation to the mint: the signers vote on it     *)
(* (request_decider.rs) and exchange their votes, a coordinator packages   *)
(* what enough of them accepted, asks for validation and for signatures    *)
(* and broadcasts the sweep (transaction_coordinator.rs,                   *)
(* transaction_signer.rs), and a later coordinator asks for the            *)
(* complete-deposit call that mints (stacks/contracts.rs).                 *)
(*                                                                         *)
(* Every signer has a database of its own (SignerDb), on which the real    *)
(* queries run (SignerDbReads); packages and their validation are those of *)
(* SweepValidation.  Bitcoin and Stacks are external: a tree of blocks     *)
(* whose miner takes any sweeps that are valid there, one mempool for each *)
(* signer's node, and a contract that executes a submitted call in the     *)
(* tenure of the current tip.  All signers observe a block in one step;    *)
(* how one observes it is the subject of BlockObserver.                    *)
(***************************************************************************)
EXTENDS SignerDbReads, SweepValidation

CONSTANTS
    Signer,
    Threshold,      \* bootstrap_signatures_required
    Coordinator,    \* Bitcoin block -> the signer that coordinates its tenure
    Genesis,        \* the block that has the signers' first UTXO
    Deposit,        \* ids, in the order of the outpoints
    Outpoint,       \* id -> <<txid, 0>>
    Amount,
    MaxFee,
    DepositWeight,
    DepositBlocks,  \* id -> the blocks whose miner includes the deposit
    Key,            \* the signers' aggregate key
    GiftOutpoint,
    GiftAmount,
    Window,         \* context_window
    RetryWindow,    \* deposit_decisions_retry_window
    MaxDeposits,    \* max_deposits_per_bitcoin_tx
    Limits,
    Worlds          \* what differs from one behaviour to another:
                    \*   blocks   the Bitcoin blocks that will be mined
                    \*   rates    the fee rates that estimates give
                    \*   shares   signer -> status of its DKG shares
                    \*   blocked  <<signer, deposit>> that a blocklist refuses
                    \*   unaware  <<signer, deposit>> that Emily did not show
                    \*   lossy    blocks in whose tenure messages get lost
                    \*   flaky    signers whose blocklist client may fail then
                    \*   split    whether mempools may differ
                    \*   late     signers whose decider may run at any time;
                    \*            the others' run first, one after the other
                    \*   cut      blocks whose tenure may be cut short, by a
                    \*            time-out or by the next block
                    \*   slow     blocks after which sweeps and calls may stay
                    \*            in the mempools

ASSUME ThresholdAssumption == Threshold \in Nat \ {0}
ASSUME SignerAssumption == IsFiniteSet(Signer)
ASSUME OutpointAssumption == \A d, e \in Deposit : Outpoint[d] = Outpoint[e] => d = e
ASSUME GenesisAssumption == Genesis \in Block
ASSUME HeightAssumption ==
    \A b \in Block : /\ BtcHeight[b] \in Nat
                     /\ BtcParent[b] \in Block => BtcHeight[b] = BtcHeight[BtcParent[b]] + 1

VARIABLES
    world,
    tip,        \* the canonical Bitcoin tip, which all signers have observed
    mined,      \* block -> the sweeps in it
    pool,       \* signer -> the sweeps in its node's mempool
    db,         \* signer -> its database
    decided,    \* signer -> the tip for which its request decider has run
    presigned,  \* signer -> last_presign_block
    tenure,     \* what the coordinator of the tip has left to do
    round,      \* the package that it is working on
    responded,  \* the deposits it has asked complete-deposit signatures for
    stxPool,    \* complete-deposit calls in the Stacks mempool
    minted      \* executed calls, with the Bitcoin block of their tenure

chainVars == <<tip, mined, pool>>
tenureVars == <<tenure, round, responded>>
depositVars == <<world, tip, mined, pool, db, decided, presigned, tenure, round, responded,
          stxPool, minted>>

Seen == db[CHOOSE s \in Signer : TRUE].bitcoin_blocks

\* `held` is what the coordinator's node held when the fees were chosen, with
\* the sweeps broadcast since.
NoRound == [txs |-> << >>, next |-> 1, fee_rate |-> 0, acks |-> {}, held |-> {}]

\* The signers that vote before anything else happens in the tenure.
Awaited == {s \in Signer \ world.late : decided[s] # tip}

Prompt == world.late = {} /\ world.cut = {} /\ world.slow = {}

IdOf(outpoint) == CHOOSE d \in Deposit : Outpoint[d] = outpoint

(***************************************************************************)
(* Bitcoin.                                                                *)
(***************************************************************************)

OnChain(b) == UNION {mined[c] : c \in Line[b]}

Inputs(u) == {u.tx.spends.outpoint} \cup {Outpoint[d] : d \in Range(u.tx.deposits)}

Conflict(u, v) == u # v /\ Inputs(u) \cap Inputs(v) # {}

DepositsOn(b) == {d \in Deposit : DepositBlocks[d] \cap Line[b] # {}}

\* The sweeps S can follow the sweeps `past` on the chain of block b.
Valid(S, past, b) ==
    \A u \in S :
        /\ \A v \in (S \cup past) : ~Conflict(u, v)
        /\ \/ u.tx.spends.outpoint = GiftOutpoint
           \/ \E v \in S \cup past : u.tx.spends.outpoint = <<v.tx, 0>>
        /\ Range(u.tx.deposits) \subseteq DepositsOn(b)

\* Those of S that a node keeps when its tip becomes b: confirmed sweeps
\* leave, and so do conflicting ones and what descends from them.
Keep(S, past, b) ==
    LET rest == S \ past
        good[n \in 0..Cardinality(rest)] ==
            IF n = 0 THEN {}
            ELSE good[n - 1] \cup {u \in rest : Valid({u}, past \cup good[n - 1], b)}
    IN  {u \in rest : \E n \in 0..Cardinality(rest) : u \in good[n]}

\* R and the sweeps of S that descend from it.
Descendants(S, R) ==
    LET below[n \in 0..Cardinality(S)] ==
            IF n = 0 THEN R
            ELSE below[n - 1] \cup {v \in S : \E w \in below[n - 1] :
                                                  v.tx.spends.outpoint = <<w.tx, 0>>}
    IN  below[Cardinality(S)]

\* A node that takes u drops what u conflicts with, and its descendants.
Evicted(S, u) == Descendants(S, {v \in S : Conflict(u, v)})

TotalFee(S) == MapThenSumSet(LAMBDA u : u.tx_fee, S)
TotalVsize(S) == MapThenSumSet(LAMBDA u : u.tx_vsize, S)

\* Replace by fee: more than what is evicted, by a sat per vbyte.
Accepts(S, u) ==
    Evicted(S, u) # {} => u.tx_fee >= TotalFee(Evicted(S, u)) + u.tx_vsize

\* assess_mempool_sweep_transaction_fees: the sweep in the mempool that
\* spends the UTXO and pays the most, with its descendants.
LastFees(S, utxo) ==
    LET roots == {u \in S : u.tx.spends.outpoint = utxo.outpoint}
        root == CHOOSE u \in roots : \A v \in roots : v.tx_fee <= u.tx_fee
        package == Descendants(S, {root})
    IN  IF roots = {} THEN NoFees
        ELSE [total |-> TotalFee(package), vsize |-> TotalVsize(package)]

(***************************************************************************)
(* A signer's view.                                                        *)
(***************************************************************************)

\* SignerVotes as a bitmap: a missing vote is a vote against.
VotesAgainst(votes) == {v.signer : v \in {w \in votes : w.is_accepted # {TRUE}}}

\* utxo::DepositRequest::from_model.
DepositRequest(d, votes) ==
    [kind |-> "deposit", id |-> d, amount |-> Amount[d], max_fee |-> MaxFee[d],
     weight |-> DepositWeight, dust |-> 0, votes |-> votes, presign |-> 40,
     lock_time |-> LockTime[Outpoint[d]]]

SignerUtxos(s) ==
    {[outpoint |-> <<o.txid, o.index>>, amount |-> o.amount, public_key |-> Key] :
        o \in GetSignerUtxo(db[s], tip)}

\* get_pending_requests: SbtcRequests of the coordinator.  Only deposits.
GetEligiblePendingDepositRequests(s) ==
    LET ids == {IdOf(o) : o \in GetPendingAcceptedDepositRequests(db[s], tip, Window, Threshold)}
    IN  [i \in 1..Cardinality(ids) |->
            LET d == SetToSortSeq(ids, <)[i]
            IN  DepositRequest(d, VotesAgainst(GetDepositRequestSignerVotes(db[s], Outpoint[d], Key)))]

SbtcRequests(s, utxo, rate) ==
    [deposits |-> GetEligiblePendingDepositRequests(s), withdrawals |-> << >>,
     limits |-> Limits, num_signers |-> Cardinality(Signer), accept_threshold |-> Threshold,
     max_deposits |-> MaxDeposits,
     state |-> [utxo |-> utxo, fee_rate |-> rate, public_key |-> Key,
                last_fees |-> LastFees(pool[s], utxo)]]

\* A choice of one member of each of the sets.
Selections(sets) ==
    {f \in [DOMAIN sets -> UNION Range(sets)] : \A i \in DOMAIN sets : f[i] \in sets[i]}

\* What the signer validates a package against, with these reports.
ViewOn(s, reports, utxo) ==
    LET votes(d) == VotesAgainst(GetDepositRequestSignerVotes(db[s], Outpoint[d], Key))
    IN  [deposits |-> [d \in DOMAIN reports |->
                          [request |-> DepositRequest(d, votes(d)), report |-> reports[d]]],
         withdrawals |-> << >>, limits |-> Limits, utxo |-> utxo,
         last_fees |-> LastFees(pool[s], utxo), public_key |-> Key, height |-> BtcHeight[tip]]

\* The deposits that the signer has a report on.
Reported(s) == {d \in Deposit : GetDepositRequestReport(db[s], tip, Outpoint[d], s) # {}}

\* One view for each answer that the signer's queries may give.
Views(s) ==
    {ViewOn(s, reports, utxo) :
        reports \in Selections([d \in Reported(s) |->
                                   GetDepositRequestReport(db[s], tip, Outpoint[d], s)]),
        utxo \in SignerUtxos(s)}

(***************************************************************************)
(* New blocks.                                                             *)
(***************************************************************************)

\* The transactions in the new blocks that matter: deposits and sweeps.
ConfirmedTxs(new, sweeps) ==
    (UNION {{<<Outpoint[d][1], c>> : c \in DepositBlocks[d] \cap new} : d \in Deposit})
        \cup (UNION {{<<u.tx, c>> : u \in sweeps[c]} : c \in new})

\* The signers' output of each of the sweeps.
SweepOutputs(swept) ==
    {[txid |-> u.tx, index |-> 0, script |-> Script[Key], amount |-> u.tx.value,
      type |-> "signers_output"] : u \in swept}

\* What the sweeps spend.
SweepPrevouts(swept) ==
    UNION {{[txid |-> u.tx, prevout |-> o,
             type |-> IF o = u.tx.spends.outpoint THEN "signers_input" ELSE "deposit"] :
                o \in Inputs(u)} : u \in swept}

\* A signer to which Emily did not show a deposit has no request for it.
RequestsFor(s, new) ==
    {Outpoint[d] : d \in {e \in Deposit : DepositBlocks[e] \cap new # {} /\ <<s, e>> \notin world.unaware}}

\* What a signer's block observer writes for the new blocks on the way to b.
Observe(s, store, new, sweeps) ==
    LET swept == UNION {sweeps[c] : c \in new}
        blocks == WriteStacksBlockHeaders(WriteBitcoinBlocks(store, new), new)
        written == WriteTxPrevouts(WriteTxOutputs(blocks, SweepOutputs(swept)), SweepPrevouts(swept))
    IN  WriteDepositRequests(WriteBitcoinTransactions(written, ConfirmedTxs(new, sweeps)),
                             RequestsFor(s, new))

\* A block becomes the tip, directly on the old one or at the end of a longer
\* branch, of which only the last block has sweeps.  Nodes put the sweeps of
\* the blocks that left the chain back into their mempools.
NewBlock(b) ==
    LET new == Line[b] \ Seen
        waiting == UNION {pool[s] : s \in Signer}
        past == UNION {mined[c] : c \in Line[b]}
        left == OnChain(tip) \ past
    IN  /\ b \in world.blocks \ Seen
        /\ BtcHeight[b] = BtcHeight[tip] + 1
        /\ tip # Genesis => Awaited = {}
        /\ tenure = "done" \/ tip \in world.cut
        /\ stxPool = {} \/ tip \in world.slow
        /\ \E in \in SUBSET (waiting \cup left) :
              /\ Valid(in, past, b)
              /\ tip \notin world.slow => in = Keep(pool[Coordinator[tip]], past, b)
              /\ mined' = [mined EXCEPT ![b] = in]
              /\ pool' = [s \in Signer |->
                    LET kept == Keep(pool[s], past \cup in, b)
                    IN  kept \cup Keep({u \in left : \A v \in kept : ~Conflict(u, v)},
                                       past \cup in \cup kept, b)]
              /\ db' = [s \in Signer |-> Observe(s, db[s], new, mined')]
        /\ tip' = b
        /\ tenure' = "sweep"
        /\ round' = NoRound
        /\ responded' = {}
        /\ UNCHANGED <<world, decided, presigned, stxPool, minted>>

\* Nodes exchange the transactions in their mempools: the fees decide.
Propagate ==
    /\ \E best \in Signer :
          /\ \A r \in Signer : TotalFee(pool[r]) <= TotalFee(pool[best])
          /\ \E s \in Signer : pool[s] # pool[best]
          /\ pool' = [s \in Signer |-> pool[best]]
    /\ UNCHANGED <<world, tip, mined, db, decided, presigned, tenureVars, stxPool, minted>>

(***************************************************************************)
(* Votes.                                                                  *)
(***************************************************************************)

\* mutant: an address of the blocklist is no reason to refuse
HandlePendingWithoutBlocklist(s, store, pending) ==
    WriteDepositSignerDecisions(store,
        {[outpoint |-> o, signer |-> s, can_accept |-> TRUE,
          can_sign |-> CanSignDepositTx(store, o, s) = {TRUE},
          known |-> store.bitcoin_blocks] : o \in pending})

\* handle_pending_deposit_request, for each of the pending requests.
HandlePendingDepositRequests(s, store, pending) ==
    WriteDepositSignerDecisions(store,
        {[outpoint |-> o, signer |-> s, can_accept |-> <<s, IdOf(o)>> \notin world.blocked,
          can_sign |-> CanSignDepositTx(store, o, s) = {TRUE},
          known |-> store.bitcoin_blocks] : o \in pending})

\* persist_received_deposit_decision, for each of the votes: a receiver that
\* does not know the deposit first loads it from Emily.
PersistReceivedDepositDecisions(store, votes) ==
    WriteDepositSignerDecisions(
        WriteDepositRequests(store, {v.outpoint : v \in votes}),
        {[outpoint |-> v.outpoint, signer |-> v.signer, can_accept |-> v.can_accept,
          can_sign |-> v.can_sign, known |-> store.bitcoin_blocks] : v \in votes})

\* The votes that a signer sends: its recent ones again, and the new ones.
DecisionsToSend(s, mine, pending) ==
    GetDepositSignerDecisions(db[s], tip, RetryWindow, s)
        \cup {v \in mine.deposit_signers : v.signer = s /\ v.outpoint \in pending}

\* The databases after the signer has voted and some have heard of it.
Voted(s, mine, pending, heard) ==
    [r \in Signer |->
        IF r = s THEN mine
        ELSE IF r \in heard
        THEN PersistReceivedDepositDecisions(db[r], DecisionsToSend(s, mine, pending))
        ELSE db[r]]

\* handle_new_requests: recent votes are sent again, then each new request
\* is voted on.  The votes reach all the other signers or none; when the
\* blocklist client fails there is no vote until the next block.
HandleNewRequests(s) ==
    /\ tip # Genesis
    /\ decided[s] # tip
    /\ s \notin world.late => s = CHOOSE r \in Awaited : TRUE
    /\ \E heard \in IF tip \in world.lossy THEN {{}, Signer \ {s}} ELSE {Signer \ {s}},
          skip \in IF s \in world.flaky /\ tip \in world.lossy THEN BOOLEAN ELSE {FALSE} :
          LET pending == IF skip THEN {} ELSE GetPendingDepositRequests(db[s], tip, Window, s)
          IN  db' = Voted(s, HandlePendingDepositRequests(s, db[s], pending), pending, heard)
    /\ decided' = [decided EXCEPT ![s] = tip]
    /\ UNCHANGED <<world, chainVars, presigned, tenureVars, stxPool, minted>>

(***************************************************************************)
(* The sweeps.                                                             *)
(***************************************************************************)

\* construct_and_sign_bitcoin_sbtc_transactions up to the pre-sign request.
\* When no request can pay the fee, a lower one is tried once.
ConstructPackage ==
    LET c == Coordinator[tip]
        Build(utxo, rate) == ConstructTransactions(SbtcRequests(c, utxo, rate))
        RateFor(utxo, rate, lower) ==
            IF lower < rate /\ Build(utxo, rate).txs = << >> THEN lower ELSE rate
        Propose(package, rate) ==
            IF package.error # "none" \/ package.txs = << >>
            THEN tenure' = "respond" /\ UNCHANGED round
            ELSE /\ round' = [NoRound EXCEPT !.txs = package.txs, !.fee_rate = rate,
                                            !.held = pool[c]]
                 /\ UNCHANGED tenure
        ProposeAt(utxo, rate) == Propose(Build(utxo, rate), rate)
    IN  /\ tenure = "sweep"
        /\ round = NoRound
        /\ Awaited = {}
        /\ IF GetEligiblePendingDepositRequests(c) = << >> \/ SignerUtxos(c) = {}
           THEN tenure' = "respond" /\ UNCHANGED round
           ELSE \E utxo \in SignerUtxos(c), rate, lower \in world.rates :
                   ProposeAt(utxo, RateFor(utxo, rate, lower))
        /\ UNCHANGED <<world, chainVars, db, decided, presigned, responded, stxPool, minted>>

PreSignRequestOf(r) ==
    [package |-> [i \in DOMAIN r.txs |-> TxRequestIds(r.txs[i])], fee_rate |-> r.fee_rate]

\* handle_bitcoin_pre_sign_request: the databases in which it leaves the
\* signer, and whether it sends an acknowledgement.
HandleBitcoinPreSignRequest(s) ==
    LET failed == {[db |-> db[s], ack |-> FALSE]}
        Decisions(view, txs) == UNION {ToInputRows(view, u) : u \in Range(txs)}
        Answer(view, package) ==
            IF ~package.ok THEN failed
            ELSE {[db |-> WriteBitcoinTxsSighashes(db[s], Decisions(view, package.val)), ack |-> TRUE]}
        Answers(views) ==
            IF GetLatestVerifiedDkgShares(db[s]) = {} \/ views = {} THEN failed
            ELSE UNION {Answer(view, ConstructPackageSighashes(view, PreSignRequestOf(round))) :
                            view \in views}
    IN  Answers(Views(s))

\* The pre-sign request reaches signers that have not had one for this tip;
\* they do not look at another one until the next, whatever comes of it.
PreSign ==
    /\ tenure = "sweep"
    /\ round # NoRound
    /\ \E heard \in IF tip \in world.lossy THEN {Signer} \cup {Signer \ {s} : s \in Signer}
                    ELSE {Signer} :
          LET fresh == {s \in heard : presigned[s] # tip}
          IN  /\ fresh # {}
              /\ presigned' = [s \in Signer |-> IF s \in fresh THEN tip ELSE presigned[s]]
              /\ \E after \in Selections([s \in fresh |-> HandleBitcoinPreSignRequest(s)]) :
                    /\ db' = [s \in Signer |-> IF s \in fresh THEN after[s].db ELSE db[s]]
                    /\ round' = [round EXCEPT !.acks = @ \cup {s \in fresh : after[s].ack}]
    /\ UNCHANGED <<world, chainVars, decided, tenure, responded, stxPool, minted>>

\* The signers whose database says that they sign the given input.
Signing(hash) == {s \in Signer : WillSignBitcoinTxSighash(db[s], hash) = {TRUE}}

\* What a node sees of a sweep: the votes are not part of it.
Transaction(u) ==
    [requests |-> [i \in DOMAIN u.requests |-> [u.requests[i] EXCEPT !.votes = {}]],
     tx |-> u.tx, tx_fee |-> u.tx_fee, tx_vsize |-> u.tx_vsize]

\* A quorum signs every input of the sweep.
QuorumSigns(u) ==
    /\ Cardinality(Signing(SignerSighash(u))) >= Threshold
    /\ \A p \in DOMAIN u.tx.deposits :
          Cardinality(Signing(DepositSighash(u, p))) >= Threshold

CanSign ==
    /\ Cardinality(round.acks) >= Threshold
    /\ round.next <= Len(round.txs)
    /\ QuorumSigns(round.txs[round.next])

\* sign_and_broadcast for the next transaction of the package: a signing
\* round for each input, then the broadcast.
SignAndBroadcast ==
    LET c == Coordinator[tip]
        u == round.txs[round.next]
        t == Transaction(u)
        Take(S) == (S \ Evicted(S, t)) \cup {t}
    IN  /\ tenure = "sweep"
        /\ CanSign
        /\ IF Accepts(pool[c], t)
           THEN /\ \E reached \in IF world.split THEN {Signer, {c}} ELSE {Signer} :
                      pool' = [s \in Signer |-> IF s \in reached /\ Accepts(pool[s], t)
                                                THEN Take(pool[s]) ELSE pool[s]]
                /\ round' = [round EXCEPT !.next = @ + 1, !.held = pool'[c]]
                /\ tenure' = IF round.next = Len(round.txs) THEN "respond" ELSE "sweep"
           ELSE tenure' = "respond" /\ UNCHANGED <<pool, round>>
        /\ UNCHANGED <<world, tip, mined, db, decided, presigned, responded, stxPool, minted>>

\* The pre-sign request or a signing round times out: the rest of the
\* package is given up.
TimeOut ==
    /\ tenure = "sweep"
    /\ round # NoRound
    /\ tip \in world.cut \/ (~CanSign /\ \A s \in Signer : presigned[s] = tip)
    /\ tenure' = "respond"
    /\ UNCHANGED <<world, chainVars, db, decided, presigned, round, responded, stxPool, minted>>
(***************************************************************************)
(* The mint.                                                               *)
(***************************************************************************)

\* The contract's get-deposit-status at the current tip.
IsDepositCompleted(d) == \E m \in minted : m.deposit = d /\ m.at \in Line[tip]

\* The rows of get_swept_deposit_requests: a sweep and the block it is in.
SweptDepositRequests(s) ==
    {r \in [deposit : Deposit, sweep : OnChain(tip), block : BitcoinBlockchainOf(db[s], tip, Window)] :
        /\ Outpoint[r.deposit] \in GetSweptDepositRequests(db[s], tip, tip, Window)
        /\ r.sweep \in mined[r.block]
        /\ r.deposit \in Range(r.sweep.tx.deposits)}

\* mutant: the signers' input takes a share too
AssessInputFeeShared(u, d) ==
    (AssessFee(u, DepositRequest(d, {})) * Len(u.requests)) \div (Len(u.requests) + 1)

\* BitcoinTxInfo::assess_input_fee for the deposit's input of the sweep.
AssessInputFee(u, d) == AssessFee(u, DepositRequest(d, {}))

\* construct_deposit_stacks_sign_request.
CompleteDepositV1(r) ==
    [deposit |-> r.deposit, amount |-> Amount[r.deposit] - AssessInputFee(r.sweep, r.deposit),
     sweep |-> r.sweep, block |-> r.block]

\* CompleteDepositV1::validate_sweep_tx.
ValidateSweepTx(s, call) ==
    /\ call.sweep \in mined[call.block]
    /\ InCanonicalBitcoinBlockchain(db[s], tip, call.block, BtcHeight[call.block])
    /\ call.deposit \in Range(call.sweep.tx.deposits)
    /\ IsSignerScriptPubKey(db[s], Script[call.sweep.tx.spends.public_key])

\* CompleteDepositV1::validate_vars.
ValidateVars(s, call, fee) ==
    /\ GetDepositRequest(db[s], Outpoint[call.deposit]) # {}
    /\ call.amount >= DEPOSIT_DUST_LIMIT
    /\ call.amount = Amount[call.deposit] - fee
    /\ fee <= MaxFee[call.deposit]

ValidateCompleteDeposit(s, call) ==
    /\ ~IsDepositCompleted(call.deposit)
    /\ ValidateSweepTx(s, call)
    /\ ValidateVars(s, call, AssessInputFee(call.sweep, call.deposit))

\* construct_and_sign_stacks_deposit_response_transactions for one deposit:
\* enough signers sign the call and it is submitted, or it is skipped.
RespondToDeposit ==
    LET c == Coordinator[tip]
    IN  /\ tenure = "respond"
        /\ \E r \in SweptDepositRequests(c) :
              LET call == CompleteDepositV1(r)
                  signers == {s \in Signer : ValidateCompleteDeposit(s, call)}
              IN  /\ r.deposit \notin responded
                  /\ ~IsDepositCompleted(r.deposit)
                  /\ responded' = responded \cup {r.deposit}
                  /\ stxPool' = IF Cardinality(signers) >= Threshold
                                THEN stxPool \cup {call} ELSE stxPool
        /\ UNCHANGED <<world, chainVars, db, decided, presigned, tenure, round, minted>>

EndTenure ==
    /\ tenure = "respond"
    /\ tip \in world.cut \/ \A r \in SweptDepositRequests(Coordinator[tip]) :
                              r.deposit \in responded \/ IsDepositCompleted(r.deposit)
    /\ tenure' = "done"
    /\ UNCHANGED <<world, chainVars, db, decided, presigned, round, responded, stxPool, minted>>

\* mutant: the burn hash of the call is not compared with the chain's
CompleteDepositOnAnyFork(call) ==
    call.amount >= DEPOSIT_DUST_LIMIT /\ ~IsDepositCompleted(call.deposit)

\* complete-deposit-wrapper.
CompleteDepositWrapper(call) ==
    /\ call.amount >= DEPOSIT_DUST_LIMIT
    /\ ~IsDepositCompleted(call.deposit)
    /\ call.block \in Line[tip]

\* A Stacks miner executes a call of its mempool in the tenure of the tip;
\* a call that fails changes nothing and is gone.  The signers' nodes
\* announce the event of a successful one, unless the webhook is lost.
ExecuteCall ==
    /\ \E call \in stxPool :
          /\ stxPool' = stxPool \ {call}
          /\ IF CompleteDepositWrapper(call)
             THEN /\ minted' = minted \cup {[deposit |-> call.deposit, amount |-> call.amount,
                                             sweep |-> call.sweep, at |-> tip]}
                  /\ \E told \in IF tip \in world.lossy THEN {{}, Signer} ELSE {Signer} :
                        db' = [s \in Signer |->
                            IF s \in told
                            THEN WriteCompletedDepositEvent(db[s],
                                     [outpoint |-> Outpoint[call.deposit], block |-> tip])
                            ELSE db[s]]
             ELSE UNCHANGED <<minted, db>>
    /\ UNCHANGED <<world, chainVars, decided, presigned, tenureVars>>

(***************************************************************************)
(* The specification.                                                      *)
(***************************************************************************)

\* The gift is confirmed in the first block, which every signer has seen.
FirstDb(s, shares) ==
    LET given == WriteTxOutput(
                    WriteBitcoinTransaction(WriteStacksBlock(WriteBitcoinBlock(EmptyDb, Genesis), Genesis),
                                            <<GiftOutpoint[1], Genesis>>),
                    [txid |-> GiftOutpoint[1], index |-> 0, script |-> Script[Key],
                     amount |-> GiftAmount, type |-> "donation"])
    IN  IF shares = "absent" THEN given
        ELSE WriteEncryptedDkgShares(given, [key |-> Key, status |-> shares, signer_set |-> Signer])

DepositsInit ==
    /\ world \in Worlds
    /\ tip = Genesis
    /\ mined = [b \in Block |-> {}]
    /\ pool = [s \in Signer |-> {}]
    /\ db = [s \in Signer |-> FirstDb(s, world.shares[s])]
    /\ decided = [s \in Signer |-> NoBlock]
    /\ presigned = [s \in Signer |-> NoBlock]
    /\ tenure = "done"
    /\ round = NoRound
    /\ responded = {}
    /\ stxPool = {}
    /\ minted = {}

\* The last block has come and nothing waits to be done.
Settled ==
    /\ world.blocks \subseteq Seen
    /\ tenure = "done"
    /\ Awaited = {}
    /\ stxPool = {}

Finished == Settled /\ UNCHANGED depositVars

DepositsNext ==
    \/ \E b \in Block : NewBlock(b)
    \/ Propagate
    \/ \E s \in Signer : HandleNewRequests(s)
    \/ ConstructPackage
    \/ PreSign
    \/ SignAndBroadcast
    \/ TimeOut
    \/ RespondToDeposit
    \/ EndTenure
    \/ ExecuteCall
    \/ Finished

DepositsSpec == DepositsInit /\ [][DepositsNext]_depositVars

(***************************************************************************)
(* Properties.                                                             *)
(***************************************************************************)

AllSweeps == (UNION {pool[s] : s \in Signer}) \cup (UNION {mined[b] : b \in Block})

OwnVote(s, d, accepted) ==
    \E v \in db[s].deposit_signers :
        /\ v.outpoint = Outpoint[d]
        /\ v.signer = s
        /\ accepted = (v.can_accept /\ v.can_sign)

\* Every sweep has a quorum of signers that voted for each of its deposits,
\* each by its own blocklist: neither what a coordinator counts nor what a
\* signer validates is a vote that somebody else cast, or an earlier one.
SweepsHaveConsent ==
    \A u \in AllSweeps : \A d \in Range(u.tx.deposits) :
        Cardinality({s \in Signer : OwnVote(s, d, TRUE) /\ <<s, d>> \notin world.blocked}) >= Threshold

\* A sweep is only broadcast while all of its deposits are confirmed and
\* unspent on the chain of the tip, and far from the block in which the
\* depositor may take them back.
SweptInTimeStep ==
    \A u \in (UNION {pool'[s] : s \in Signer}) \ ((UNION {pool[s] : s \in Signer}) \cup OnChain(tip)) :
        \A d \in Range(u.tx.deposits) :
            /\ \E b \in DepositBlocks[d] \cap Line[tip] :
                  BtcHeight[tip] - BtcHeight[b] < LockTime[Outpoint[d]] - DEPOSIT_LOCKTIME_BLOCK_BUFFER
            /\ \A v \in OnChain(tip) : d \notin Range(v.tx.deposits)

\* Every step sweeps in time.
SweptInTime == [][SweptInTimeStep]_depositVars

\* The node of the coordinator takes every sweep, unless other sweeps reached
\* it after the fees were chosen: what the sweep pays is enough to replace
\* what the node holds, with all that descends from it.
BroadcastIsAccepted ==
    tenure = "sweep" /\ CanSign /\ pool[Coordinator[tip]] = round.held =>
        Accepts(pool[Coordinator[tip]], Transaction(round.txs[round.next]))

MintedOn(b) == {m \in minted : m.at \in Line[b]}

\* On the chain of the tip a deposit is minted once, for its amount less its
\* share of the fee, and its sweep is confirmed on that chain.
MintsAreSwept ==
    \A m \in MintedOn(tip) :
        /\ m.sweep \in OnChain(tip)
        /\ m.deposit \in Range(m.sweep.tx.deposits)
        /\ m.amount = Amount[m.deposit] - AssessInputFee(m.sweep, m.deposit)
        /\ AssessInputFee(m.sweep, m.deposit) <= MaxFee[m.deposit]
        /\ \A n \in MintedOn(tip) : n.deposit = m.deposit => n = m

\* The signers' output on the chain of the tip holds what they were given
\* and all that was minted there.
MintsAreBacked ==
    LET unspent == {u \in OnChain(tip) :
                        \A v \in OnChain(tip) : v.tx.spends.outpoint # <<u.tx, 0>>}
        value == IF unspent = {} THEN GiftAmount ELSE (CHOOSE u \in unspent : TRUE).tx.value
    IN  /\ Cardinality(unspent) <= 1
        /\ value >= GiftAmount + MapThenSumSet(LAMBDA m : m.amount, MintedOn(tip))

\* A refusal is stored for its sighash and is not overwritten: the signer
\* stays out of that same sweep when it is proposed again.
Refused(s, d) ==
    \E r \in db[s].bitcoin_tx_sighashes : ~r.will_sign /\ d \in Range(r.sighash[1].deposits)

\* When tenures end before the next block and messages are lost in some
\* blocks only, a deposit is minted by the time that nothing is left to be
\* done, if a quorum has keys, accepts it and did not refuse a sweep of it
\* before.  No step returns to an earlier state and only a settled state has
\* no further step, so that time comes.
QuorumsAreMinted ==
    Prompt /\ Settled => \A d \in Deposit :
        Cardinality({s \in Signer : /\ world.shares[s] = "verified"
                                    /\ OwnVote(s, d, TRUE)
                                    /\ ~Refused(s, d)}) >= Threshold =>
            \E m \in MintedOn(tip) : m.deposit = d

\* What a quorum accepts is minted: the coordinator's node takes the sweep,
\* and the mint follows by the time that nothing is left to be done.
AcceptedDepositsAreMinted == BroadcastIsAccepted /\ QuorumsAreMinted
=============================================================================
