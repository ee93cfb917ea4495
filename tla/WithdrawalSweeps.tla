-------------------------- MODULE WithdrawalSweeps --------------------------
(***************************************************************************)
(* Withdrawal requests from their creation on Stacks to their payment by a *)
(* sweep transaction on Bitcoin or their rejection on Stacks, across       *)
(* Bitcoin reorgs, replaced sweeps and lost messages.                      *)
(*                                                                         *)
(* A tenure: the coordinator of the chain tip proposes a package of sweep  *)
(* transactions, the first spending the signers' UTXO and each other one   *)
(* the output of the one before (BitcoinPreSignRequest).  A signer that    *)
(* gets the proposal records it in two tables, the sighashes and the       *)
(* withdrawal outputs, and acknowledges it.  With enough acknowledgements  *)
(* the transactions are signed in turn and broadcast.  A signed            *)
(* transaction may be mined at any later time, on any fork on which its    *)
(* input is unspent, or never.  A request that was not paid in time is     *)
(* rejected by a Stacks transaction, which each signer signs only when its *)
(* own tables say that no sweep paying the request can be mined any more.  *)
(*                                                                         *)
(* A Bitcoin block carries the state at that block of the signers' UTXO    *)
(* and of the sbtc-registry contract on the Stacks fork it anchors.        *)
(***************************************************************************)
EXTENDS Integers, Sequences, FiniteSets

CONSTANTS
    Signers,
    Threshold,                    \* bootstrap_signatures_required
    WITHDRAWAL_MIN_CONFIRMATIONS,
    WITHDRAWAL_BLOCKS_EXPIRY,
    WITHDRAWAL_EXPIRY_BUFFER,
    Worlds,       \* the conditions under which the system may have to run
    MaxHeight,    \* bound: length of a chain
    MaxRequests,  \* bound: withdrawal requests created, on all forks
    MaxTxs        \* bound: sweep transactions proposed

ASSUME SignersAssumption ==
    /\ IsFiniteSet(Signers)
    /\ Threshold \in Nat
    /\ 2 * Threshold > Cardinality(Signers)

\* reorg: bound on the blocks that a reorg drops; lossy: a proposal may miss
\* some of the signers; failures: bound on the signers whose second write fails,
\* of a proposal; package: bound on the transactions of a package; height,
\* requests, txs: bounds on the behaviours in this world.
ASSUME WorldsAssumption ==
    Worlds \subseteq [reorg : Nat, lossy : BOOLEAN, failures : Nat, package : Nat,
                      height : 1 .. MaxHeight, requests : 0 .. MaxRequests,
                      txs : 0 .. MaxTxs]

ASSUME BoundsAssumption ==
    /\ WITHDRAWAL_MIN_CONFIRMATIONS \in Nat
    /\ WITHDRAWAL_BLOCKS_EXPIRY \in Nat
    /\ WITHDRAWAL_EXPIRY_BUFFER \in Nat
    /\ MaxHeight \in Nat
    /\ MaxRequests \in Nat
    /\ MaxTxs \in Nat

\* A request waits out every reorg before it is swept, and expires later still.
ASSUME ReorgsAssumption ==
    /\ \A w \in Worlds : w.reorg <= WITHDRAWAL_MIN_CONFIRMATIONS
    /\ WITHDRAWAL_MIN_CONFIRMATIONS <= WITHDRAWAL_BLOCKS_EXPIRY

VARIABLES
    world,      \* the conditions, the same throughout a behaviour
    chain,      \* the canonical Bitcoin chain
    pending,    \* blocks of a new fork still to come before it is seen
    requests,   \* withdrawal requests, on any fork
    txs,        \* sweep transactions proposed so far
    sighashes,  \* sighashes[s]: bitcoin_tx_sighashes rows of signer s
    will_sign,  \* will_sign[s]: those of them that s will sign
    outputs,    \* outputs[s][t]: chain tip height of the
                \* bitcoin_withdrawals_outputs rows of t at s; 0 if none
    round,      \* the proposal of this tenure
    signed,     \* transactions that carry the signers' signatures
    rejects     \* requests with a signed reject-withdrawal-request call

vars == <<world, chain, pending, requests, txs, sighashes, will_sign, outputs, round,
          signed, rejects>>

-----------------------------------------------------------------------------
(* Data.                                                                   *)

TxIds == 1 .. MaxTxs
RequestIds == 1 .. MaxRequests

\* The output that the sweep t leaves to the signers is named t; 0 is the
\* donation they started from.
Outputs == 0 .. MaxTxs

\* A request is known by its place in requests (the QualifiedRequestId); id
\* is its number in the contract, height that of its anchor block.
Request == [id : RequestIds, height : 1 .. MaxHeight]

\* in: the output spent as first input; pays: the requests it pays;
\* line: this sweep and all those it descends from.
Tx == [in : Outputs, pays : SUBSET RequestIds, line : SUBSET TxIds]

\* utxo and sweeps: the signers' output, and the sweeps confirmed, at this
\* block; created[i]: the request with number i on this fork (0 if none);
\* accepted, rejected: the withdrawal-status of the numbers.
Block == [utxo : Outputs, sweeps : SUBSET TxIds,
          created : [RequestIds -> 0 .. MaxRequests],
          accepted : SUBSET RequestIds, rejected : SUBSET RequestIds]

Round == [left : Seq(TxIds), acks : SUBSET Signers]
NoRound == [left |-> <<>>, acks |-> {}]

Genesis == [utxo |-> 0, sweeps |-> {}, created |-> [i \in RequestIds |-> 0],
            accepted |-> {}, rejected |-> {}]

Height == Len(chain)
Tip == chain[Height]

Line(o) == IF o = 0 THEN {} ELSE txs[o].line

\* The contract numbers that the sweep t pays.
PaysIds(t) == {requests[q].id : q \in txs[t].pays}

-----------------------------------------------------------------------------
(* What a signer reads from its database.                                  *)

\* The request is in a block of the canonical Stacks chain.
Confirmed(q) == Tip.created[requests[q].id] = q

\* A sweep that pays the number of the request is on the canonical chain.
Swept(q) == \E t \in Tip.sweeps : requests[q].id \in PaysIds(t)

is_withdrawal_completed(q) ==
    requests[q].id \in Tip.accepted \cup Tip.rejected

\* mutant: only proposals that spend the signers' UTXO are looked at
is_withdrawal_inflight_direct(s, q) ==
    \E t \in sighashes[s] :
        /\ outputs[s][t] # 0
        /\ q \in txs[t].pays
        /\ txs[t].in = Tip.utxo

\* Some sweep of the proposals recorded by s, starting from the signers'
\* UTXO and following recorded inputs, pays the request.
is_withdrawal_inflight(s, q) ==
    \E t \in sighashes[s] :
        /\ outputs[s][t] # 0
        /\ q \in txs[t].pays
        /\ Tip.utxo \in Line(t) \cup {0}
        /\ Line(t) \ Line(Tip.utxo) \subseteq sighashes[s]

\* The heights from min on whose block confirmed a sweep.
TxoHeights(min) ==
    {h \in 2 .. Height : h >= min /\ chain[h].utxo # chain[h - 1].utxo}

\* mutant: the sweep need not be buried
is_withdrawal_active_unburied(s, q) ==
    LET considered == {outputs[s][t] : t \in {u \in 1 .. Len(txs) :
                          outputs[s][u] # 0 /\ q \in txs[u].pays}}
    IN  \E h \in considered :
            /\ \A g \in considered : g <= h
            /\ TxoHeights(h + 1) = {}

\* The last time s recorded a proposal for the request, no sweep followed
\* that is buried under enough blocks.
is_withdrawal_active(s, q) ==
    LET considered == {outputs[s][t] : t \in {u \in 1 .. Len(txs) :
                          outputs[s][u] # 0 /\ q \in txs[u].pays}}
    IN  \E h \in considered :
            /\ \A g \in considered : g <= h
            /\ \A g \in TxoHeights(h + 1) :
                   Height - g <= WITHDRAWAL_MIN_CONFIRMATIONS

-----------------------------------------------------------------------------
(* Proposing and signing sweeps.                                           *)

\* Bitcoin blocks on top of the anchor block of the request.
BlocksObserved(q) == Height - requests[q].height

\* The requests that the coordinator's database offers for a sweep.
PendingAccepted(q) ==
    /\ Confirmed(q)
    /\ ~Swept(q)
    /\ requests[q].id \notin Tip.rejected
    /\ requests[q].height >= Height - WITHDRAWAL_BLOCKS_EXPIRY

\* Those it puts into sweeps: final enough, and not about to expire.
Eligible(q) ==
    /\ PendingAccepted(q)
    /\ BlocksObserved(q) >= WITHDRAWAL_MIN_CONFIRMATIONS
    /\ BlocksObserved(q) <= WITHDRAWAL_BLOCKS_EXPIRY - WITHDRAWAL_EXPIRY_BUFFER

\* What a signer requires of a withdrawal in a proposed sweep.
Validates(q) ==
    /\ Confirmed(q)
    /\ ~Swept(q)
    /\ BlocksObserved(q) >= WITHDRAWAL_MIN_CONFIRMATIONS
    /\ BlocksObserved(q) <= WITHDRAWAL_BLOCKS_EXPIRY

\* The transactions of a package, from the requests that each one pays: the
\* first spends the signers' UTXO, each other one the output of the last.
Package(pays) ==
    [i \in 1 .. Len(pays) |->
        [in   |-> IF i = 1 THEN Tip.utxo ELSE Len(txs) + i - 1,
         pays |-> pays[i],
         line |-> Line(Tip.utxo) \cup (Len(txs) + 1 .. Len(txs) + i)]]

\* What the coordinator may propose: each request is paid by one sweep.
Proposable(pays) ==
    /\ \A i \in 1 .. Len(pays) : \A q \in pays[i] : Eligible(q)
    /\ \A i, j \in 1 .. Len(pays) :
           i # j => \A q \in pays[i], r \in pays[j] :
                        requests[q].id # requests[r].id

\* A package is proposed once a tenure: the coordinator chooses what its
\* sweeps pay, each signer of recorders stores it in both tables and
\* acknowledges, each one of halfway stores the sighashes and then fails.
Presign(pays, recorders, halfway) ==
    LET new == Len(txs) + 1 .. Len(txs) + Len(pays)
        all == txs \o Package(pays)
        valid == {t \in new : \A q \in all[t].pays : Validates(q)}
    IN  /\ pending = 0
        /\ round = NoRound
        /\ Len(txs) + Len(pays) <= world.txs
        /\ Proposable(pays)
        /\ recorders \cap halfway = {}
        /\ Cardinality(halfway) <= world.failures
        /\ world.lossy \/ recorders \cup halfway = Signers
        /\ txs' = all
        /\ sighashes' = [s \in Signers |->
               sighashes[s] \cup (IF s \in recorders \cup halfway THEN new ELSE {})]
        /\ will_sign' = [s \in Signers |->
               will_sign[s] \cup (IF s \in recorders \cup halfway THEN valid ELSE {})]
        /\ outputs' = [s \in Signers |-> [t \in TxIds |->
               IF s \in recorders /\ t \in new /\ all[t].pays # {}
               THEN Height ELSE outputs[s][t]]]
        /\ round' = [left |-> [i \in 1 .. Len(pays) |-> Len(txs) + i],
                     acks |-> recorders]
        /\ UNCHANGED <<world, chain, pending, requests, signed, rejects>>

\* With enough acknowledgements the next transaction of the package gets the
\* signatures of a quorum that recorded it as valid.
SignSweep ==
    /\ pending = 0
    /\ round.left # <<>>
    /\ Cardinality(round.acks) >= Threshold
    /\ Cardinality({s \in Signers : Head(round.left) \in will_sign[s]}) >= Threshold
    /\ signed' = signed \cup {Head(round.left)}
    /\ round' = [round EXCEPT !.left = Tail(round.left)]
    /\ UNCHANGED <<world, chain, pending, requests, txs, sighashes, will_sign, outputs,
                   rejects>>

\* A later coordinator proposes the very transaction t again: the rows that
\* a signer holds already are kept as they are.
PresignAgain(t, recorders) ==
    /\ pending = 0
    /\ round = NoRound
    /\ t \in 1 .. Len(txs)
    /\ txs[t].in = Tip.utxo
    /\ \A q \in txs[t].pays : Eligible(q)
    /\ world.lossy \/ recorders = Signers
    /\ sighashes' = [s \in Signers |->
           sighashes[s] \cup (IF s \in recorders THEN {t} ELSE {})]
    /\ will_sign' = [s \in Signers |->
           will_sign[s] \cup
               (IF s \in recorders /\ t \notin sighashes[s]
                   /\ \A q \in txs[t].pays : Validates(q)
                THEN {t} ELSE {})]
    /\ outputs' = [s \in Signers |->
           IF s \in recorders /\ outputs[s][t] = 0 /\ txs[t].pays # {}
           THEN [outputs[s] EXCEPT ![t] = Height] ELSE outputs[s]]
    /\ round' = [left |-> <<t>>, acks |-> recorders]
    /\ UNCHANGED <<world, chain, pending, requests, txs, signed, rejects>>

-----------------------------------------------------------------------------
(* Bitcoin.                                                                *)

\* Signed sweeps lead from the signers' UTXO to the output o.
Minable(o) ==
    /\ Tip.utxo \in Line(o) \cup {0}
    /\ Line(o) \ Line(Tip.utxo) \subseteq signed

\* The next block confirms the signed sweeps on the way to the output o.
MineBlock(o) ==
    /\ Height < world.height
    /\ Minable(o)
    /\ chain' = Append(chain, [Tip EXCEPT !.utxo = o, !.sweeps = Line(o)])
    /\ pending' = IF pending = 0 THEN 0 ELSE pending - 1
    /\ round' = NoRound
    /\ UNCHANGED <<world, requests, txs, sighashes, will_sign, outputs, signed, rejects>>

\* A longer fork that lacks the last k blocks becomes canonical; the signers
\* act again when all of its blocks are there.
Reorg(k) ==
    /\ pending = 0
    /\ k < Height
    /\ Height < world.height
    /\ chain' = SubSeq(chain, 1, Height - k)
    /\ pending' = k + 1
    /\ round' = NoRound
    /\ UNCHANGED <<world, requests, txs, sighashes, will_sign, outputs, signed, rejects>>

-----------------------------------------------------------------------------
(* Stacks, on the fork anchored to the canonical chain.                    *)

\* A user creates a withdrawal request.
initiate_withdrawal_request ==
    LET q == Len(requests) + 1
        i == Cardinality({j \in RequestIds : Tip.created[j] # 0}) + 1
    IN  /\ pending = 0
        /\ q <= world.requests
        /\ requests' = Append(requests, [id |-> i, height |-> Height])
        /\ chain' = [chain EXCEPT ![Height] =
                        [Tip EXCEPT !.created = [Tip.created EXCEPT ![i] = q]]]
        /\ UNCHANGED <<world, pending, txs, sighashes, will_sign, outputs, round, signed,
                       rejects>>

\* The swept requests that the coordinator reports to the contract.
SweptRequest(q) ==
    /\ Confirmed(q)
    /\ \E t \in Tip.sweeps : requests[q].id \in PaysIds(t)
    /\ requests[q].id \notin Tip.accepted

\* AcceptWithdrawalV1::validate: the contract has no decision, and an output
\* of the sweep pays the recipient and the amount of this very request.
ValidatesAccept(q) ==
    /\ ~is_withdrawal_completed(q)
    /\ \E t \in Tip.sweeps : q \in txs[t].pays

\* The signers sign and submit the call, and the contract executes it while
\* the block of the sweep is canonical.
accept_withdrawal_request(q) ==
    /\ pending = 0
    /\ SweptRequest(q)
    /\ ValidatesAccept(q)
    /\ chain' = [chain EXCEPT ![Height] =
                    [Tip EXCEPT !.accepted = Tip.accepted \cup {requests[q].id}]]
    /\ UNCHANGED <<world, pending, requests, txs, sighashes, will_sign, outputs, round,
                   signed, rejects>>

\* The expired requests that the coordinator takes up for rejection.
PendingRejected(q) ==
    /\ Confirmed(q)
    /\ requests[q].height < Height - WITHDRAWAL_BLOCKS_EXPIRY
    /\ ~Swept(q)
    /\ requests[q].id \notin Tip.rejected

\* RejectWithdrawalV1::validate at the signer s.
ValidatesReject(s, q) ==
    /\ ~is_withdrawal_completed(q)
    /\ Confirmed(q)
    /\ ~Swept(q)
    /\ BlocksObserved(q) > WITHDRAWAL_BLOCKS_EXPIRY
    /\ ~is_withdrawal_inflight(s, q)
    /\ ~is_withdrawal_active(s, q)

\* The coordinator, whose own tables must allow it, gets the signatures of a
\* quorum for the reject call.
SignReject(q) ==
    /\ pending = 0
    /\ PendingRejected(q)
    /\ Cardinality({s \in Signers : ValidatesReject(s, q)}) >= Threshold
    /\ rejects' = rejects \cup {q}
    /\ UNCHANGED <<world, chain, pending, requests, txs, sighashes, will_sign, outputs,
                   round, signed>>

\* The signed call is mined, on this fork or again on a later one: it names
\* the number of the request and no Bitcoin block.
reject_withdrawal_request(q) ==
    /\ pending = 0
    /\ Tip.created[requests[q].id] # 0
    /\ ~is_withdrawal_completed(q)
    /\ chain' = [chain EXCEPT ![Height] =
                    [Tip EXCEPT !.rejected = Tip.rejected \cup {requests[q].id}]]
    /\ UNCHANGED <<world, pending, requests, txs, sighashes, will_sign, outputs, round,
                   signed, rejects>>

-----------------------------------------------------------------------------
(* The specification.                                                      *)

Init ==
    /\ world \in Worlds
    /\ chain = <<Genesis>>
    /\ pending = 0
    /\ requests = <<>>
    /\ txs = <<>>
    /\ sighashes = [s \in Signers |-> {}]
    /\ will_sign = [s \in Signers |-> {}]
    /\ outputs = [s \in Signers |-> [t \in TxIds |-> 0]]
    /\ round = NoRound
    /\ signed = {}
    /\ rejects = {}

Packages == UNION {[1 .. n -> SUBSET (1 .. Len(requests))] : n \in 1 .. world.package}

Next ==
    \/ \E pays \in Packages, recorders, halfway \in SUBSET Signers :
           Presign(pays, recorders, halfway)
    \/ \E t \in TxIds, recorders \in SUBSET Signers : PresignAgain(t, recorders)
    \/ SignSweep
    \/ \E o \in {Tip.utxo} \cup signed : MineBlock(o)
    \/ \E k \in 1 .. world.reorg : Reorg(k)
    \/ initiate_withdrawal_request
    \/ \E q \in 1 .. Len(requests) : accept_withdrawal_request(q) \/ SignReject(q)
    \/ \E q \in rejects : reject_withdrawal_request(q)

Spec == Init /\ [][Next]_vars

-----------------------------------------------------------------------------
(* Properties.                                                             *)

\* No two sweeps on the canonical chain pay the same withdrawal request,
\* whatever was proposed, replaced, dropped by a reorg and mined again.
NeverPaidTwice ==
    \A t, u \in Tip.sweeps : t # u => PaysIds(t) \cap PaysIds(u) = {}

\* A request that the contract has rejected (its sBTC were given back) is
\* not paid on Bitcoin, and one that was paid is not rejected.
NeverPaidAndRejected ==
    \A t \in Tip.sweeps : PaysIds(t) \cap Tip.rejected = {}

\* At the height at which some signer recorded the sweep t this chain had not
\* confirmed all that t descends from: t came later in its package, or a reorg
\* has moved one of its ancestors to a later block.
AheadOfItsInput(t) ==
    \E s \in Signers, u \in Line(t) \ {t} :
        outputs[s][t] \in 1 .. Height /\ u \notin chain[outputs[s][t]].sweeps

\* The same where it holds: without reorgs always, whoever misses a proposal,
\* and with reorgs for sweeps that spent a confirmed output when they were
\* proposed.  Of the others is_withdrawal_active may take the confirmation of an
\* ancestor for that of a conflicting sweep.
PaidOrRejected ==
    \A t \in Tip.sweeps :
        PaysIds(t) \cap Tip.rejected # {} => world.reorg > 0 /\ AheadOfItsInput(t)

\* When a quorum signs the rejection of a request, no signed sweep that pays
\* it can be mined on top of the chain they see.
RejectsOnlyTheUnpayable ==
    [][\A q \in rejects' \ rejects : \A t \in signed :
           q \in txs[t].pays => ~Minable(t)]_vars

\* Every payment on the canonical Bitcoin chain is to a request that exists
\* on the canonical Stacks chain: the confirmations that a request needs
\* before it is swept outlast a reorg.
PaymentsHaveRequests ==
    \A t \in Tip.sweeps : \A q \in txs[t].pays : Confirmed(q)

\* A request that the contract marks accepted (its sBTC were burned) has been
\* paid by a sweep on the canonical chain, and is not marked rejected.
AcceptedIsPaid ==
    /\ \A i \in Tip.accepted :
           \E t \in Tip.sweeps : Tip.created[i] \in txs[t].pays
    /\ Tip.accepted \cap Tip.rejected = {}

\* What Bitcoin pays is what the contract owes: each request once, only requests
\* that exist, the accepted ones and no rejected one.
PaymentsMatchDecisions ==
    NeverPaidTwice /\ PaidOrRejected /\ PaymentsHaveRequests /\ AcceptedIsPaid
=============================================================================
