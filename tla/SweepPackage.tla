---------------------------- MODULE SweepPackage ----------------------------
(***************************************************************************)
(* From pending requests to sweep transactions: the filter on amounts and  *)
(* fees, the packaging into transactions, the transactions themselves and  *)
(* the share of the fee of each request (bitcoin/utxo.rs,                  *)
(* bitcoin/packaging.rs, context/signer_state.rs).                         *)
(*                                                                         *)
(* A request is a record: kind, id (the outpoint of a deposit, the request *)
(* id of a withdrawal, ordered as the code orders them), amount, max_fee,  *)
(* weight (of the signed input, of the output), dust (the least amount its *)
(* script may be paid), votes (the signers against it) and presign (the    *)
(* bytes of its id in the pre-sign request).  Sizes are the real ones, in  *)
(* weight units; a fee rate is a whole number of sats per vbyte.           *)
(***************************************************************************)
EXTENDS Idpack

CONSTANTS
    MAX_MONEY,
    SATURATED,                    \* u64::MAX for amounts
    PACKAGE_MAX_VSIZE,
    MAX_PRESIGN_REQUEST_SIZE,
    MAX_MEMPOOL_PACKAGE_TX_COUNT,
    OP_RETURN_MAX_SIZE

NotSet == -1

SumOver(seq, Term(_)) == FoldLeft(LAMBDA acc, x : acc + Term(x), 0, seq)

(***************************************************************************)
(* SbtcLimits.  A limit that is not set is NotSet.                         *)
(***************************************************************************)

UnwrapOr(limit, default) == IF limit = NotSet THEN default ELSE limit

per_deposit_minimum(l) == UnwrapOr(l.per_deposit_minimum, 0)
per_deposit_cap(l) == UnwrapOr(l.per_deposit_cap, MAX_MONEY)
per_withdrawal_cap(l) == UnwrapOr(l.per_withdrawal_cap, MAX_MONEY)
max_mintable_cap(l) == UnwrapOr(l.max_mintable_cap, MAX_MONEY)

\* Half a pair of rolling limits stops all withdrawals.
rolling_withdrawal_limits(l) ==
    [withdrawn_total |-> UnwrapOr(l.withdrawn_total, 0),
     cap |-> IF l.rolling_withdrawal_blocks # NotSet /\ l.rolling_withdrawal_cap # NotSet
             THEN l.rolling_withdrawal_cap
             ELSE IF l.rolling_withdrawal_blocks = NotSet /\ l.rolling_withdrawal_cap = NotSet
             THEN SATURATED ELSE 0]

\* SbtcLimits::zero, what a signer starts with.
ZeroLimits ==
    [per_deposit_minimum |-> MAX_MONEY, per_deposit_cap |-> 0, per_withdrawal_cap |-> 0,
     rolling_withdrawal_blocks |-> 0, rolling_withdrawal_cap |-> 0,
     withdrawn_total |-> SATURATED, max_mintable_cap |-> 0]

SaturatingAdd(a, b) == IF a > SATURATED - b THEN SATURATED ELSE a + b

(***************************************************************************)
(* Fees.                                                                   *)
(***************************************************************************)

SOLO_DEPOSIT_TX_VSIZE == 249
MAX_BASE_TX_VSIZE == 137
DEPOSIT_DUST_LIMIT == 546

NoFees == [total |-> NotSet, vsize |-> 1]

\* A replacement pays the fees of what it replaces and a sat for each of its
\* own vbytes, at a rate that is at least 0.001 sats higher for each sat.
ComputeTransactionFee(vsize, rate, last) ==
    IF last = NoFees THEN vsize * rate
    ELSE Max({last.total + vsize,
              vsize * rate,
              DivCeil(vsize * last.total * 1001, last.vsize * 1000)})

Vsize(r) == DivCeil(r.weight, 4)

(***************************************************************************)
(* RequestPreprocessor.                                                    *)
(***************************************************************************)

ValidateDepositAmount(limits, rate, last, minted, r) ==
    LET minimum_fee == ComputeTransactionFee(SOLO_DEPOSIT_TX_VSIZE, rate, last)
    IN  /\ Min({r.max_fee, r.amount}) >= minimum_fee
        /\ SaturatingSub(r.amount, minimum_fee) >= DEPOSIT_DUST_LIMIT
        /\ r.amount >= per_deposit_minimum(limits)
        /\ r.amount <= per_deposit_cap(limits)
        /\ minted + r.amount <= max_mintable_cap(limits)

\* mutant: the fee is checked without the transaction around the output
ValidateWithdrawalBare(limits, rate, last, withdrawn, r) ==
    /\ SaturatingAdd(withdrawn, r.amount) <= rolling_withdrawal_limits(limits).cap
    /\ r.amount <= per_withdrawal_cap(limits)
    /\ r.dust <= r.amount
    /\ r.max_fee >= ComputeTransactionFee(Vsize(r), rate, last)

ValidateWithdrawalAmounts(limits, rate, last, withdrawn, r) ==
    /\ SaturatingAdd(withdrawn, r.amount) <= rolling_withdrawal_limits(limits).cap
    /\ r.amount <= per_withdrawal_cap(limits)
    /\ r.dust <= r.amount
    /\ r.max_fee >= ComputeTransactionFee(MAX_BASE_TX_VSIZE + Vsize(r), rate, last)

\* Keep the requests that pass, with the running total of what was kept.
Scan(requests, start, Passes(_, _)) ==
    FoldLeft(LAMBDA acc, r :
                 IF Passes(acc.total, r)
                 THEN [total |-> SaturatingAdd(acc.total, r.amount), kept |-> Append(acc.kept, r)]
                 ELSE acc,
             [total |-> start, kept |-> << >>], requests).kept

FilterDeposits(limits, rate, last, deposits) ==
    Scan(deposits, 0, LAMBDA total, r : ValidateDepositAmount(limits, rate, last, total, r))

PreprocessWithdrawals(limits, rate, last, withdrawals) ==
    Scan(SortSeq(withdrawals, LAMBDA a, b : a.id < b.id),
         rolling_withdrawal_limits(limits).withdrawn_total,
         LAMBDA total, r : ValidateWithdrawalAmounts(limits, rate, last, total, r))

(***************************************************************************)
(* Packaging.  A bag is the sequence of its items.                         *)
(***************************************************************************)

OP_RETURN_HEADER_SIZE == 3
OP_RETURN_AVAILABLE_SIZE == OP_RETURN_MAX_SIZE - OP_RETURN_HEADER_SIZE
BAG_OVERHEAD == 4

Items(bag) == {bag[i] : i \in DOMAIN bag}

VotesBitmap(bag) == UNION {r.votes : r \in Items(bag)}

NeedsSignature(r) == r.kind = "deposit"

WithdrawalIds(bag) == {r.id : r \in {q \in Items(bag) : q.kind = "withdrawal"}}

CanAddWithdrawalId(bag, id) ==
    \/ WithdrawalIds(bag) = {}
    \/ id \in WithdrawalIds(bag)
    \/ EstimateSize(SetToSortSeq(WithdrawalIds(bag) \cup {id}, <)).val <= OP_RETURN_AVAILABLE_SIZE

IsCompatible(config, bag, r) ==
    /\ Cardinality(VotesBitmap(bag) \cup r.votes) <= config.max_votes_against
    /\ NeedsSignature(r) => Len(SelectSeq(bag, NeedsSignature)) + 1 <= config.max_signatures
    /\ r.kind = "withdrawal" => CanAddWithdrawalId(bag, r.id)

CompatibilityScore(bag, r) == Cardinality(SymDiff(VotesBitmap(bag), r.votes))

\* The first of the compatible bags with the least score; 0 when there is none.
FindBestBag(config, bags, r) ==
    LET Score(i) == CompatibilityScore(bags[i], r)
        Best(fit) == IF fit = {} THEN 0
                     ELSE Min({i \in fit : \A j \in fit : Score(i) <= Score(j)})
    IN  Best({i \in DOMAIN bags : IsCompatible(config, bags[i], r)})

InsertItem(config, p, r) ==
    LET vsize == p.vsize + Vsize(r)
        Insert(best) ==
            LET presign == p.presign + r.presign + (IF best = 0 THEN BAG_OVERHEAD ELSE 0)
            IN  IF vsize > PACKAGE_MAX_VSIZE \/ presign > MAX_PRESIGN_REQUEST_SIZE THEN p
                ELSE [bags |-> IF best = 0 THEN Append(p.bags, <<r>>)
                               ELSE [p.bags EXCEPT ![best] = Append(@, r)],
                      vsize |-> vsize, presign |-> presign]
    IN  IF Cardinality(r.votes) > config.max_votes_against THEN p
        ELSE Insert(FindBestBag(config, p.bags, r))

ComputeOptimalPackages(items, max_votes_against, max_needs_signature) ==
    LET config == [max_votes_against |-> max_votes_against,
                   max_signatures |-> max_needs_signature]
    IN  FoldLeft(LAMBDA p, r : InsertItem(config, p, r),
                 [bags |-> << >>, vsize |-> 0, presign |-> 0], items).bags

(***************************************************************************)
(* Transactions.  The first input is the signers' UTXO, the others the     *)
(* deposits; the first output is the signers' next UTXO, the second the    *)
(* OP_RETURN, the others the withdrawals.  A transaction is its own id.    *)
(***************************************************************************)

\* Requests::new sorts, so that a set of requests makes one transaction.
NewRequests(refs) ==
    SortSeq(refs, LAMBDA a, b : \/ a.kind = "deposit" /\ b.kind = "withdrawal"
                                \/ a.kind = b.kind /\ a.id < b.id)

DepositsIn(requests) == SelectSeq(requests, LAMBDA r : r.kind = "deposit")
WithdrawalsIn(requests) == SelectSeq(requests, LAMBDA r : r.kind = "withdrawal")

\* An error when the ids do not pack or do not fit.
NewOpReturnOutput(requests) ==
    LET ids == [i \in DOMAIN WithdrawalsIn(requests) |-> WithdrawalsIn(requests)[i].id]
        Output(data) ==
            IF OP_RETURN_HEADER_SIZE + Len(data) > OP_RETURN_MAX_SIZE
            THEN Err("OpReturnSizeLimitExceeded") ELSE Ok(data)
    IN  IF ids = << >> THEN Ok(<< >>)
        ELSE AndThen(Package(ids), LAMBDA segments : Output(Encode(segments)))

\* Version, lock time, counts, segwit marker, the signers' input and output.
BASE_WEIGHT == 4 * (4 + 4 + 1 + 1) + 2 + (4 * 41 + 67) + 4 * 43

\* Value, script length, OP_RETURN, the push and the data.
OpReturnWeight(data) ==
    LET n == OP_RETURN_HEADER_SIZE + Len(data)
    IN  4 * (8 + 1 + 1 + (IF n <= 75 THEN 1 ELSE 2) + n)

RequestWeight(requests) == SumOver(requests, LAMBDA r : r.weight)

ComputeSignerAmount(requests, state) ==
    LET amount == state.utxo.amount + SumOver(DepositsIn(requests), LAMBDA r : r.amount)
                      - SumOver(WithdrawalsIn(requests), LAMBDA r : r.amount)
    IN  IF amount < 0 THEN Err("InvalidAmount") ELSE Ok(amount)

\* UnsignedTransaction::new_stub.
NewTransaction(refs, state) ==
    LET ids(rs) == [i \in DOMAIN rs |-> rs[i].id]
        pays(rs) == [i \in DOMAIN rs |-> [to |-> rs[i].id, value |-> rs[i].amount]]
        VsizeOf(requests, data) ==
            DivCeil(BASE_WEIGHT + OpReturnWeight(data) + RequestWeight(requests), 4)
        Unsigned(requests, amount, data, vsize, fee) ==
            [requests |-> requests,
             tx |-> [spends |-> state.utxo, deposits |-> ids(DepositsIn(requests)),
                     to |-> state.public_key, value |-> SaturatingSub(amount, fee),
                     data |-> data, pays |-> pays(WithdrawalsIn(requests))],
             tx_fee |-> fee,
             tx_vsize |-> vsize]
        Build(requests, amount, data, vsize) ==
            Unsigned(requests, amount, data, vsize,
                     ComputeTransactionFee(vsize, state.fee_rate, state.last_fees))
        Stub(requests) ==
            AndThen(ComputeSignerAmount(requests, state), LAMBDA amount :
                AndThen(NewOpReturnOutput(requests), LAMBDA data :
                    Ok(Build(requests, amount, data, VsizeOf(requests, data)))))
    IN  IF refs = << >> THEN Err("BitcoinNoRequests") ELSE Stub(NewRequests(refs))

NewSignerUtxo(unsigned) ==
    [outpoint |-> <<unsigned.tx, 0>>, amount |-> unsigned.tx.value, public_key |-> unsigned.tx.to]

\* The signature hash of an input commits to the whole transaction, to the
\* outputs that it spends and to the place of the input.
SignerSighash(unsigned) == <<unsigned.tx, 0>>
DepositSighash(unsigned, i) ==
    <<unsigned.tx, i, [j \in DOMAIN DepositsIn(unsigned.requests) |->
                           DepositsIn(unsigned.requests)[j].amount]>>

\* The state that the next transaction of a package starts from: only the
\* first one replaces something in the mempool.
NextState(state, unsigned) ==
    [state EXCEPT !.utxo = NewSignerUtxo(unsigned), !.last_fees = NoFees]

\* The first error is the result.
AppendTransaction(built, unsigned) ==
    IF ~unsigned.ok THEN [built EXCEPT !.error = unsigned.err]
    ELSE [built EXCEPT !.txs = Append(@, unsigned.val), !.state = NextState(@, unsigned.val)]

\* One transaction for each bag, each spending the output of the one before.
TransactionsOf(bags, state) ==
    FoldLeft(LAMBDA built, bag :
                 IF built.error # "none" THEN built
                 ELSE AppendTransaction(built, NewTransaction(bag, built.state)),
             [txs |-> << >>, error |-> "none", state |-> state], bags)

ConstructTransactions(sbtc) ==
    LET state == sbtc.state
        deposits == FilterDeposits(sbtc.limits, state.fee_rate, state.last_fees, sbtc.deposits)
        withdrawals == PreprocessWithdrawals(sbtc.limits, state.fee_rate, state.last_fees,
                                             sbtc.withdrawals)
        FirstFew(bags) == SubSeq(bags, 1, Min({Len(bags), MAX_MEMPOOL_PACKAGE_TX_COUNT}))
    IN  TransactionsOf(FirstFew(ComputeOptimalPackages(
                           deposits \o withdrawals,
                           SaturatingSub(sbtc.num_signers, sbtc.accept_threshold),
                           sbtc.max_deposits)),
                       state)

(***************************************************************************)
(* FeeAssessment: what a request pays of the fee of its transaction.       *)
(***************************************************************************)

AssessFee(unsigned, r) ==
    DivCeil(r.weight * unsigned.tx_fee, RequestWeight(unsigned.requests))
=============================================================================
