-------------------------- MODULE SweepValidation ---------------------------
(***************************************************************************)
(* How a signer judges a proposed package of sweeps                        *)
(* (bitcoin/validation.rs).  The proposal names the requests of each       *)
(* transaction; the signer builds the transactions again from its own      *)
(* records and answers for each signature hash whether it will sign it.    *)
(*                                                                         *)
(* A view is what the signer knows: deposits and withdrawals (from an id   *)
(* to the request and its report), limits, utxo, last_fees, public_key and *)
(* height (of its Bitcoin tip).  A missing vote or status is {}.           *)
(***************************************************************************)
EXTENDS SweepPackage

CONSTANTS
    DEPOSIT_LOCKTIME_BLOCK_BUFFER,
    WITHDRAWAL_MIN_CONFIRMATIONS,
    WITHDRAWAL_BLOCKS_EXPIRY,
    MIN_BITCOIN_FEE_RATE,
    MAX_BITCOIN_FEE_RATE

TxRequestIds(unsigned) ==
    LET ids(rs) == [i \in DOMAIN rs |-> rs[i].id]
    IN  [deposits |-> ids(DepositsIn(unsigned.requests)),
         withdrawals |-> ids(WithdrawalsIn(unsigned.requests))]

IsUnique(package) ==
    LET Distinct(ids) == \A i, j \in DOMAIN ids : i # j => ids[i] # ids[j]
    IN  /\ Distinct(FlattenSeq([i \in DOMAIN package |-> package[i].deposits]))
        /\ Distinct(FlattenSeq([i \in DOMAIN package |-> package[i].withdrawals]))

PreValidation(request) ==
    LET no_requests == \E i \in DOMAIN request.package :
            request.package[i].deposits = << >> /\ request.package[i].withdrawals = << >>
    IN  IF no_requests \/ request.package = << >> THEN Err("PreSignContainsNoRequests")
        ELSE IF ~IsUnique(request.package) THEN Err("DuplicateRequests")
        ELSE IF request.fee_rate \notin MIN_BITCOIN_FEE_RATE..MAX_BITCOIN_FEE_RATE
        THEN Err("PreSignInvalidFeeRate")
        ELSE Ok(request.package)

\* The reports of the whole package, or an error when one is missing.
FetchAllReports(view, package) ==
    LET deposits == UNION {Range(package[i].deposits) : i \in DOMAIN package}
        withdrawals == UNION {Range(package[i].withdrawals) : i \in DOMAIN package}
    IN  IF deposits \subseteq DOMAIN view.deposits /\ withdrawals \subseteq DOMAIN view.withdrawals
        THEN Ok([deposits |-> [d \in deposits |-> view.deposits[d]],
                 withdrawals |-> [w \in withdrawals |-> view.withdrawals[w]]])
        ELSE Err("Unknown")

AssertRequestAmountLimits(cache, limits) ==
    LET total(reports) == MapThenSumSet(LAMBDA i : reports[i].request.amount, DOMAIN reports)
        rolling == rolling_withdrawal_limits(limits)
    IN  /\ cache.deposits # << >> => total(cache.deposits) <= max_mintable_cap(limits)
        /\ cache.withdrawals # << >> =>
              SaturatingAdd(rolling.withdrawn_total, total(cache.withdrawals)) <= rolling.cap

(***************************************************************************)
(* One request.                                                            *)
(***************************************************************************)

MaxAge(r) == SaturatingSub(r.lock_time, DEPOSIT_LOCKTIME_BLOCK_BUFFER)

\* DepositRequestReport::validate, in the order of the code's checks.
ValidateDeposit(r, report, height, unsigned, limits) ==
    LET fee == AssessFee(unsigned, r)
    IN  IF report.status = "unconfirmed" THEN "TxNotOnBestChain"
        ELSE IF report.status = "spent" THEN "DepositUtxoSpent"
        ELSE IF r.amount < per_deposit_minimum(limits) THEN "AmountTooLow"
        ELSE IF r.amount > per_deposit_cap(limits) THEN "AmountTooHigh"
        ELSE IF SaturatingSub(height, report.height) >= MaxAge(r) THEN "LockTimeExpiry"
        ELSE IF fee > Min({r.max_fee, r.amount}) THEN "FeeTooHigh"
        ELSE IF SaturatingSub(r.amount, fee) < DEPOSIT_DUST_LIMIT THEN "MintAmountBelowDustLimit"
        ELSE IF report.can_accept = {} THEN "NoVote"
        ELSE IF report.can_accept = {FALSE} THEN "RejectedRequest"
        ELSE IF report.can_sign = {FALSE} THEN "CannotSignUtxo"
        ELSE IF report.can_sign = {} THEN "NoVote"
        ELSE IF report.dkg_status = {"unverified"} THEN "DkgSharesUnverified"
        ELSE IF report.dkg_status = {"failed"} THEN "DkgSharesVerifyFailed"
        ELSE IF report.dkg_status = {} THEN "CannotSignUtxo"
        ELSE "Ok"

\* WithdrawalRequestReport::validate.
ValidateWithdrawal(r, report, height, unsigned, limits) ==
    LET block_wait == SaturatingSub(height, report.height)
    IN  IF report.status = "unconfirmed" THEN "TxNotOnBestChain"
        ELSE IF report.status = "fulfilled" THEN "RequestFulfilled"
        ELSE IF report.is_accepted = {} THEN "NoVote"
        ELSE IF report.is_accepted = {FALSE} THEN "RequestRejected"
        ELSE IF r.amount > per_withdrawal_cap(limits) THEN "AmountTooHigh"
        ELSE IF r.amount < r.dust THEN "AmountIsDust"
        ELSE IF block_wait < WITHDRAWAL_MIN_CONFIRMATIONS THEN "RequestNotFinal"
        ELSE IF block_wait > WITHDRAWAL_BLOCKS_EXPIRY THEN "RequestExpired"
        ELSE IF AssessFee(unsigned, r) > r.max_fee THEN "FeeTooHigh"
        ELSE "Ok"

(***************************************************************************)
(* The package.                                                            *)
(***************************************************************************)

\* construct_tx_sighashes: the transaction of one element of the package.
ConstructTxSighashes(cache, requests, state) ==
    LET deposits == [i \in DOMAIN requests.deposits |->
                        cache.deposits[requests.deposits[i]].request]
        withdrawals == [i \in DOMAIN requests.withdrawals |->
                           cache.withdrawals[requests.withdrawals[i]].request]
    IN  NewTransaction(deposits \o withdrawals, state)

\* construct_package_sighashes.  The signers' UTXO and the fees to be bumped
\* are the signer's own, the fee rate the coordinator's.
ConstructPackageSighashes(view, request) ==
    LET state == [utxo |-> view.utxo, fee_rate |-> request.fee_rate,
                  public_key |-> view.public_key, last_fees |-> view.last_fees]
        Built(cache) ==
            FoldLeft(LAMBDA built, requests :
                         IF built.error # "none" THEN built
                         ELSE AppendTransaction(built,
                                  ConstructTxSighashes(cache, requests, built.state)),
                     [txs |-> << >>, error |-> "none", state |-> state], request.package)
        Result(built) == IF built.error # "none" THEN Err(built.error) ELSE Ok(built.txs)
    IN  AndThen(PreValidation(request), LAMBDA package :
            AndThen(FetchAllReports(view, package), LAMBDA cache :
                IF ~AssertRequestAmountLimits(cache, view.limits) THEN Err("ExceedsLimits")
                ELSE Result(Built(cache))))

\* The report is looked up by the id of the request in the transaction.
DepositResult(view, unsigned, i) ==
    LET d == unsigned.tx.deposits[i]
    IN  IF d \notin DOMAIN view.deposits THEN "Unknown"
        ELSE ValidateDeposit(view.deposits[d].request, view.deposits[d].report, view.height,
                             unsigned, view.limits)

WithdrawalResult(view, unsigned, i) ==
    LET w == unsigned.tx.pays[i].to
    IN  IF w \notin DOMAIN view.withdrawals THEN "Unknown"
        ELSE ValidateWithdrawal(view.withdrawals[w].request, view.withdrawals[w].report, view.height,
                                unsigned, view.limits)

\* A deposit that this signer cannot sign for does not spoil the others.
IsValidTx(view, unsigned) ==
    /\ unsigned.requests # << >>
    /\ \A i \in DOMAIN unsigned.tx.deposits :
          DepositResult(view, unsigned, i) \in
              {"Ok", "CannotSignUtxo", "DkgSharesUnverified", "DkgSharesVerifyFailed"}
    /\ \A i \in DOMAIN unsigned.tx.pays : WithdrawalResult(view, unsigned, i) = "Ok"

ToInputRows(view, unsigned) ==
    LET valid == IsValidTx(view, unsigned)
    IN  {[sighash |-> SignerSighash(unsigned), input |-> 0, will_sign |-> valid]}
            \cup {[sighash |-> DepositSighash(unsigned, i), input |-> i,
                   will_sign |-> valid /\ DepositResult(view, unsigned, i) = "Ok"] :
                     i \in DOMAIN unsigned.tx.deposits}

ToWithdrawalRows(view, unsigned) ==
    LET valid == IsValidTx(view, unsigned)
    IN  {[txid |-> unsigned.tx, index |-> i + 1, request |-> unsigned.tx.pays[i].to,
          validation_result |-> WithdrawalResult(view, unsigned, i),
          is_valid_tx |-> valid] : i \in DOMAIN unsigned.tx.pays}

(***************************************************************************)
(* What a package promises.  `sbtc` is what the coordinator starts from,   *)
(* `txs` the package it constructs, and a signer's view holds the same     *)
(* records: it voted against the requests that count it among their votes. *)
(***************************************************************************)

ViewOf(sbtc, signer) ==
    LET Entries(rs, Report(_)) ==
            [id \in {rs[i].id : i \in DOMAIN rs} |->
                LET r == rs[CHOOSE i \in DOMAIN rs : rs[i].id = id]
                IN  [request |-> r, report |-> Report(r)]]
    IN  [deposits |-> Entries(sbtc.deposits, LAMBDA r :
                          [status |-> "confirmed", height |-> 0,
                           can_accept |-> {signer \notin r.votes}, can_sign |-> {TRUE},
                           dkg_status |-> {"verified"}]),
         withdrawals |-> Entries(sbtc.withdrawals, LAMBDA r :
                             [status |-> "confirmed", height |-> 0,
                              is_accepted |-> {signer \notin r.votes}]),
         limits |-> sbtc.limits, utxo |-> sbtc.state.utxo, last_fees |-> sbtc.state.last_fees,
         public_key |-> sbtc.state.public_key, height |-> WITHDRAWAL_MIN_CONFIRMATIONS]

PreSignRequest(sbtc, txs) ==
    [package |-> [i \in DOMAIN txs |-> TxRequestIds(txs[i])], fee_rate |-> sbtc.state.fee_rate]

\* A package respects what bounds it: in each transaction the signers that
\* rejected some request leave a quorum, the deposits can be signed within a
\* block and the ids fit in the OP_RETURN output; all of it is within what a
\* node relays and a gossip message holds.
PackageWithinBounds(sbtc, txs) ==
    LET all == FlattenSeq([i \in DOMAIN txs |-> txs[i].requests])
    IN  /\ \A i \in DOMAIN txs :
              /\ sbtc.num_signers - Cardinality(VotesBitmap(txs[i].requests)) >= sbtc.accept_threshold
              /\ Len(DepositsIn(txs[i].requests)) <= sbtc.max_deposits
              /\ OP_RETURN_HEADER_SIZE + Len(txs[i].tx.data) <= OP_RETURN_MAX_SIZE
        /\ Len(txs) <= MAX_MEMPOOL_PACKAGE_TX_COUNT
        /\ SumOver(all, Vsize) <= PACKAGE_MAX_VSIZE
        /\ SumOver(all, LAMBDA r : r.presign) + BAG_OVERHEAD * Len(txs) <= MAX_PRESIGN_REQUEST_SIZE

\* Every signer that has the coordinator's records builds the very
\* transactions that the coordinator is going to ask signatures for.
SignersBuildTheSame(sbtc, txs, signers) ==
    txs # << >> => \A s \in signers :
        ConstructPackageSighashes(ViewOf(sbtc, s), PreSignRequest(sbtc, txs)) = Ok(txs)

\* A quorum will sign every input of every transaction of the package: what
\* the coordinator filters by is enough for what the signers validate,
\* shares of the fee and limits on the sums included.
QuorumSignsPackage(sbtc, txs, signers) ==
    \A i \in DOMAIN txs :
        \A p \in 0..Len(txs[i].tx.deposits) :
            Cardinality({s \in signers :
                /\ ConstructPackageSighashes(ViewOf(sbtc, s), PreSignRequest(sbtc, txs)).ok
                /\ \E row \in ToInputRows(ViewOf(sbtc, s), txs[i]) : row.input = p /\ row.will_sign})
            >= sbtc.accept_threshold

\* The signers' output after a sweep covers what it held before, plus what
\* the deposits mint, less what the withdrawals release: the users' shares
\* of the fee pay for all of it.
SweepKeepsBacking(sbtc, txs) ==
    \A i \in DOMAIN txs :
        LET Fee(r) == AssessFee(txs[i], r)
        IN  txs[i].tx.value >=
                txs[i].tx.spends.amount
                    + SumOver(DepositsIn(txs[i].requests), LAMBDA r : r.amount - Fee(r))
                    - SumOver(WithdrawalsIn(txs[i].requests), LAMBDA r : r.amount + Fee(r))

\* The first transaction can take the place of the sweeps in the mempool:
\* it pays more than they do, by a sat for each of its vbytes, and at a
\* higher rate.
ReplacesTheMempool(sbtc, txs) ==
    LET last == sbtc.state.last_fees
    IN  txs # << >> /\ last # NoFees =>
            /\ txs[1].tx_fee >= last.total + txs[1].tx_vsize
            /\ txs[1].tx_fee * last.vsize > last.total * txs[1].tx_vsize
=============================================================================
