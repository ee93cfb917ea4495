---------------------------- MODULE MCAlgorithms ----------------------------
(***************************************************************************)
(* The pure algorithms, on enumerated inputs: a behaviour picks an input   *)
(* of one kind and computes its output.                                    *)
(*                                                                         *)
(* The codec of withdrawal ids runs at two scales: with the real 7 bit     *)
(* groups and the ids around its thresholds, and with 2 bit groups in      *)
(* integers of 5 bits, where every limit of the format is near.            *)
(***************************************************************************)
EXTENDS SweepValidation

CONSTANTS Kinds, MaxLength

VARIABLES kind, input, output

algvars == <<kind, input, output>>

Small == INSTANCE Idpack WITH GroupBits <- 2, Width <- 5, AllocBytesLimit <- 11

Msg == INSTANCE MCMessages WITH OffCurve <- {8}, AboveOrder <- {9}

Call == INSTANCE MCContractCalls
          WITH DEPOSIT_DUST_LIMIT <- 5, U16_MAX <- 7, U32_MAX <- 15, U64_MAX <- 63,
               BurnHeader <- <<<<0, 1>>, <<0, 2>>>>

Sorted(S) == SetToSortSeq(S, <)

SmallIds == {Sorted({a, b, c, d}) : a, b, d \in 0..31, c \in {0, 7, 15, 31}}

Landmarks == {0, 1, 8, 9, 17, 18, 25, 41, 127, 129, 137, 300, 430}
RealIds == {Sorted(S) : S \in {T \in SUBSET Landmarks : Cardinality(T) \in 1..5}}

ByteStrings == UNION {[1..n -> 0..7] : n \in 0..MaxLength}

(***************************************************************************)
(* Packages: three signers of which two must agree, up to three deposits   *)
(* in any order and any withdrawals, below, at and over the limits.        *)
(***************************************************************************)
MCSigner == {1, 2, 3}

Deposit(id, amount, max_fee, weight, votes) ==
    [kind |-> "deposit", id |-> id, amount |-> amount, max_fee |-> max_fee, weight |-> weight,
     dust |-> 0, votes |-> votes, presign |-> 40, lock_time |-> 20]
Withdrawal(id, amount, max_fee, weight, votes) ==
    [kind |-> "withdrawal", id |-> id, amount |-> amount, max_fee |-> max_fee,
     weight |-> weight, dust |-> 330, votes |-> votes, presign |-> 90]

DepositPool ==
    {Deposit(1, 6000, 2100, 400, {}), Deposit(2, 5000, 5000, 495, {1}),
     Deposit(3, 2000, 1500, 470, {2}), Deposit(4, 1800, 1800, 400, {1})}
WithdrawalPool ==
    {Withdrawal(1, 3000, 2200, 124, {}), Withdrawal(2, 1000, 900, 172, {2}),
     Withdrawal(2000, 900, 1100, 136, {1}), Withdrawal(9, 400, 300, 128, {1})}

Unlimited ==
    [per_deposit_minimum |-> NotSet, per_deposit_cap |-> NotSet, per_withdrawal_cap |-> NotSet,
     rolling_withdrawal_blocks |-> NotSet, rolling_withdrawal_cap |-> NotSet,
     withdrawn_total |-> NotSet, max_mintable_cap |-> NotSet]
Limits ==
    {Unlimited,
     [Unlimited EXCEPT !.per_deposit_minimum = 1900, !.max_mintable_cap = 8000,
                       !.rolling_withdrawal_blocks = 10, !.rolling_withdrawal_cap = 5000,
                       !.withdrawn_total = 1000],
     [Unlimited EXCEPT !.rolling_withdrawal_blocks = 10, !.per_deposit_cap = 5000],
     ZeroLimits}

Rates == {<<1, NoFees>>, <<4, NoFees>>, <<1, [total |-> 700, vsize |-> 300]>>,
          <<4, [total |-> 1400, vsize |-> 200]>>}

SbtcRequests ==
    {[deposits |-> d, withdrawals |-> SetToSeq(w), limits |-> l,
      num_signers |-> Cardinality(MCSigner), accept_threshold |-> 2, max_deposits |-> 2,
      state |-> [utxo |-> [outpoint |-> << >>, amount |-> 20000, public_key |-> "key"],
                 fee_rate |-> r[1], last_fees |-> r[2], public_key |-> "key"]] :
        d \in UNION {{s \in [1..n -> DepositPool] : Cardinality(Range(s)) = n} : n \in 0..3},
        w \in SUBSET WithdrawalPool, l \in Limits, r \in Rates}

Inputs(k) ==
    CASE k = "small_ids" -> SmallIds [] k = "ids" -> RealIds [] k = "bytes" -> ByteStrings
      [] k = "message" -> {[message |-> m, key |-> x, wire |-> w] :
                               m \in Msg!SignerMessages, x \in {Msg!Key(Msg!A)}, w \in Msg!Wires}
      [] k = "value" -> UNION {{<<t, v>> : v \in Msg!Values[t]} : t \in DOMAIN Msg!Values}
      [] k = "broken" -> Msg!Incomplete \cup Msg!Malformed
      [] k = "request" -> Call!UserRequests({<<n>> : n \in 0..7})
      [] k = "short_request" -> Call!UserRequests({<< >>})
      [] OTHER -> SbtcRequests

-----------------------------------------------------------------------------

NoOutput == << >>

AlgInit ==
    /\ kind \in Kinds
    /\ \/ kind # "call" /\ input \in Inputs(kind)
       \/ kind = "call" /\ \E c \in Call!Calls : input \in Call!Databases(c) \X {c}
    /\ output = NoOutput

Compute(k, out) ==
    /\ kind = k
    /\ output = NoOutput
    /\ output' = <<out>>
    /\ UNCHANGED <<kind, input>>

AlgNext ==
    \/ Compute("small_ids", Small!Encode(Small!Package(input).val))
    \/ Compute("ids", Encode(Package(input).val))
    \/ Compute("bytes", Small!Decode(input))
    \/ Compute("message", Msg!DecodeWithDigest(Msg!OnWire(input.message, input.key, input.wire)))
    \/ Compute("value", Msg!TryConvert(input[1], Msg!Convert(input[1], input[2])))
    \/ Compute("broken", Msg!TryConvert(input[1], input[2]))
    \/ Compute("call", Call!Validate(Call!Db(input), input[2]))
    \/ Compute("request", Call!Recorded(input))
    \/ Compute("short_request", Call!Recorded(input))
    \/ Compute("package", ConstructTransactions(input))

AlgSpec == AlgInit /\ [][AlgNext]_algvars

Done(k) == kind = k /\ output # NoOutput

Txs == output[1].txs
-----------------------------------------------------------------------------

\* The size that the packager budgets a withdrawal id list with is the size
\* that the encoder writes.
SizesAreExact ==
    /\ Done("small_ids") => Small!SizeIsExact(input, output[1])
    /\ Done("ids") => SizeIsExact(input, output[1])

\* The ids that a sweep puts in its OP_RETURN output are the ids that are
\* read back from it, in the same order.
IdsRoundTrip ==
    /\ Done("small_ids") => Small!RoundTrips(input, output[1])
    /\ Done("ids") => RoundTrips(input, output[1])

\* Within an OP_RETURN output of 77 bytes, no other way to cut a list of ids
\* into segments is shorter than the one that the cost rule chooses.
SegmentsAreShortest ==
    Done("ids") /\ Len(output[1]) <= 77 => IsShortest(input, output[1])

\* Bytes that the decoder accepts hold distinct ids in ascending order.
DecodedIdsAreSorted == Done("bytes") => Small!DecodesToIds(input, output[1])

\* Requests that pass the filter make transactions: a bag never holds ids
\* that the OP_RETURN output refuses or amounts that the UTXO cannot pay.
PackageIsBuilt == Done("package") => output[1].error = "none"

\* A package leaves a quorum for each transaction and respects the bounds on
\* its signatures, its bytes and its length.
PackagesWithinBounds == Done("package") => PackageWithinBounds(input, Txs)

\* Signers that hold the coordinator's records rebuild its transactions.
SignersRebuildPackage == Done("package") => SignersBuildTheSame(input, Txs, MCSigner)

\* A quorum of those signers will sign every input of the package.
QuorumSigns == Done("package") => QuorumSignsPackage(input, Txs, MCSigner)

\* A sweep never takes from what backs the other users' sBTC.
SweepsKeepBacking == Done("package") => SweepKeepsBacking(input, Txs)

\* A package that replaces sweeps in the mempool pays enough to do so.
PackageReplacesMempool == Done("package") => ReplacesTheMempool(input, Txs)

\* A message reaches the other signers as it was signed, also when the sender
\* has a newer schema or its maps iterate in another order: the receiver
\* verifies the bytes and not its own encoding of the message.
MessagesArrive ==
    Done("message") /\ input.wire # "last" => Msg!Arrives(input.message, input.key, output[1])

\* What a signer stores of a DKG round, and every part of a message, is read
\* back as it was written.
ValuesRoundTrip ==
    Done("value") /\ input[1] \notin {"SignerMessage", "WstsMessage", "DkgEnd", "DkgStatus",
                                       "StacksTransactionSignRequest"}
        => output[1] = {input[2]}

\* A protobuf without a field that its type needs, or with a value outside of
\* the type, or with fields of the envelope before the signature over them,
\* is an error: no default takes its place.
BrokenMessagesAreRefused ==
    Done("broken") \/ (Done("message") /\ input.wire = "last") => output[1] = {}

\* A signer signs the calls that it would make of its own records as the
\* coordinator, within the limits of the requests, and no other: a sweep that
\* was reorged, a fee that is not the assessed one and a request that is not
\* final are refused, and an honest coordinator is not.
SignersCheckCalls ==
    Done("call") => Call!SignsWhatItWouldConstruct(Call!Db(input), input[2], output[1])

\* A confirmed call comes back, through the event that the registry prints,
\* as the row it was made from: no hash is reversed once too often and no
\* argument changes its place.
EventsCarryCalls == Done("call") => Call!EventCarriesCall(input[2])

\* A call that the signers sign passes the fork check of the contracts, which
\* compare the block hash with the header that stacks-core has.
CallsPassForkCheck ==
    Done("call") /\ output[1] = {} => Call!ForkCheckPasses(input[2])

\* A withdrawal request that the contract accepts is recorded by the signers,
\* whatever its one byte version is.
RequestsAreRecorded == Done("request") => Call!CreatedIsRecorded(input, output[1])

\* The same without a condition on the version: "We make sure that the
\* version and hash byte lengths conform ... in the smart contract, so this
\* should never happen" (sbtc/src/events.rs).
ShortVersionsAreRecorded ==
    Done("short_request") => Call!CreatedIsRecorded(input, output[1])

\* A list of withdrawal ids is written in the size that was budgeted for it,
\* read back as it was, and as short as any way to cut it into segments makes
\* it; bytes that decode hold distinct ids in ascending order.
IdsAreCarried == SizesAreExact /\ IdsRoundTrip /\ SegmentsAreShortest /\ DecodedIdsAreSorted

\* Requests that pass the coordinator's filter make a package within its bounds,
\* that other signers rebuild from their records, that a quorum signs, that
\* backs the other users' sBTC and that replaces what the mempool holds.
PackagesAreSigned ==
    /\ PackageIsBuilt /\ PackagesWithinBounds /\ SignersRebuildPackage
    /\ QuorumSigns /\ SweepsKeepBacking /\ PackageReplacesMempool

\* Messages and what they are made of are read as they were written, whatever
\* the version of the writer, and what is incomplete or broken is refused.
MessagesAreCarried == MessagesArrive /\ ValuesRoundTrip /\ BrokenMessagesAreRefused

\* A contract call that a coordinator makes of its records is signed by those
\* with the same records, passes the contract's fork check and comes back as
\* the event it was made for; what users request is recorded.
CallsAreCarried ==
    SignersCheckCalls /\ EventsCarryCalls /\ CallsPassForkCheck /\ RequestsAreRecorded

\* What goes out arrives as it was: messages between signers, and contract calls
\* with the events that they lead to.
MessagesAndCallsAreCarried == MessagesAreCarried /\ CallsAreCarried
=============================================================================
