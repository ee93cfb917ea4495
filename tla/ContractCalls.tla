--------------------------- MODULE ContractCalls ---------------------------
(***************************************************************************)
(* The contract calls of the signers: what a coordinator constructs from   *)
(* its records, what a signer requires of a proposed call before it signs, *)
(* and the Clarity arguments that a call becomes                           *)
(* (signer/src/stacks/contracts.rs).                                       *)
(*                                                                         *)
(* `ctx` is what a signer knows: its database, its bitcoin node and the    *)
(* state of the registry contract.  A hash is a sequence of bytes in the   *)
(* order of rust-bitcoin.  A validation is the set of the errors whose     *)
(* condition holds; the code returns the first one, so a call is signed    *)
(* when the set is empty.  Every request of a sweep weighs the same.       *)
(***************************************************************************)
EXTENDS Integers, Sequences, SequencesExt, FiniteSets, TLC

CONSTANTS
    DEPOSIT_DUST_LIMIT,
    WITHDRAWAL_BLOCKS_EXPIRY

-----------------------------------------------------------------------------
(* Contract calls and their arguments. *)

\* mutant: the bytes are passed in the order of rust-bitcoin.
ToBytesAsStored(hash) == hash

\* ToLittleEndianOrder: stacks-core stores hashes the other way around.
to_le_bytes(hash) == Reverse(hash)

Buffer(bytes) == [buff |-> bytes]
UInt(n) == [uint |-> n]
Principal(p) == [principal |-> p]
List(s) == [list |-> s]

CompleteDepositArgs(c) ==
    <<Buffer(to_le_bytes(c.outpoint.txid)), UInt(c.outpoint.vout), UInt(c.amount),
      Principal(c.recipient), Buffer(to_le_bytes(c.sweep_block_hash)),
      UInt(c.sweep_block_height), Buffer(to_le_bytes(c.sweep_txid))>>

\* The bitmap of the votes is fixed at zero.
AcceptWithdrawalArgs(c) ==
    LET txid == Buffer(to_le_bytes(c.outpoint.txid))
    IN  <<UInt(c.id.request_id), txid, UInt(0), UInt(c.outpoint.vout), UInt(c.tx_fee),
          Buffer(to_le_bytes(c.sweep_block_hash)), UInt(c.sweep_block_height), txid>>

RejectWithdrawalArgs(c) == <<UInt(c.id.request_id), UInt(0)>>

\* The keys of the set are listed in the order of their bytes.
RotateKeysArgs(c) ==
    LET keys == SetToSortSeq(c.new_keys, <)
    IN  <<List([i \in DOMAIN keys |-> Buffer(keys[i])]), Buffer(c.aggregate_key),
          UInt(c.signatures_required)>>

\* AsTxPayload: no call has a condition on what happens after it.
StacksTxPostConditions == [post_condition_mode |-> "Allow", post_conditions |-> << >>]

as_contract_call(c) ==
    [address |-> c.deployer, conditions |-> StacksTxPostConditions] @@
    CASE c.kind = "CompleteDepositV1" ->
           [contract |-> "sbtc-deposit", function |-> "complete-deposit-wrapper",
            args |-> CompleteDepositArgs(c)]
      [] c.kind = "AcceptWithdrawalV1" ->
           [contract |-> "sbtc-withdrawal", function |-> "accept-withdrawal-request",
            args |-> AcceptWithdrawalArgs(c)]
      [] c.kind = "RejectWithdrawalV1" ->
           [contract |-> "sbtc-withdrawal", function |-> "reject-withdrawal-request",
            args |-> RejectWithdrawalArgs(c)]
      [] c.kind = "RotateKeysV1" ->
           [contract |-> "sbtc-bootstrap-signers", function |-> "rotate-keys-wrapper",
            args |-> RotateKeysArgs(c)]

-----------------------------------------------------------------------------
(* What a signer looks up. *)

DivCeil(a, b) == (a + b - 1) \div b

\* The requests of a sweep: its inputs after the first and its outputs after
\* the second.
Requests(tx) == (Len(tx.inputs) - 1) + (Len(tx.outputs) - 2)

assess_input_fee(tx, outpoint) ==
    IF \E i \in 2..Len(tx.inputs) : tx.inputs[i] = outpoint
    THEN {DivCeil(tx.fee, Requests(tx))} ELSE {}

assess_output_fee(tx, vout) ==
    IF vout >= 2 /\ vout < Len(tx.outputs) THEN {DivCeil(tx.fee, Requests(tx))} ELSE {}

get_tx_info(ctx, txid, block_hash) ==
    {tx \in ctx.txs : tx.txid = txid /\ tx.block_hash = block_hash}

in_canonical_bitcoin_blockchain(ctx, hash, height) ==
    [block_hash |-> hash, block_height |-> height] \in ctx.chain

\* The sweep was made by the signers: it spends their UTXO first.
SpendsSignerUtxo(ctx, tx) == tx.first_script \in ctx.signer_scripts

get_withdrawal_request_report(ctx, id) == {r \in ctx.withdrawals : r.id = id}

\* The status of a withdrawal request: confirmed on the canonical Stacks
\* chain, and fulfilled by a sweep on the canonical bitcoin chain.
Fulfilling(ctx, id) ==
    {tx \in ctx.txs :
        /\ \E b \in ctx.chain : b.block_hash = tx.block_hash
        /\ SpendsSignerUtxo(ctx, tx)
        /\ \E o \in 3..Len(tx.outputs) : tx.outputs[o].id = id}

-----------------------------------------------------------------------------
(* CompleteDepositV1::validate. *)

DepositErrorMsg ==
    {"AmountBelowDustLimit", "DeployerMismatch", "DepositCompleted", "FeeTooHigh",
     "IncorrectMintAmount", "MissingFromSweep", "InvalidSweep", "RecipientMismatch",
     "RequestMissing", "SweepTransactionMissing", "SweepTransactionReorged"}

ValidateCompleteDeposit(ctx, c) ==
    LET txs == get_tx_info(ctx, c.sweep_txid, c.sweep_block_hash)
        fees == UNION {assess_input_fee(tx, c.outpoint) : tx \in txs}
        found == {d \in ctx.deposits : d.outpoint = c.outpoint}
        Fails(e) ==
            CASE e = "DepositCompleted" -> c.outpoint \in ctx.completed
              [] e = "SweepTransactionMissing" -> txs = {}
              [] e = "SweepTransactionReorged" ->
                   ~in_canonical_bitcoin_blockchain(ctx, c.sweep_block_hash, c.sweep_block_height)
              [] e = "MissingFromSweep" -> fees = {}
              [] e = "InvalidSweep" -> \E tx \in txs : ~SpendsSignerUtxo(ctx, tx)
              [] e = "DeployerMismatch" -> c.deployer # ctx.deployer
              [] e = "RequestMissing" -> found = {}
              [] e = "RecipientMismatch" -> \E d \in found : c.recipient # d.recipient
              [] e = "AmountBelowDustLimit" -> c.amount < DEPOSIT_DUST_LIMIT
              [] e = "IncorrectMintAmount" ->
                   \E d \in found, fee \in fees : c.amount # d.amount - fee
              [] e = "FeeTooHigh" -> \E d \in found, fee \in fees : fee > d.max_fee
    IN  {e \in DepositErrorMsg : Fails(e)}

-----------------------------------------------------------------------------
(* AcceptWithdrawalV1::validate. *)

WithdrawalErrorMsg ==
    {"DeployerMismatch", "FeeTooHigh", "IncorrectFee", "IncorrectSweepTx", "InvalidAmount",
     "InvalidSweep", "RecipientMismatch", "RequestCompleted", "RequestMissing",
     "SweepTransactionMissing", "SweepTransactionReorged", "UtxoMissingFromSweep"}

ValidateAcceptWithdrawal(ctx, c) ==
    LET txs == get_tx_info(ctx, c.outpoint.txid, c.sweep_block_hash)
        fees == UNION {assess_output_fee(tx, c.outpoint.vout) : tx \in txs}
        reports == get_withdrawal_request_report(ctx, c.id)
        sweeps == Fulfilling(ctx, c.id)
        outs == UNION {IF assess_output_fee(tx, c.outpoint.vout) = {} THEN {}
                       ELSE {tx.outputs[c.outpoint.vout + 1]} : tx \in txs}
        Fails(e) ==
            CASE e = "RequestCompleted" -> c.id.request_id \in ctx.completed_withdrawals
              [] e = "SweepTransactionMissing" -> txs = {} \/ sweeps = {}
              [] e = "SweepTransactionReorged" ->
                   ~in_canonical_bitcoin_blockchain(ctx, c.sweep_block_hash, c.sweep_block_height)
              [] e = "UtxoMissingFromSweep" -> outs = {}
              [] e = "IncorrectFee" -> fees # {c.tx_fee}
              [] e = "InvalidSweep" -> \E tx \in txs : ~SpendsSignerUtxo(ctx, tx)
              [] e = "DeployerMismatch" -> c.deployer # ctx.deployer
              [] e = "RequestMissing" -> reports = {}
              [] e = "IncorrectSweepTx" -> \A tx \in sweeps : tx.txid # c.outpoint.txid
              [] e = "RecipientMismatch" ->
                   \E o \in outs, r \in reports : o.script_pubkey # r.recipient
              [] e = "InvalidAmount" -> \E o \in outs, r \in reports : o.value # r.amount
              [] e = "FeeTooHigh" -> \E r \in reports : c.tx_fee > r.max_fee
    IN  {e \in WithdrawalErrorMsg : Fails(e)}

-----------------------------------------------------------------------------
(* RejectWithdrawalV1::validate. *)

WithdrawalRejectErrorMsg ==
    {"DeployerMismatch", "RequestBeingFulfilled", "RequestCompleted", "RequestStillActive",
     "RequestFulfilled", "RequestMissing", "RequestNotFinal", "RequestUnconfirmed"}

ValidateRejectWithdrawal(ctx, c) ==
    LET reports == get_withdrawal_request_report(ctx, c.id)
        Fails(e) ==
            CASE e = "RequestCompleted" -> c.id.request_id \in ctx.completed_withdrawals
              [] e = "DeployerMismatch" -> c.deployer # ctx.deployer
              [] e = "RequestMissing" -> reports = {}
              [] e = "RequestFulfilled" -> Fulfilling(ctx, c.id) # {}
              [] e = "RequestUnconfirmed" -> \E r \in reports : ~r.confirmed
              [] e = "RequestNotFinal" ->
                   \E r \in reports :
                       ctx.tip_height - r.bitcoin_block_height <= WITHDRAWAL_BLOCKS_EXPIRY
              [] e = "RequestBeingFulfilled" -> c.id \in ctx.inflight
              [] e = "RequestStillActive" -> c.id \in ctx.active
    IN  {e \in WithdrawalRejectErrorMsg : Fails(e)}

-----------------------------------------------------------------------------
(* RotateKeysV1::validate, against the latest DKG shares. *)

RotateKeysErrorMsg ==
    {"DeployerMismatch", "SignerSetMismatch", "AggregateKeyMismatch",
     "SignaturesRequiredMismatch", "KeyRotationExists", "DkgSharesNotVerified"}

NoDkgShares == {"NoDkgShares"}

ValidateRotateKeys(ctx, c) ==
    LET latest == CHOOSE s \in ctx.shares : \A t \in ctx.shares : t.started_at <= s.started_at
        Fails(e) ==
            CASE e = "DeployerMismatch" -> c.deployer # ctx.deployer
              [] e = "SignerSetMismatch" -> c.new_keys # latest.signer_set
              [] e = "AggregateKeyMismatch" -> c.aggregate_key # latest.aggregate_key
              [] e = "DkgSharesNotVerified" -> latest.status # "verified"
              [] e = "SignaturesRequiredMismatch" -> c.signatures_required # latest.threshold
              [] e = "KeyRotationExists" ->
                   \E r \in ctx.rotations : /\ r.new_keys = c.new_keys
                                            /\ r.aggregate_key = c.aggregate_key
                                            /\ r.signatures_required = c.signatures_required
    IN  IF ctx.shares = {} THEN NoDkgShares ELSE {e \in RotateKeysErrorMsg : Fails(e)}

\* AsContractCall::validate of each call.
Validate(ctx, c) ==
    CASE c.kind = "CompleteDepositV1" -> ValidateCompleteDeposit(ctx, c)
      [] c.kind = "AcceptWithdrawalV1" -> ValidateAcceptWithdrawal(ctx, c)
      [] c.kind = "RejectWithdrawalV1" -> ValidateRejectWithdrawal(ctx, c)
      [] c.kind = "RotateKeysV1" -> ValidateRotateKeys(ctx, c)

-----------------------------------------------------------------------------
(* What a coordinator constructs from the same records. *)

SweptDepositRequests(ctx) ==
    {[request |-> d, tx |-> tx, block |-> b] : d \in ctx.deposits, tx \in ctx.txs, b \in ctx.chain}

construct_deposit_stacks_sign_request(ctx, row) ==
    {[kind |-> "CompleteDepositV1", amount |-> row.request.amount - fee,
      outpoint |-> row.request.outpoint, recipient |-> row.request.recipient,
      deployer |-> ctx.deployer, sweep_txid |-> row.tx.txid,
      sweep_block_hash |-> row.tx.block_hash, sweep_block_height |-> row.block.block_height] :
        fee \in assess_input_fee(row.tx, row.request.outpoint)}

SweptWithdrawalRequests(ctx) ==
    {[request |-> r, tx |-> tx, block |-> b, output_index |-> o - 1] :
        r \in ctx.withdrawals, tx \in ctx.txs, b \in ctx.chain, o \in 3..4}

construct_withdrawal_accept_stacks_sign_request(ctx, row) ==
    {[kind |-> "AcceptWithdrawalV1", id |-> row.request.id,
      outpoint |-> [txid |-> row.tx.txid, vout |-> row.output_index], tx_fee |-> fee,
      signer_bitmap |-> 0, deployer |-> ctx.deployer, sweep_block_hash |-> row.tx.block_hash,
      sweep_block_height |-> row.block.block_height] :
        fee \in assess_output_fee(row.tx, row.output_index)}

\* get_pending_rejected_withdrawal_requests: confirmed, expired and not swept.
PendingRejected(ctx) ==
    {r \in ctx.withdrawals :
        /\ r.confirmed
        /\ r.bitcoin_block_height < ctx.tip_height - WITHDRAWAL_BLOCKS_EXPIRY
        /\ Fulfilling(ctx, r.id) = {}}

construct_withdrawal_reject_stacks_sign_request(ctx, r) ==
    [kind |-> "RejectWithdrawalV1", id |-> r.id, signer_bitmap |-> 0, deployer |-> ctx.deployer]

\* RotateKeysV1::load.
RotateKeysLoad(ctx, s) ==
    [kind |-> "RotateKeysV1", new_keys |-> s.signer_set, aggregate_key |-> s.aggregate_key,
     deployer |-> ctx.deployer, signatures_required |-> s.threshold]

InSweep(ctx, row) == row.tx.block_hash = row.block.block_hash /\ SpendsSignerUtxo(ctx, row.tx)

Constructs(ctx) ==
    UNION {construct_deposit_stacks_sign_request(ctx, row) :
              row \in {x \in SweptDepositRequests(ctx) :
                          InSweep(ctx, x) /\ x.request.outpoint \notin ctx.completed}}
    \cup UNION {construct_withdrawal_accept_stacks_sign_request(ctx, row) :
              row \in {x \in SweptWithdrawalRequests(ctx) :
                          /\ InSweep(ctx, x)
                          /\ x.output_index < Len(x.tx.outputs)
                          /\ x.tx.outputs[x.output_index + 1].id = x.request.id
                          /\ x.request.id.request_id \notin ctx.completed_withdrawals}}
    \cup {construct_withdrawal_reject_stacks_sign_request(ctx, r) :
              r \in {x \in PendingRejected(ctx) :
                          /\ x.id.request_id \notin ctx.completed_withdrawals
                          /\ x.id \notin ctx.inflight \cup ctx.active}}
    \cup {RotateKeysLoad(ctx, s) :
              s \in {x \in ctx.shares :
                          /\ x.status = "verified"
                          /\ \A t \in ctx.shares : t.started_at <= x.started_at
                          /\ \A r \in ctx.rotations : r.aggregate_key # x.aggregate_key}}

\* The fee stays within what the request allows, and above the dust limit.
WithinLimits(ctx, c) ==
    CASE c.kind = "CompleteDepositV1" ->
           /\ c.amount >= DEPOSIT_DUST_LIMIT
           /\ \A d \in ctx.deposits :
                  d.outpoint = c.outpoint => d.amount - c.amount <= d.max_fee
      [] c.kind = "AcceptWithdrawalV1" ->
           \A r \in get_withdrawal_request_report(ctx, c.id) : c.tx_fee <= r.max_fee
      [] OTHER -> TRUE

\* Outputs of one sweep that pay the same amount to the same script.
Twins(ctx, c, k) ==
    /\ c.kind = "AcceptWithdrawalV1" /\ k.kind = c.kind
    /\ c.outpoint.txid = k.outpoint.txid
    /\ \E tx \in get_tx_info(ctx, c.outpoint.txid, c.sweep_block_hash) :
           /\ c.outpoint.vout \in 2..(Len(tx.outputs) - 1)
           /\ LET paid(v) == <<tx.outputs[v + 1].script_pubkey, tx.outputs[v + 1].value>>
              IN  paid(c.outpoint.vout) = paid(k.outpoint.vout)

\* The same call on chain.  Two outputs of a sweep that pay the same are not
\* told apart.
SameCall(ctx, c, k) ==
    /\ c.kind = k.kind
    /\ c.kind \in {"AcceptWithdrawalV1", "RejectWithdrawalV1"} => c.id = k.id
    /\ \/ as_contract_call(c) = as_contract_call(k)
       \/ Twins(ctx, c, k)
          /\ as_contract_call([c EXCEPT !.outpoint = k.outpoint]) = as_contract_call(k)

SignsWhatItWouldConstruct(ctx, c, errors) ==
    errors = {} <=>
        WithinLimits(ctx, c) /\ \E k \in Constructs(ctx) : SameCall(ctx, c, k)
=============================================================================
