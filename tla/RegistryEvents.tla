--------------------------- MODULE RegistryEvents ---------------------------
(***************************************************************************)
(* The way back: what the contracts print when they execute a call, and    *)
(* how a signer turns the print event of a new block webhook into a row of *)
(* its database (sbtc/src/events.rs, sbtc/src/webhooks.rs,                 *)
(* signer/src/storage/model.rs).                                           *)
(*                                                                         *)
(* An event is a record of Clarity values; a parse is the set with its     *)
(* result, empty when the code returns an error.  Integers are scaled: a   *)
(* u128 that does not fit the narrower type is an error.                   *)
(***************************************************************************)
EXTENDS ContractCalls

CONSTANTS
    U16_MAX, U32_MAX, U64_MAX,      \* the largest value of each type
    BurnHeader                      \* height |-> header hash, as stacks-core stores it

-----------------------------------------------------------------------------
(* The contracts: the arguments by position, and the event they print. *)

\* get-burn-block-info? header-hash.
GetBurnHeader(height) == IF height \in DOMAIN BurnHeader THEN {BurnHeader[height]} ELSE {}

\* complete-deposit-wrapper, which calls complete-deposit of the registry.
CompleteDepositWrapper(a) ==
    IF a[5].buff \notin GetBurnHeader(a[6].uint) THEN {}
    ELSE {[topic |-> "completed-deposit", bitcoin_txid |-> a[1], output_index |-> a[2],
           amount |-> a[3], burn_hash |-> a[5], burn_height |-> a[6], sweep_txid |-> a[7]]}

\* The registry takes the output index and the bitmap the other way around.
CompleteWithdrawalAccept(a) ==
    {[topic |-> "withdrawal-accept", request_id |-> a[1], bitcoin_txid |-> a[2],
      signer_bitmap |-> a[4], output_index |-> a[3], fee |-> a[5], burn_hash |-> a[6],
      burn_height |-> a[7], sweep_txid |-> a[8]]}

AcceptWithdrawalRequest(a) ==
    IF a[6].buff \notin GetBurnHeader(a[7].uint) THEN {}
    ELSE CompleteWithdrawalAccept(<<a[1], a[2], a[4], a[3], a[5], a[6], a[7], a[8]>>)

RejectWithdrawalRequest(a) ==
    {[topic |-> "withdrawal-reject", request_id |-> a[1], signer_bitmap |-> a[2]]}

\* pubkeys-to-principal: the address of the m of n wallet of the listed keys.
PubkeysToPrincipal(keys, m) == [keys |-> [i \in DOMAIN keys |-> keys[i].buff], m |-> m]

RotateKeysWrapper(a) ==
    LET keys == a[1].list
        m == a[3].uint
    IN  IF Len(keys) > 1 /\ m > Len(keys) \div 2 /\ m <= Len(keys)
        THEN {[topic |-> "key-rotation", new_keys |-> a[1],
               new_address |-> Principal(PubkeysToPrincipal(keys, m)),
               new_aggregate_pubkey |-> a[2], new_signature_threshold |-> a[3]]}
        ELSE {}

Execute(call) ==
    CASE call.function = "complete-deposit-wrapper" -> CompleteDepositWrapper(call.args)
      [] call.function = "accept-withdrawal-request" -> AcceptWithdrawalRequest(call.args)
      [] call.function = "reject-withdrawal-request" -> RejectWithdrawalRequest(call.args)
      [] call.function = "rotate-keys-wrapper" -> RotateKeysWrapper(call.args)

\* buff-to-uint-be of at most one byte: no byte is zero.
BuffToUintBe(bytes) == IF bytes = << >> THEN 0 ELSE bytes[1]

\* validate-recipient.
ValidateRecipient(r) ==
    LET version == BuffToUintBe(r.version)
    IN  version <= 6 /\ Len(r.hashbytes) = IF version <= 4 THEN 20 ELSE 32

\* initiate-withdrawal-request: amount and max-fee are locked, so that their
\* sum is within the supply.
InitiateWithdrawalRequest(w, supply) ==
    IF w.amount + w.max_fee <= supply /\ ValidateRecipient(w.recipient)
    THEN {[topic |-> "withdrawal-create", amount |-> UInt(w.amount),
           request_id |-> UInt(w.request_id), sender |-> Principal(w.sender),
           recipient |-> [tuple |-> [version |-> Buffer(w.recipient.version),
                                     hashbytes |-> Buffer(w.recipient.hashbytes)]],
           block_height |-> UInt(w.height), max_fee |-> UInt(w.max_fee)]}
    ELSE {}

\* update-protocol-contract has a topic that the signers do not know.
UpdateProtocolContract ==
    {[topic |-> "update-protocol-contract", contract_type |-> Buffer(<<1>>),
      new_contract |-> Principal("contract")]}

-----------------------------------------------------------------------------
(* RawTupleData and RegistryEvent::try_new. *)

RemoveField(e, field, variant) ==
    IF field \in DOMAIN e /\ variant \in DOMAIN e[field] THEN {e[field][variant]} ELSE {}

remove_u128(e, field) == RemoveField(e, field, "uint")
remove_buff(e, field) == RemoveField(e, field, "buff")
remove_principal(e, field) == RemoveField(e, field, "principal")
remove_tuple(e, field) == RemoveField(e, field, "tuple")
remove_list(e, field) == RemoveField(e, field, "list")

TryFrom(ns, max) == {n \in ns : n <= max}

\* FromLittleEndianOrder for a txid or a block hash.
from_le_bytes(bytes) == {Reverse(b) : b \in bytes}

completed_deposit(e) ==
    {[amount |-> amount, outpoint |-> [txid |-> txid, vout |-> vout],
      sweep_block_hash |-> hash, sweep_block_height |-> height, sweep_txid |-> sweep] :
        amount \in TryFrom(remove_u128(e, "amount"), U64_MAX),
        vout \in TryFrom(remove_u128(e, "output_index"), U32_MAX),
        txid \in from_le_bytes(remove_buff(e, "bitcoin_txid")),
        sweep \in from_le_bytes(remove_buff(e, "sweep_txid")),
        hash \in from_le_bytes(remove_buff(e, "burn_hash")),
        height \in TryFrom(remove_u128(e, "burn_height"), U64_MAX)}

withdrawal_accept(e) ==
    {[request_id |-> id, signer_bitmap |-> bitmap, outpoint |-> [txid |-> txid, vout |-> vout],
      fee |-> fee, sweep_block_hash |-> hash, sweep_block_height |-> height,
      sweep_txid |-> sweep] :
        id \in TryFrom(remove_u128(e, "request_id"), U64_MAX),
        bitmap \in remove_u128(e, "signer_bitmap"),
        fee \in TryFrom(remove_u128(e, "fee"), U64_MAX),
        vout \in TryFrom(remove_u128(e, "output_index"), U32_MAX),
        txid \in from_le_bytes(remove_buff(e, "bitcoin_txid")),
        sweep \in from_le_bytes(remove_buff(e, "sweep_txid")),
        hash \in from_le_bytes(remove_buff(e, "burn_hash")),
        height \in TryFrom(remove_u128(e, "burn_height"), U64_MAX)}

withdrawal_reject(e) ==
    {[request_id |-> id, signer_bitmap |-> bitmap] :
        id \in TryFrom(remove_u128(e, "request_id"), U64_MAX),
        bitmap \in remove_u128(e, "signer_bitmap")}

\* PublicKey::from_slice accepts what was serialized from a key.
key_rotation(e) ==
    {[signer_set |-> [i \in DOMAIN keys |-> keys[i].buff], address |-> address,
      aggregate_key |-> key, signatures_required |-> m] :
        keys \in remove_list(e, "new_keys"), address \in remove_principal(e, "new_address"),
        key \in remove_buff(e, "new_aggregate_pubkey"),
        m \in TryFrom(remove_u128(e, "new_signature_threshold"), U16_MAX)}

\* try_into_script_pub_key: the version is matched as a slice of one byte.
try_into_script_pub_key(r) ==
    {[type |-> CASE version = <<0>> -> "p2pkh" [] version \in {<<1>>, <<2>>, <<3>>} -> "p2sh"
                 [] version = <<4>> -> "p2wpkh" [] version = <<5>> -> "p2wsh"
                 [] version = <<6>> -> "p2tr",
      hash |-> hash] :
        version \in {v \in remove_buff(r, "version") : v \in {<<n>> : n \in 0..6}},
        hash \in {h \in remove_buff(r, "hashbytes") :
                     Len(h) = IF remove_buff(r, "version") \subseteq {<<5>>, <<6>>}
                              THEN 32 ELSE 20}}

withdrawal_create(e) ==
    {[request_id |-> id, recipient |-> script, amount |-> amount, max_fee |-> fee,
      sender_address |-> sender, bitcoin_block_height |-> height] :
        id \in TryFrom(remove_u128(e, "request_id"), U64_MAX),
        amount \in TryFrom(remove_u128(e, "amount"), U64_MAX),
        fee \in TryFrom(remove_u128(e, "max_fee"), U64_MAX),
        height \in TryFrom(remove_u128(e, "block_height"), U64_MAX),
        sender \in remove_principal(e, "sender"),
        script \in UNION {try_into_script_pub_key(r) : r \in remove_tuple(e, "recipient")}}

RegistryEvent(e) ==
    CASE e.topic = "completed-deposit" -> completed_deposit(e)
      [] e.topic = "withdrawal-accept" -> withdrawal_accept(e)
      [] e.topic = "withdrawal-create" -> withdrawal_create(e)
      [] e.topic = "withdrawal-reject" -> withdrawal_reject(e)
      [] e.topic = "key-rotation" -> key_rotation(e)
      [] OTHER -> {}

-----------------------------------------------------------------------------
(* The webhook and the rows that are written. *)

\* The bits of the bitmap of an event, signer by signer.
BitArray(bitmap) == {i \in 0..7 : (bitmap \div 2^i) % 2 = 1}

\* The storage types made of the events of the sbtc crate.
Row(topic, ev, txid, block) ==
    [table |-> topic, txid |-> txid, block |-> block] @@
    IF topic \in {"withdrawal-accept", "withdrawal-reject"}
    THEN [ev EXCEPT !.signer_bitmap = BitArray(ev.signer_bitmap)] ELSE ev

\* The print events of the registry in a block, of the transactions that
\* were committed.
RegistryPrints(hook) ==
    {x \in hook.events : x.committed /\ x.contract = "sbtc-registry" /\ x.topic = "print"}

\* new_block_handler: one by one; an event that cannot be parsed is skipped.
NewBlockRows(hook) ==
    UNION {{Row(x.event.topic, ev, x.txid, hook.index_block_hash) : ev \in RegistryEvent(x.event)} :
             x \in RegistryPrints(hook)}

-----------------------------------------------------------------------------

\* The wallet of a signer set: SignerWallet::new computes its address.
WalletAddress(keys, m) == [keys |-> SetToSortSeq(keys, <), m |-> m]

\* What the signers know of a call once it is confirmed.
Expected(c) ==
    CASE c.kind = "CompleteDepositV1" ->
           [table |-> "completed-deposit", amount |-> c.amount, outpoint |-> c.outpoint,
            sweep_block_hash |-> c.sweep_block_hash, sweep_txid |-> c.sweep_txid,
            sweep_block_height |-> c.sweep_block_height]
      [] c.kind = "AcceptWithdrawalV1" ->
           [table |-> "withdrawal-accept", request_id |-> c.id.request_id, signer_bitmap |-> {},
            outpoint |-> c.outpoint, fee |-> c.tx_fee, sweep_block_hash |-> c.sweep_block_hash,
            sweep_block_height |-> c.sweep_block_height, sweep_txid |-> c.outpoint.txid]
      [] c.kind = "RejectWithdrawalV1" ->
           [table |-> "withdrawal-reject", request_id |-> c.id.request_id, signer_bitmap |-> {}]
      [] c.kind = "RotateKeysV1" ->
           [table |-> "key-rotation", signer_set |-> SetToSortSeq(c.new_keys, <),
            address |-> WalletAddress(c.new_keys, c.signatures_required),
            aggregate_key |-> c.aggregate_key, signatures_required |-> c.signatures_required]

\* A block with the event, and with others that are none of the signers' business.
Hook(e) ==
    LET print == [event |-> e, txid |-> "tx", committed |-> TRUE, contract |-> "sbtc-registry",
                  topic |-> "print"]
        other == [print EXCEPT !.txid = "other"]
    IN  [index_block_hash |-> "block",
         events |-> {print, [other EXCEPT !.committed = FALSE], [other EXCEPT !.contract = "copy"],
                     [other EXCEPT !.topic = "log"]}
                    \cup {[other EXCEPT !.event = u] : u \in UpdateProtocolContract}]

EventCarriesCall(c) ==
    \A e \in Execute(as_contract_call(c)) :
        NewBlockRows(Hook(e)) = {Expected(c) @@ [txid |-> "tx", block |-> "block"]}

ForkCheckPasses(c) ==
    c.kind \in {"CompleteDepositV1", "AcceptWithdrawalV1"} => Execute(as_contract_call(c)) # {}

\* Minting is capped far below what a u64 holds.
Recorded(w) == UNION {NewBlockRows(Hook(e)) : e \in InitiateWithdrawalRequest(w, U64_MAX)}

CreatedIsRecorded(w, rows) ==
    InitiateWithdrawalRequest(w, U64_MAX) # {} =>
        \E r \in rows : r.request_id = w.request_id /\ r.amount = w.amount
=============================================================================
