-------------------------- MODULE MCContractCalls --------------------------
(***************************************************************************)
(* Small databases and proposals for ContractCalls and RegistryEvents.     *)
(*                                                                         *)
(* One sweep with two deposits and two withdrawals is in a block of the    *)
(* canonical chain, in a block of a fork or in both, next to a transaction *)
(* that the signers did not make.  The fee is within what the requests     *)
(* allow, above it, or leaves dust; both withdrawals may pay the same.     *)
(***************************************************************************)
EXTENDS RegistryEvents

B1 == <<1, 0>>
B2 == <<2, 0>>
Fork == <<3, 0>>
Sweep == <<7, 1>>
Foreign == <<7, 2>>
D1 == [txid |-> <<5, 1>>, vout |-> 0]
D2 == [txid |-> <<5, 1>>, vout |-> 1]
W1 == [request_id |-> 1, txid |-> <<6, 1>>, block_hash |-> <<8, 1>>]
W2 == [request_id |-> 2, txid |-> <<6, 2>>, block_hash |-> <<8, 1>>]
NoId == [request_id |-> 0, txid |-> <<6, 0>>, block_hash |-> <<8, 0>>]
SignerInput == [txid |-> <<4, 1>>, vout |-> 0]

Paid(id, script, value) == [id |-> id, script_pubkey |-> script, value |-> value]

SweepTx(block, fee, twins) ==
    [txid |-> Sweep, block_hash |-> block, inputs |-> <<SignerInput, D1, D2>>,
     outputs |-> <<Paid(NoId, "signers", 9), Paid(NoId, "op_return", 0), Paid(W1, "alice", 50),
                   Paid(W2, IF twins THEN "alice" ELSE "bob", 50)>>,
     fee |-> fee, first_script |-> "signers"]

ForeignTx(block) ==
    [txid |-> Foreign, block_hash |-> block, inputs |-> <<D2, D1>>,
     outputs |-> <<Paid(NoId, "eve", 9), Paid(NoId, "eve", 0), Paid(NoId, "alice", 50)>>,
     fee |-> 4, first_script |-> "eve"]

Shares(started_at, key, status) ==
    [signer_set |-> {1, 2, 3}, aggregate_key |-> key, status |-> status, threshold |-> 2,
     started_at |-> started_at]
Rotation(key) == [new_keys |-> {1, 2, 3}, aggregate_key |-> key, signatures_required |-> 2]

Deposits ==
    {[outpoint |-> D1, recipient |-> "carol", amount |-> 30, max_fee |-> 5],
     [outpoint |-> D2, recipient |-> "dave", amount |-> 12, max_fee |-> 12]}
Withdrawals(bob, height) ==
    {[id |-> W1, recipient |-> "alice", amount |-> 50, max_fee |-> 6, confirmed |-> TRUE,
      bitcoin_block_height |-> 1],
     [id |-> W2, recipient |-> bob, amount |-> 50, max_fee |-> 2, confirmed |-> height > 0,
      bitcoin_block_height |-> height]}

\* What the signers hold: of bitcoin, of Stacks, and of DKG.
Swept ==
    [blocks : {{}, {B1}, {Fork}, {B1, Fork}}, fee : {4, 22, 40}, twins : BOOLEAN,
     completed : BOOLEAN]
Waiting == [height : {0, 2, 3}, inflight : {{}, {W1}}, active : {{}, {W2}}]
Keys ==
    [shares : {{}, {Shares(1, 9, "verified")},
               {Shares(1, 9, "verified"), Shares(2, 8, "unverified")},
               {Shares(1, 9, "verified"), Shares(2, 8, "verified")}},
     rotations : {{}, {Rotation(9)}}]

\* The height at which the request of height 2 is about to expire.
TipHeight == WITHDRAWAL_BLOCKS_EXPIRY + 3

Context(s, w, k) ==
    [deployer |-> "deployer", completed |-> IF s.completed THEN {D1} ELSE {},
     completed_withdrawals |-> IF s.completed THEN {2} ELSE {},
     txs |-> {SweepTx(b, s.fee, s.twins) : b \in s.blocks} \cup {ForeignTx(B2)},
     chain |-> {[block_hash |-> B1, block_height |-> 1], [block_hash |-> B2, block_height |-> 2]},
     deposits |-> Deposits,
     withdrawals |-> Withdrawals(IF s.twins THEN "alice" ELSE "bob", w.height),
     signer_scripts |-> {"signers"}, inflight |-> w.inflight, active |-> w.active,
     tip_height |-> TipHeight, shares |-> k.shares, rotations |-> k.rotations]

AnySwept == [blocks |-> {}, fee |-> 4, twins |-> FALSE, completed |-> FALSE]
AnyWaiting == [height |-> 3, inflight |-> {}, active |-> {}]
AnyKeys == [shares |-> {}, rotations |-> {}]

DepositCalls ==
    {[kind |-> "CompleteDepositV1", outpoint |-> d.outpoint, amount |-> d.amount - fee,
      recipient |-> r, deployer |-> "deployer", sweep_txid |-> txid, sweep_block_hash |-> b,
      sweep_block_height |-> h] :
        d \in Deposits, fee \in {1, 2, 6, 10}, r \in {"carol", "dave"}, txid \in {Sweep, Foreign},
        b \in {B1, B2, Fork}, h \in {1, 2}}
AcceptCalls ==
    {[kind |-> "AcceptWithdrawalV1", id |-> id, outpoint |-> [txid |-> txid, vout |-> v],
      tx_fee |-> fee, signer_bitmap |-> 0, deployer |-> "deployer", sweep_block_hash |-> b,
      sweep_block_height |-> h] :
        id \in {W1, W2, [W2 EXCEPT !.txid = W1.txid]}, txid \in {Sweep, Foreign}, v \in 1..4,
        fee \in {1, 4, 6}, b \in {B1, B2, Fork}, h \in {1, 2}}
RejectCalls ==
    {[kind |-> "RejectWithdrawalV1", id |-> id, signer_bitmap |-> 0, deployer |-> d] :
        id \in {W1, W2, NoId}, d \in {"deployer", "other"}}
RotateCalls ==
    {[kind |-> "RotateKeysV1", new_keys |-> s, aggregate_key |-> k, deployer |-> "deployer",
      signatures_required |-> m] : s \in {{1, 2}, {1, 2, 3}}, k \in {8, 9}, m \in 1..3}

\* A database and a call that is proposed to its signer.
Databases(call) ==
    CASE call.kind = "RejectWithdrawalV1" -> Swept \X Waiting \X {AnyKeys}
      [] call.kind = "RotateKeysV1" -> {AnySwept} \X {AnyWaiting} \X Keys
      [] OTHER -> Swept \X {AnyWaiting} \X {AnyKeys}

Calls == DepositCalls \cup AcceptCalls \cup RejectCalls \cup RotateCalls

Db(input) == Context(input[1][1], input[1][2], input[1][3])

\* Withdrawal requests of users; Bytes(n) stands for the hash of a recipient.
Bytes(n) == [i \in 1..n |-> 1]
UserRequests(versions) ==
    {[amount |-> a, max_fee |-> f, recipient |-> [version |-> v, hashbytes |-> Bytes(n)],
      request_id |-> 3, sender |-> "alice", height |-> 4] :
        a \in {1, U64_MAX}, f \in {0, 3}, v \in versions, n \in {20, 32}}
=============================================================================
