------------------------------ MODULE SignerDb ------------------------------
(***************************************************************************)
(* The Postgres tables of one signer and the writes of `PgWrite`           *)
(* (storage/postgres/write.rs).  A database is a record of tables, a table *)
(* is a set of rows, and a write is an operator from a database to the     *)
(* next one.  A hash determines what it is the hash of, so a block row is  *)
(* the block's hash and a transaction row the pair of the transaction id   *)
(* and the hash of a block that has it; headers and transaction bodies are *)
(* the constants below.                                                    *)
(*                                                                         *)
(* A row's `created_at` is only ever compared with the `created_at` of a   *)
(* Bitcoin block, so a vote keeps the set of blocks stored before it.      *)
(***************************************************************************)
EXTENDS Integers, Sequences, FiniteSets

CONSTANTS
    Block,          \* hashes of Bitcoin blocks
    BtcParent,      \* the previous block hash in each header
    BtcHeight,
    StxBlock,       \* ids of Stacks blocks
    StxParent,
    StxHeight,
    StxRank,        \* the order of Stacks block ids, which breaks ties
    Anchor,         \* the Bitcoin block of a Stacks block's tenure
    TxIns,          \* txid -> sequence of [txid, vout, script]
    TxOuts,         \* txid -> sequence of [script, amount]
    OpReturnIds,    \* txid -> the request ids its OP_RETURN decodes to
    Script,         \* aggregate key -> the signers' scriptPubKey
    DepositKey,     \* deposit outpoint -> signers' key in its script
    LockTime,       \* deposit outpoint -> blocks until it can be reclaimed
    Expired         \* keys and txids whose rows are over a year old

NoBlock == "no block"

(***************************************************************************)
(* Insertion.                                                              *)
(***************************************************************************)

\* INSERT ... ON CONFLICT DO NOTHING: a row is only added when no row of the
\* table has its primary key.
Insert(table, row, Pk(_)) ==
    IF \E r \in table : Pk(r) = Pk(row) THEN table ELSE table \cup {row}

EmptyDb ==
    [ bitcoin_blocks           |-> {},
      is_canonical             |-> [b \in Block |-> "null"],
      bitcoin_transactions     |-> {},
      bitcoin_tx_inputs        |-> {},
      bitcoin_tx_outputs       |-> {},
      withdrawal_tx_outputs    |-> {},
      stacks_blocks            |-> {},
      deposit_requests         |-> {},
      deposit_signers          |-> {},
      withdrawal_requests      |-> {},
      withdrawal_signers       |-> {},
      dkg_shares               |-> << >>,
      rotate_keys_transactions |-> {},
      completed_deposit_events |-> {},
      withdrawal_accept_events |-> {},
      withdrawal_reject_events |-> {},
      bitcoin_tx_sighashes     |-> {},
      withdrawals_outputs      |-> {},
      p2p_peers                |-> {} ]

(***************************************************************************)
(* Blocks and transactions.                                                *)
(***************************************************************************)

WriteBitcoinBlocks(db, bs) ==
    [db EXCEPT !.bitcoin_blocks = @ \cup bs]

WriteBitcoinBlock(db, b) == WriteBitcoinBlocks(db, {b})

WriteStacksBlock(db, x) ==
    [db EXCEPT !.stacks_blocks = @ \cup {x}]

\* The headers of a whole tenure in one statement.
WriteStacksBlockHeaders(db, headers) ==
    [db EXCEPT !.stacks_blocks = @ \cup headers]

WriteBitcoinTransaction(db, tx) ==
    [db EXCEPT !.bitcoin_transactions = @ \cup {tx}]

WriteBitcoinTransactions(db, txs) ==
    [db EXCEPT !.bitcoin_transactions = @ \cup txs]

\* The key is the output, not its type: the first classification stays.
WriteTxOutputs(db, rows) ==
    [db EXCEPT !.bitcoin_tx_outputs =
        @ \cup {r \in rows : \A o \in @ : <<o.txid, o.index>> # <<r.txid, r.index>>}]

WriteTxOutput(db, row) == WriteTxOutputs(db, {row})

WriteWithdrawalTxOutputs(db, rows) ==
    [db EXCEPT !.withdrawal_tx_outputs =
        @ \cup {r \in rows : \A o \in @ : <<o.txid, o.index>> # <<r.txid, r.index>>}]

WriteTxPrevouts(db, rows) ==
    [db EXCEPT !.bitcoin_tx_inputs =
        @ \cup {r \in rows : \A i \in @ : <<i.txid, i.prevout>> # <<r.txid, r.prevout>>}]

(***************************************************************************)
(* Requests, votes and events.                                             *)
(***************************************************************************)

WriteDepositRequest(db, d) ==
    [db EXCEPT !.deposit_requests = @ \cup {d}]

WriteDepositRequests(db, ds) ==
    [db EXCEPT !.deposit_requests = @ \cup ds]

\* A withdrawal request is known by its id and the Stacks block it is in.
WriteWithdrawalRequest(db, w) ==
    [db EXCEPT !.withdrawal_requests = @ \cup {w}]

\* A signer votes once: a second row of the same signer is dropped.
WriteDepositSignerDecisions(db, votes) ==
    [db EXCEPT !.deposit_signers =
        @ \cup {v \in votes : \A r \in @ : <<r.outpoint, r.signer>> # <<v.outpoint, v.signer>>}]

WriteDepositSignerDecision(db, d, signer, can_accept, can_sign) ==
    WriteDepositSignerDecisions(db, {[outpoint |-> d, signer |-> signer, can_accept |-> can_accept,
                                      can_sign |-> can_sign, known |-> db.bitcoin_blocks]})

WriteWithdrawalSignerDecision(db, w, signer, is_accepted) ==
    [db EXCEPT !.withdrawal_signers =
        Insert(@, [request |-> w, signer |-> signer, is_accepted |-> is_accepted,
                   known |-> db.bitcoin_blocks],
               LAMBDA r : <<r.request, r.signer>>)]

\* The event tables have a serial key, so a webhook that is delivered twice
\* writes the event twice.  No query counts the rows, so a set is enough.
WriteCompletedDepositEvent(db, e) ==
    [db EXCEPT !.completed_deposit_events = @ \cup {e}]

WriteWithdrawalAcceptEvent(db, e) ==
    [db EXCEPT !.withdrawal_accept_events = @ \cup {e}]

WriteWithdrawalRejectEvent(db, e) ==
    [db EXCEPT !.withdrawal_reject_events = @ \cup {e}]

WriteRotateKeysTransaction(db, e) ==
    [db EXCEPT !.rotate_keys_transactions =
        Insert(@, e, LAMBDA r : <<r.txid, r.block>>)]

(***************************************************************************)
(* DKG shares.  The sequence is in the order of created_at.                *)
(***************************************************************************)

WriteEncryptedDkgShares(db, row) ==
    IF \E i \in DOMAIN db.dkg_shares : db.dkg_shares[i].key = row.key
    THEN db
    ELSE [db EXCEPT !.dkg_shares = Append(@, row)]

SetStatus(db, key, status) ==
    [db EXCEPT !.dkg_shares =
        [i \in DOMAIN @ |->
            IF @[i].key = key /\ @[i].status = "unverified"
            THEN [@[i] EXCEPT !.status = status]
            ELSE @[i]]]

RevokeDkgShares(db, key) == SetStatus(db, key, "failed")

VerifyDkgShares(db, key) == SetStatus(db, key, "verified")

(***************************************************************************)
(* What a signer decided about the transactions it was asked to sign.      *)
(***************************************************************************)

WriteBitcoinTxsSighashes(db, rows) ==
    [db EXCEPT !.bitcoin_tx_sighashes =
        @ \cup {r \in rows : \A s \in @ : s.sighash # r.sighash}]

WriteBitcoinWithdrawalsOutputs(db, rows) ==
    [db EXCEPT !.withdrawals_outputs =
        @ \cup {r \in rows : \A s \in @ : <<s.txid, s.index>> # <<r.txid, r.index>>}]

(***************************************************************************)
(* Peers.  public_key is the primary key and peer_id has a unique index, so*)
(* the upsert only ever refreshes the row of the same pair; a new public   *)
(* key with a known peer id breaks the unique index and the write fails.   *)
(***************************************************************************)
UpdatePeerConnection(db, key, id, addr) ==
    [db EXCEPT !.p2p_peers =
        IF \E p \in @ : p.key = key
        THEN {IF p.key = key /\ p.id = id THEN [p EXCEPT !.addr = addr] ELSE p : p \in @}
        ELSE IF \E p \in @ : p.id = id
        THEN @
        ELSE @ \cup {[key |-> key, id |-> id, addr |-> addr]}]

(***************************************************************************)
(* set_canonical_bitcoin_blockchain: walk back from the tip over stored    *)
(* blocks to the first one already marked, which is included, and rewrite  *)
(* the mark of every stored block from that height up.                     *)
(***************************************************************************)

\* The blocks from b down to the first block of the modelled chain.
Line[b \in Block] ==
    IF BtcParent[b] \in Block THEN {b} \cup Line[BtcParent[b]] ELSE {b}

\* The stored blocks that a walk over parent hashes visits from the tip.
BitcoinChain(db, tip) ==
    {b \in Line[tip] : \A c \in Line[tip] : b \in Line[c] => c \in db.bitcoin_blocks}

CanonicalWalk(db, tip) ==
    {b \in BitcoinChain(db, tip) :
        \A c \in Line[tip] : b \in Line[c] /\ c # b => db.is_canonical[c] # "true"}

SetCanonicalBitcoinBlockchain(db, tip) ==
    LET walk == CanonicalWalk(db, tip)
    IN  [db EXCEPT !.is_canonical =
            [b \in Block |->
                IF /\ b \in db.bitcoin_blocks
                   /\ walk = {} \/ \E c \in walk : BtcHeight[b] >= BtcHeight[c]
                THEN IF b \in walk THEN "true" ELSE "false"
                ELSE @[b]]]

(***************************************************************************)
(* PgTransaction runs an operation on the transaction's connection: what   *)
(* it has written is its own until commit.                                 *)
(***************************************************************************)
PgTransactionWrite(tx, written) == [tx EXCEPT !.db = written]
=============================================================================
