------------------------- MODULE MemoryTransactions -------------------------
(***************************************************************************)
(* Transactions of the in-memory store (storage/memory/store.rs): clients  *)
(* that write deposit requests, votes and peers, each write either         *)
(* directly on the shared store or in a transaction on a clone of it.      *)
(***************************************************************************)
EXTENDS MemoryStore

CONSTANTS
    Client,
    Request,   \* deposit outpoints, to write and to vote on
    Voter,     \* the signers that vote
    Peer,      \* peers to write
    Address,   \* the addresses they connect from
    MaxVersion, \* bound on the version of the store
    MaxWrites  \* bound on the writes of a transaction

VARIABLES
    shared,    \* the store behind its mutex, with its version
    txs,       \* client -> its open transaction, at most one
    written,   \* client -> what its open transaction has written, in order
    durable,   \* the store that holds exactly the writes that returned Ok, or
               \* whose commit did
    exposed    \* peers last written directly while a transaction was open

memVars == <<shared, txs, written, durable, exposed>>

\* A table of rows, one that keeps every write in a list, and the peers.
Writes ==
    [table : {"requests"}, row : {<<r>> : r \in Request}]
        \cup [table : {"votes"}, row : Request \X Voter]
        \cup [table : {"peers"}, row : Peer \X Address]

WriteRow(store, w) ==
    CASE w.table = "requests" -> MemWriteDepositRequest(store, w.row[1])
      [] w.table = "votes"    -> MemWriteDepositSignerDecision(store, w.row[1], w.row[2], TRUE, TRUE)
      [] w.table = "peers"    -> MemUpdatePeerConnection(store, w.row[1], w.row[1], w.row[2])

\* update_peer_connection does not count the version up.
Counted(w) == w.table # "peers"

Holds(store, w) ==
    CASE w.table = "votes" -> \E v \in MemGetDepositSigners(store, w.row[1]) : v.signer = w.row[2]
      [] OTHER             -> WriteRow(store, w) = store

MemInit ==
    /\ shared = [version |-> 0, store |-> EmptyStore]
    /\ txs = [c \in Client |-> {}]
    /\ written = [c \in Client |-> << >>]
    /\ durable = EmptyStore
    /\ exposed = {}

\* No write is made while the store holds it, or a transaction will.
Possible(w) ==
    /\ ~Holds(durable, w)
    /\ \A c \in Client : w \notin ToSet(written[c])

PeersOf(writes) == {w.row[1] : w \in {v \in ToSet(writes) : v.table = "peers"}}

DirectWrite ==
    /\ \E w \in Writes :
          /\ Counted(w)
          /\ Possible(w)
          /\ shared' = MemWrite(shared, WriteRow(shared.store, w))
          /\ durable' = WriteRow(durable, w)
    /\ UNCHANGED <<txs, written, exposed>>

DirectPeerWrite ==
    /\ \E w \in Writes :
          /\ ~Counted(w)
          /\ Possible(w)
          /\ shared' = MemWriteUnversioned(shared, WriteRow(shared.store, w))
          /\ durable' = WriteRow(durable, w)
          /\ exposed' = IF \A c \in Client : txs[c] = {} THEN exposed \ {w.row[1]}
                        ELSE exposed \cup {w.row[1]}
    /\ UNCHANGED <<txs, written>>

Begin(c) ==
    /\ txs[c] = {}
    /\ shared.version < MaxVersion
    /\ txs' = [txs EXCEPT ![c] = {BeginTransaction(shared)}]
    /\ UNCHANGED <<shared, written, durable, exposed>>

TxWrite(c) ==
    /\ \E w \in Writes, tx \in txs[c] :
          LET store == InMemoryTransactionRead(tx) IN
          /\ Len(written[c]) < MaxWrites
          /\ Possible(w)
          /\ txs' = [txs EXCEPT ![c] =
                        {IF Counted(w) THEN InMemoryTransactionWrite(tx, WriteRow(store, w))
                         ELSE InMemoryTransactionWriteUnversioned(tx, WriteRow(store, w))}]
          /\ written' = [written EXCEPT ![c] = Append(@, w)]
    /\ UNCHANGED <<shared, durable, exposed>>

\* commit: with another version than at the start it fails, and the
\* transaction is gone either way.
TxCommit(c) ==
    /\ \E tx \in txs[c] :
          IF CanCommit(tx, shared)
          THEN /\ shared' = Commit(tx, shared)
               /\ durable' = FoldLeft(WriteRow, durable, written[c])
               /\ exposed' = exposed \ PeersOf(written[c])
          ELSE UNCHANGED <<shared, durable, exposed>>
    /\ txs' = [txs EXCEPT ![c] = {}]
    /\ written' = [written EXCEPT ![c] = << >>]

\* An explicit rollback, or a transaction that is dropped.
TxRollback(c) ==
    /\ \E tx \in txs[c] : Rollback(tx).completed
    /\ txs' = [txs EXCEPT ![c] = {}]
    /\ written' = [written EXCEPT ![c] = << >>]
    /\ UNCHANGED <<shared, durable, exposed>>

MemNext ==
    \/ DirectWrite
    \/ DirectPeerWrite
    \/ \E c \in Client : Begin(c) \/ TxWrite(c) \/ TxCommit(c) \/ TxRollback(c)

MemSpec == MemInit /\ [][MemNext]_memVars

WithoutPeers(store) == [store EXCEPT !.p2p_peers = {}]

RowsOf(store, p) == {q \in MemGetP2pPeers(store) : q.key = p}

\* A commit replaces the whole store by the transaction's clone.  The version
\* check keeps it from undoing a write made since the clone was taken: every
\* table holds what was acknowledged, in its order, and what was rolled back
\* never shows.  The peers are the exception, whose writes the version does not
\* count: a peer written directly while a transaction is open is lost when that
\* transaction commits, and no other peer is.
CommitsLoseNothing ==
    /\ WithoutPeers(shared.store) = WithoutPeers(durable)
    /\ \A p \in Peer \ exposed : RowsOf(shared.store, p) = RowsOf(durable, p)

\* A transaction whose clone misses an acknowledged write, but for peers, can no
\* longer commit, so what it has read is still true when it does.
StaleTransactionsFail ==
    \A c \in Client : \A tx \in txs[c] :
        CanCommit(tx, shared) =>
            WithoutPeers(InMemoryTransactionRead(tx))
                = WithoutPeers(FoldLeft(WriteRow, durable, written[c]))
=============================================================================
