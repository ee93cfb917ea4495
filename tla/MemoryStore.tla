---------------------------- MODULE MemoryStore ----------------------------
(***************************************************************************)
(* The in-memory store (storage/memory) that stands in for Postgres in the *)
(* unit tests, behind the same DbRead and DbWrite traits.  Maps of vectors *)
(* are bags or sequences here, because a second write of a row is kept.    *)
(* Methods that are `unimplemented!()` have no operator, but for the one   *)
(* that the block observer calls, which panics.                            *)
(***************************************************************************)
EXTENDS SignerDbReads, Bags, SequencesExt

EmptyStore ==
    [ bitcoin_blocks                 |-> {},
      canonical_bitcoin_blocks       |-> {},
      bitcoin_block_to_transactions  |-> {},        \* <<txid, block>>
      bitcoin_transactions_to_blocks |-> EmptyBag,  \* of <<txid, block>>
      bitcoin_outputs                |-> EmptyBag,
      bitcoin_prevouts               |-> EmptyBag,
      stacks_blocks                  |-> {},
      deposit_requests               |-> {},
      deposit_request_to_signers     |-> << >>,
      withdrawal_requests            |-> {},
      withdrawal_request_to_signers  |-> << >>,
      encrypted_dkg_shares           |-> << >>,     \* in the order of time
      rotate_keys_transactions       |-> << >>,
      completed_deposit_events       |-> {},
      withdrawal_accept_events       |-> {},
      withdrawal_reject_events       |-> {},
      bitcoin_sighashes              |-> {},
      bitcoin_withdrawal_outputs     |-> {},
      p2p_peers                      |-> {},
      panicked                       |-> FALSE ]     \* not a field: the caller is gone

One(x) == SetToBag({x})

\* HashMap::insert: the new row replaces the row with its key.
Replace(table, row, Pk(_)) == {r \in table : Pk(r) # Pk(row)} \cup {row}

(***************************************************************************)
(* Writes.                                                                 *)
(***************************************************************************)

MemWriteBitcoinBlock(mem, b) == [mem EXCEPT !.bitcoin_blocks = @ \cup {b}]

MemWriteBitcoinTransactions(mem, txs) ==
    [mem EXCEPT !.bitcoin_block_to_transactions = @ \cup txs,
                !.bitcoin_transactions_to_blocks = @ (+) SetToBag(txs)]

MemWriteStacksBlockHeaders(mem, headers) == [mem EXCEPT !.stacks_blocks = @ \cup headers]

MemWriteTxOutput(mem, row) == [mem EXCEPT !.bitcoin_outputs = @ (+) One(row)]

\* write_withdrawal_tx_output is unimplemented!().
MemWriteWithdrawalTxOutput(mem, row) == [mem EXCEPT !.panicked = TRUE]

MemWriteTxPrevout(mem, row) == [mem EXCEPT !.bitcoin_prevouts = @ (+) One(row)]

MemWriteDepositRequest(mem, d) == [mem EXCEPT !.deposit_requests = @ \cup {d}]

MemWriteDepositRequests(mem, ds) == [mem EXCEPT !.deposit_requests = @ \cup ds]

MemWriteWithdrawalRequest(mem, w) == [mem EXCEPT !.withdrawal_requests = @ \cup {w}]

MemWriteDepositSignerDecision(mem, d, signer, can_accept, can_sign) ==
    [mem EXCEPT !.deposit_request_to_signers =
        Append(@, [outpoint |-> d, signer |-> signer,
                   can_accept |-> can_accept, can_sign |-> can_sign])]

MemWriteWithdrawalSignerDecision(mem, w, signer, is_accepted) ==
    [mem EXCEPT !.withdrawal_request_to_signers =
        Append(@, [request |-> w, signer |-> signer, is_accepted |-> is_accepted])]

MemWriteEncryptedDkgShares(mem, row) ==
    [mem EXCEPT !.encrypted_dkg_shares =
        Append(SelectSeq(@, LAMBDA s : s.key # row.key), row)]

MemWriteRotateKeysTransaction(mem, e) ==
    [mem EXCEPT !.rotate_keys_transactions = Append(@, e)]

MemWriteCompletedDepositEvent(mem, e) ==
    [mem EXCEPT !.completed_deposit_events = Replace(@, e, LAMBDA r : r.outpoint)]

MemWriteWithdrawalAcceptEvent(mem, e) ==
    [mem EXCEPT !.withdrawal_accept_events = Replace(@, e, LAMBDA r : r.request_id)]

MemWriteWithdrawalRejectEvent(mem, e) ==
    [mem EXCEPT !.withdrawal_reject_events = Replace(@, e, LAMBDA r : r.request_id)]

MemSetStatus(mem, key, status) ==
    [mem EXCEPT !.encrypted_dkg_shares =
        [i \in DOMAIN @ |-> IF @[i].key = key /\ @[i].status = "unverified"
                            THEN [@[i] EXCEPT !.status = status] ELSE @[i]]]

MemRevokeDkgShares(mem, key) == MemSetStatus(mem, key, "failed")

MemVerifyDkgShares(mem, key) == MemSetStatus(mem, key, "verified")

MemWriteBitcoinTxsSighashes(mem, rows) ==
    [mem EXCEPT !.bitcoin_sighashes =
        {r \in @ : \A s \in rows : s.sighash # r.sighash} \cup rows]

MemWriteBitcoinWithdrawalsOutputs(mem, rows) ==
    [mem EXCEPT !.bitcoin_withdrawal_outputs =
        {r \in @ : \A s \in rows : s.request # r.request} \cup rows]

MemUpdatePeerConnection(mem, key, id, addr) ==
    [mem EXCEPT !.p2p_peers =
        Replace(@, [key |-> key, id |-> id, addr |-> addr], LAMBDA p : <<p.key, p.id>>)]

\* The stored blocks that a walk over parent hashes visits from the tip.
MemChain(mem, tip) ==
    {b \in Line[tip] : \A c \in Line[tip] : b \in Line[c] => c \in mem.bitcoin_blocks}

MemSetCanonicalBitcoinBlockchain(mem, tip) ==
    [mem EXCEPT !.canonical_bitcoin_blocks = MemChain(mem, tip)]

(***************************************************************************)
(* Reads.                                                                  *)
(***************************************************************************)

MemGetBitcoinBlock(mem, b) == {b} \cap mem.bitcoin_blocks

MemGetStacksBlock(mem, x) == {x} \cap mem.stacks_blocks

MemStacksBlockExists(mem, x) == x \in mem.stacks_blocks

MemIsKnownBitcoinBlockHash(mem, b) == b \in mem.bitcoin_blocks

MemGetBitcoinCanonicalChainTip(mem) ==
    Highest(mem.bitcoin_blocks, LAMBDA b : BtcHeight[b])

MemInCanonicalBitcoinBlockchain(mem, tip, b, height) ==
    b \in MemChain(mem, tip) /\ BtcHeight[b] = height

MemGetStacksChainTip(mem, tip) ==
    LET anchored == {x \in mem.stacks_blocks : Anchor[x] \in MemChain(mem, tip)}
        tallest  == Highest(anchored, LAMBDA x : StxHeight[x])
    IN  Highest(tallest, LAMBDA x : StxRank[x])

MemStacksBlockchain(mem, tip) ==
    {x \in StxLine[tip] : \A y \in StxLine[tip] : x \in StxLine[y] => y \in mem.stacks_blocks}

MemGetBitcoinBlocksWithTransaction(mem, txid) ==
    {p[2] : p \in {q \in BagToSet(mem.bitcoin_transactions_to_blocks) : q[1] = txid}}

\* get_deposit_requests: the window is a number of blocks, none when it is 0.
MemGetDepositRequests(mem, tip, window) ==
    {d \in mem.deposit_requests :
        \E b \in MemChain(mem, tip) :
            Depth(tip, b) <= window /\ <<d[1], b>> \in mem.bitcoin_block_to_transactions}

MemVotes(mem, d) == SelectSeq(mem.deposit_request_to_signers, LAMBDA v : v.outpoint = d)

MemGetPendingDepositRequests(mem, tip, window, signer) ==
    {d \in MemGetDepositRequests(mem, tip, window) :
        ~\E v \in ToSet(mem.deposit_request_to_signers) : v.outpoint = d /\ v.signer = signer}

\* Every stored vote counts, and a swept deposit is not left out.
MemGetPendingAcceptedDepositRequests(mem, tip, window, threshold) ==
    {d \in MemGetDepositRequests(mem, tip, window) :
        /\ \E b \in MemChain(mem, tip) \cap MemGetBitcoinBlocksWithTransaction(mem, d[1]) :
              /\ Depth(tip, b) <= window
              /\ BtcHeight[b] + LockTime[d] >= BtcHeight[tip] + DepositLocktimeBlockBuffer + 1
        /\ Len(SelectSeq(MemVotes(mem, d), LAMBDA v : v.can_accept /\ v.can_sign)) >= threshold}

MemGetDepositSigners(mem, d) == ToSet(MemVotes(mem, d))

MemGetWithdrawalSigners(mem, w) ==
    {v \in ToSet(mem.withdrawal_request_to_signers) : v.request = w}

MemCanSignDepositTx(mem, d, signer) ==
    {\E s \in ToSet(mem.encrypted_dkg_shares) : signer \in s.signer_set /\ s.key = DepositKey[r] :
        r \in {d} \cap mem.deposit_requests}

MemDepositRequestExists(mem, d) == d \in mem.deposit_requests

MemGetDepositRequest(mem, d) == {d} \cap mem.deposit_requests

\* The chain of Stacks blocks anchored no lower than the end of the window,
\* which is the window-th ancestor of the tip or the oldest stored one.
MemStacksWindow(mem, tip, window) ==
    LET chain == {b \in MemChain(mem, tip) : Depth(tip, b) <= window + 1}
        end   == Min({BtcHeight[b] : b \in chain})
        in(x) == Anchor[x] \in mem.bitcoin_blocks /\ BtcHeight[Anchor[x]] >= end
    IN  IF chain = {} THEN {} ELSE
        UNION {{y \in MemStacksBlockchain(mem, x) :
                   \A z \in MemStacksBlockchain(mem, x) : y \in StxLine[z] => in(z)} :
                 x \in MemGetStacksChainTip(mem, tip)}

MemGetWithdrawalRequests(mem, tip, window) ==
    {w \in mem.withdrawal_requests : w.block \in MemStacksWindow(mem, tip, window)}

MemGetPendingWithdrawalRequests(mem, tip, window, signer) ==
    {w \in MemGetWithdrawalRequests(mem, tip, window) :
        ~\E v \in MemGetWithdrawalSigners(mem, w) : v.signer = signer}

MemLatestWith(mem, statuses) ==
    LET with == SelectSeq(mem.encrypted_dkg_shares, LAMBDA s : s.status \in statuses)
    IN  IF with = << >> THEN {} ELSE {Last(with)}

MemGetEncryptedDkgShares(mem, key) ==
    {s \in ToSet(mem.encrypted_dkg_shares) : s.key = key}

MemGetLatestEncryptedDkgShares(mem) ==
    MemLatestWith(mem, {"unverified", "verified", "failed"})

MemGetLatestVerifiedDkgShares(mem) == MemLatestWith(mem, {"verified"})

MemGetLatestNonFailedDkgShares(mem) == MemLatestWith(mem, {"unverified", "verified"})

MemGetEncryptedDkgSharesCount(mem) ==
    Len(SelectSeq(mem.encrypted_dkg_shares, LAMBDA s : s.status # "failed"))

MemGetLastKeyRotation(mem, tip) ==
    UNION {Highest({r \in ToSet(mem.rotate_keys_transactions) :
                       r.block \in MemStacksBlockchain(mem, x)},
                   LAMBDA r : StxHeight[r.block]) :
              x \in MemGetStacksChainTip(mem, tip)}

MemGetSignersScriptPubkeys(mem) ==
    {Script[s.key] : s \in ToSet(mem.encrypted_dkg_shares)}

MemIsSignerScriptPubKey(mem, script) ==
    \/ \E s \in ToSet(mem.encrypted_dkg_shares) : Script[s.key] = script
    \/ \E o \in BagToSet(mem.bitcoin_outputs) : o.type = "signers_output" /\ o.script = script

\* The votes are those of the signer set of a rotation to the key, and
\* can_sign does not matter; a signer's last vote wins.
MemGetDepositRequestSignerVotes(mem, d, key) ==
    LET sets == {r.signer_set : r \in {q \in ToSet(mem.rotate_keys_transactions) : q.key = key}}
        own(s) == SelectSeq(MemVotes(mem, d), LAMBDA v : v.signer = s)
    IN  {[signer |-> s,
          is_accepted |-> IF own(s) = << >> THEN "null" ELSE Last(own(s)).can_accept] :
            s \in UNION sets}

MemGetWithdrawalRequestSignerVotes(mem, w, key) ==
    LET sets == {r.signer_set : r \in {q \in ToSet(mem.rotate_keys_transactions) : q.key = key}}
        own(s) == SelectSeq(mem.withdrawal_request_to_signers,
                            LAMBDA v : v.request = w /\ v.signer = s)
    IN  {[signer |-> s,
          is_accepted |-> IF own(s) = << >> THEN "null" ELSE Last(own(s)).is_accepted] :
            s \in UNION sets}

\* The first output of each transaction of the highest block that has one of
\* the type paying the latest key, when exactly one is not spent in that block.
MemUtxoOfType(mem, tip, type, script) ==
    LET outs(b) == {o \in BagToSet(mem.bitcoin_outputs) :
                      /\ <<o.txid, b>> \in mem.bitcoin_block_to_transactions
                      /\ o.index = 0 /\ o.type = type /\ o.script = script}
        top     == Highest({b \in MemChain(mem, tip) : outs(b) # {}}, LAMBDA b : BtcHeight[b])
    IN  UNION {{o \in outs(b) :
                  ~\E i \in BagToSet(mem.bitcoin_prevouts) :
                      i.prevout = <<o.txid, 0>> /\ \E p \in outs(b) : p.txid = i.txid} : b \in top}

MemGetSignerUtxo(mem, tip) ==
    UNION {LET swept == MemUtxoOfType(mem, tip, "signers_output", Script[s.key])
           IN  IF swept # {} THEN swept
               ELSE MemUtxoOfType(mem, tip, "donation", Script[s.key]) :
             s \in MemGetLatestEncryptedDkgShares(mem)}

\* `amount` gives the amount of each request.
MemComputeWithdrawnTotal(mem, tip, window, amount) ==
    LET chain == {b \in MemChain(mem, tip) : b = tip \/ Depth(tip, b) <= window}
        swept == {r.request : r \in {o \in mem.bitcoin_withdrawal_outputs :
                    \E b \in chain : <<o.txid, b>> \in mem.bitcoin_block_to_transactions}}
    IN  MapThenSumSet(LAMBDA w : amount[w], swept \cap mem.withdrawal_requests)

\* Without timestamps, the requests in the window stand for the young votes.
MemGetDepositSignerDecisions(mem, tip, window, signer) ==
    {v \in ToSet(mem.deposit_request_to_signers) :
        v.signer = signer /\ v.outpoint \in MemGetDepositRequests(mem, tip, window)}

MemGetWithdrawalSignerDecisions(mem, tip, window, signer) ==
    {v \in ToSet(mem.withdrawal_request_to_signers) :
        v.signer = signer /\ v.request.block \in MemStacksWindow(mem, tip, window)}

MemWillSignBitcoinTxSighash(mem, sighash) ==
    {r.will_sign : r \in {s \in mem.bitcoin_sighashes : s.sighash = sighash}}

MemGetP2pPeers(mem) == mem.p2p_peers

(***************************************************************************)
(* Transactions.  `shared` is the store behind its mutex with its version; *)
(* a transaction works on a clone and checks the version when it commits.  *)
(***************************************************************************)

\* Every write but update_peer_connection counts the version up.
MemWrite(shared, written) == [version |-> shared.version + 1, store |-> written]

MemWriteUnversioned(shared, written) == [shared EXCEPT !.store = written]

BeginTransaction(shared) == [version |-> shared.version, store |-> shared, completed |-> FALSE]

\* A transaction reads and writes its clone, whose version counts up too.
InMemoryTransactionRead(tx) == tx.store.store

InMemoryTransactionWrite(tx, written) == [tx EXCEPT !.store = MemWrite(@, written)]

InMemoryTransactionWriteUnversioned(tx, written) ==
    [tx EXCEPT !.store = MemWriteUnversioned(@, written)]

CanCommit(tx, shared) == tx.version = shared.version

\* mutant: the clone is not swapped in
CommitVersionOnly(tx, shared) == [shared EXCEPT !.version = @ + 1]

Commit(tx, shared) == [version |-> tx.version + 1, store |-> tx.store.store]

Rollback(tx) == [tx EXCEPT !.completed = TRUE]
=============================================================================
