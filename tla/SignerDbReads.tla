--------------------------- MODULE SignerDbReads ---------------------------
(***************************************************************************)
(* The queries of `PgRead` (storage/postgres/read.rs) that block           *)
(* observation, deposits and signing use.  An optional row is a set of at  *)
(* most one row; where the SQL says LIMIT 1 without an order, the operator *)
(* is the set of the rows Postgres may return.                             *)
(***************************************************************************)
EXTENDS SignerDb, FiniteSetsExt

CONSTANTS
    MaxReorgBlockCount,        \* MAX_REORG_BLOCK_COUNT
    MaxMempoolPackageTxCount,  \* MAX_MEMPOOL_PACKAGE_TX_COUNT
    DepositLocktimeBlockBuffer \* DEPOSIT_LOCKTIME_BLOCK_BUFFER

Highest(S, Rank(_)) == {x \in S : \A y \in S : Rank(y) <= Rank(x)}

Monus(a, b) == IF a >= b THEN a - b ELSE 0

(***************************************************************************)
(* Chains.                                                                 *)
(***************************************************************************)

Depth(tip, b) == 1 + BtcHeight[tip] - BtcHeight[b]

\* bitcoin_blockchain_of: the tip is returned whatever the window.
BitcoinBlockchainOf(db, tip, window) ==
    {b \in BitcoinChain(db, tip) : b = tip \/ Depth(tip, b) <= window}

BitcoinBlockchainUntil(db, tip, height) ==
    {b \in BitcoinChain(db, tip) : b = tip \/ BtcHeight[b] >= height}

StxLine[x \in StxBlock] ==
    IF StxParent[x] \in StxBlock THEN {x} \cup StxLine[StxParent[x]] ELSE {x}

\* The stored Stacks blocks that a walk over parent ids visits.
StacksChain(db, tip) ==
    {x \in StxLine[tip] : \A y \in StxLine[tip] : x \in StxLine[y] => y \in db.stacks_blocks}

GetBitcoinBlock(db, b) == {b} \cap db.bitcoin_blocks

GetStacksBlock(db, x) == {x} \cap db.stacks_blocks

\* Ordered by height, then hash; the order of two hashes at one height is
\* any fixed order, so any highest block may be the answer.
GetBitcoinCanonicalChainTip(db) ==
    Highest(db.bitcoin_blocks, LAMBDA b : BtcHeight[b])

GetBitcoinCanonicalChainTipRef(db) ==
    {[block_hash |-> b, block_height |-> BtcHeight[b]] :
        b \in GetBitcoinCanonicalChainTip(db)}

GetStacksChainTip(db, tip) ==
    LET anchored == {x \in db.stacks_blocks : Anchor[x] \in BitcoinChain(db, tip)}
        tallest  == Highest(anchored, LAMBDA x : StxHeight[x])
    IN  Highest(tallest, LAMBDA x : StxRank[x])

IsKnownBitcoinBlockHash(db, b) == b \in db.bitcoin_blocks

StacksBlockExists(db, x) == x \in db.stacks_blocks

\* The walk makes one step more than the difference of the heights.
InCanonicalBitcoinBlockchain(db, tip, b, height) ==
    /\ b \in BitcoinChain(db, tip)
    /\ Depth(tip, b) <= Monus(BtcHeight[tip], height) + 2
    /\ BtcHeight[b] = height

BlocksWith(db, txid) ==
    {b \in db.bitcoin_blocks : <<txid, b>> \in db.bitcoin_transactions}

GetBitcoinBlocksWithTransaction(db, txid) == BlocksWith(db, txid)

ConfirmedIn(db, txid, blocks) == BlocksWith(db, txid) \cap blocks # {}

(***************************************************************************)
(* The signers' UTXO.                                                      *)
(***************************************************************************)

Rows(db, type) == {o \in db.bitcoin_tx_outputs : o.type = type}

SpentIn(db, o, blocks) ==
    \E i \in db.bitcoin_tx_inputs :
        /\ i.type = "signers_input"
        /\ i.prevout = <<o.txid, o.index>>
        /\ ConfirmedIn(db, i.txid, blocks)

\* get_utxo: only an output whose script is in dkg_shares has a key to
\* return with it, and the largest amount wins.
GetUtxo(db, tip, type, min_height) ==
    LET chain == BitcoinBlockchainUntil(db, tip, min_height)
    IN  Highest({o \in Rows(db, type) :
                    /\ ConfirmedIn(db, o.txid, chain)
                    /\ \E i \in DOMAIN db.dkg_shares : Script[db.dkg_shares[i].key] = o.script
                    /\ ~SpentIn(db, o, chain)},
                LAMBDA o : o.amount)

\* Whether or not the donation is spent, and on whatever fork it is.
MinimumDonationTxoHeight(db) ==
    LET heights == {BtcHeight[b] : b \in UNION {BlocksWith(db, o.txid) : o \in Rows(db, "donation")}}
    IN  IF heights = {} THEN {} ELSE {Min(heights)}

GetDonationUtxo(db, tip) ==
    UNION {GetUtxo(db, tip, "donation", h) : h \in MinimumDonationTxoHeight(db)}

\* The sweeps that spend a signers' output at or below a height, with the
\* height of their first confirmation.
SignerInputs(db, height) ==
    {[txid |-> i.txid, prev |-> i.prevout[1], height |-> Min({BtcHeight[b] : b \in {
          c \in BlocksWith(db, i.txid) : BtcHeight[c] <= height}})] :
        i \in {j \in db.bitcoin_tx_inputs :
                  /\ j.type = "signers_input"
                  /\ \E b \in BlocksWith(db, j.txid) : BtcHeight[b] <= height}}

\* tx_chain: the sweeps reached from txid in fewer than n steps back.
TxChain(inputs, txid, n) ==
    LET reach[k \in 1..n] ==
            IF k = 1 THEN {i \in inputs : i.txid = txid}
            ELSE reach[k - 1] \cup {i \in inputs : \E c \in reach[k - 1] : c.prev = i.txid}
    IN  reach[n]

\* mutant: no allowance for a reorganization
MinimumUtxoHeightOfTip(db) ==
    LET unspent == {o \in Rows(db, "signers_output") : ~SpentIn(db, o, db.bitcoin_blocks)}
        heights == UNION {{BtcHeight[b] : b \in BlocksWith(db, o.txid)} : o \in unspent}
    IN  Highest(heights, LAMBDA h : h)

\* minimum_utxo_height: from the highest signers' output that nothing
\* spends, back along the sweeps to one at least MAX_REORG_BLOCK_COUNT lower.
MinimumUtxoHeight(db) ==
    LET unspent == {o \in Rows(db, "signers_output") : ~SpentIn(db, o, db.bitcoin_blocks)}
        places  == UNION {{<<o.txid, BtcHeight[b]>> : b \in BlocksWith(db, o.txid)} : o \in unspent}
        floor(h) == Monus(h, MaxReorgBlockCount)
        older(p) == {i.height : i \in {
                        j \in TxChain(SignerInputs(db, p[2]), p[1],
                                      MaxMempoolPackageTxCount * MaxReorgBlockCount + 1) :
                            j.height <= floor(p[2])}}
    IN  {IF older(p) = {} THEN floor(p[2]) ELSE Max(older(p)) :
            p \in Highest(places, LAMBDA q : q[2])}

GetSignerUtxo(db, tip) ==
    LET swept == UNION {GetUtxo(db, tip, "signers_output", h) : h \in MinimumUtxoHeight(db)}
    IN  IF swept # {} THEN swept ELSE GetDonationUtxo(db, tip)

(***************************************************************************)
(* DKG shares and scripts.                                                 *)
(***************************************************************************)

Shares(db) == {db.dkg_shares[i] : i \in DOMAIN db.dkg_shares}

\* The key is looked up by its x coordinate.
GetEncryptedDkgShares(db, key) == {s \in Shares(db) : s.key = key}

LatestWith(db, statuses) ==
    {db.dkg_shares[i] : i \in Highest({j \in DOMAIN db.dkg_shares :
                                          db.dkg_shares[j].status \in statuses},
                                      LAMBDA j : j)}

GetLatestEncryptedDkgShares(db) == LatestWith(db, {"unverified", "verified", "failed"})

GetLatestVerifiedDkgShares(db) == LatestWith(db, {"verified"})

GetLatestNonFailedDkgShares(db) == LatestWith(db, {"unverified", "verified"})

GetEncryptedDkgSharesCount(db) ==
    Cardinality({s \in Shares(db) : s.status # "failed"})

\* The latest key always counts, older ones for a year, and a script of a
\* confirmed signers' output for a year, whether or not its key is ours.
GetSignersScriptPubkeys(db) ==
    {Script[s.key] : s \in GetLatestEncryptedDkgShares(db)}
        \cup {Script[s.key] : s \in {t \in Shares(db) : t.key \notin Expired}}
        \cup {o.script : o \in {p \in Rows(db, "signers_output") : p.txid \notin Expired}}

IsSignerScriptPubKey(db, script) ==
    \/ \E s \in Shares(db) : Script[s.key] = script
    \/ \E o \in Rows(db, "signers_output") : o.script = script

(***************************************************************************)
(* Key rotations.                                                          *)
(***************************************************************************)

GetLastKeyRotation(db, tip) ==
    UNION {Highest({r \in db.rotate_keys_transactions : r.block \in StacksChain(db, x)},
                   LAMBDA r : StxHeight[r.block]) :
              x \in GetStacksChainTip(db, tip)}

KeyRotationExists(db, stx_tip, signer_set, key, required) ==
    \E r \in db.rotate_keys_transactions :
        /\ r.block \in StacksChain(db, stx_tip)
        /\ r.signer_set = signer_set
        /\ r.key = key
        /\ r.required = required

(***************************************************************************)
(* Deposits.                                                               *)
(***************************************************************************)

DepositRequestExists(db, d) == d \in db.deposit_requests

GetDepositRequest(db, d) == {d} \cap db.deposit_requests

GetPendingDepositRequests(db, tip, window, signer) ==
    {d \in db.deposit_requests :
        /\ ConfirmedIn(db, d[1], BitcoinBlockchainOf(db, tip, window))
        /\ ~\E v \in db.deposit_signers : v.outpoint = d /\ v.signer = signer}

\* mutant: no buffer before the depositor can reclaim
PendingAcceptedWithoutBuffer(db, tip, window, threshold) ==
    LET chain == BitcoinBlockchainOf(db, tip, window)
    IN  {d \in db.deposit_requests :
            /\ \E b \in BlocksWith(db, d[1]) \cap chain :
                  BtcHeight[b] + LockTime[d] >= BtcHeight[tip] + 1
            /\ Cardinality({v \in db.deposit_signers :
                               v.outpoint = d /\ v.can_accept /\ v.can_sign}) >= threshold
            /\ ~\E i \in db.bitcoin_tx_inputs : i.prevout = d /\ ConfirmedIn(db, i.txid, chain)}

\* Accepted by enough signers that can sign for it, reclaimable only after
\* the buffer, and not yet swept on this chain.
GetPendingAcceptedDepositRequests(db, tip, window, threshold) ==
    LET chain == BitcoinBlockchainOf(db, tip, window)
    IN  {d \in db.deposit_requests :
            /\ \E b \in BlocksWith(db, d[1]) \cap chain :
                  BtcHeight[b] + LockTime[d] >= BtcHeight[tip] + DepositLocktimeBlockBuffer + 1
            /\ Cardinality({v \in db.deposit_signers :
                               v.outpoint = d /\ v.can_accept /\ v.can_sign}) >= threshold
            /\ ~\E i \in db.bitcoin_tx_inputs : i.prevout = d /\ ConfirmedIn(db, i.txid, chain)}

\* The vote of a member of the key's signer set, {} when there is none.
GetDepositRequestSignerVotes(db, d, key) ==
    {[signer |-> s,
      is_accepted |-> {v.can_accept /\ v.can_sign :
                          v \in {r \in db.deposit_signers : r.outpoint = d /\ r.signer = s}}] :
        s \in UNION {r.signer_set : r \in GetEncryptedDkgShares(db, key)}}

GetWithdrawalRequestSignerVotes(db, w, key) ==
    {[signer |-> s,
      is_accepted |-> {v.is_accepted :
                          v \in {r \in db.withdrawal_signers : r.request = w /\ r.signer = s}}] :
        s \in UNION {r.signer_set : r \in GetEncryptedDkgShares(db, key)}}

GetDepositSigners(db, d) == {v \in db.deposit_signers : v.outpoint = d}

GetWithdrawalSigners(db, w) == {v \in db.withdrawal_signers : v.request = w}

\* None when the request is unknown.
CanSignDepositTx(db, d, signer) ==
    {\E s \in GetEncryptedDkgShares(db, DepositKey[r]) : signer \in s.signer_set :
        r \in GetDepositRequest(db, d)}

GetDepositRequestLeastHeight(db, d) ==
    LET heights == {BtcHeight[b] : b \in BlocksWith(db, d[1])}
    IN  IF d \notin db.deposit_requests \/ heights = {} THEN {} ELSE {Min(heights)}

\* One row for each block that has the deposit transaction, on this chain or
\* not, of which Postgres returns any one.
GetDepositRequestStatusSummary(db, tip, d, signer) ==
    UNION {{[block |-> IF b \in BitcoinBlockchainUntil(db, tip, h) THEN b ELSE NoBlock,
             can_accept |-> {v.can_accept : v \in {u \in GetDepositSigners(db, d) : u.signer = signer}},
             can_sign |-> {v.can_sign : v \in {u \in GetDepositSigners(db, d) : u.signer = signer}}] :
                b \in BlocksWith(db, d[1])} :
            h \in GetDepositRequestLeastHeight(db, d)}

GetDepositSweepTxid(db, tip, d, min_height) ==
    {i.txid : i \in {j \in db.bitcoin_tx_inputs :
        /\ j.prevout = d
        /\ ConfirmedIn(db, j.txid, BitcoinBlockchainUntil(db, tip, min_height))}}

\* get_deposit_request_report: the reports the query may produce.
GetDepositRequestReport(db, tip, d, signer) ==
    {[status |->
        IF row.block = NoBlock THEN "unconfirmed"
        ELSE IF GetDepositSweepTxid(db, tip, d, BtcHeight[row.block]) # {} THEN "spent"
        ELSE "confirmed",
      height |-> IF row.block = NoBlock THEN 0 ELSE BtcHeight[row.block],
      can_accept |-> row.can_accept,
      can_sign |-> row.can_sign,
      dkg_status |-> {s.status : s \in GetEncryptedDkgShares(db, DepositKey[d])}] :
        row \in GetDepositRequestStatusSummary(db, tip, d, signer)}

\* Swept in the window, and no completed-deposit event on the Stacks blocks
\* of this chain that are anchored in the window.
GetSweptDepositRequests(db, tip, stx_tip, window) ==
    LET chain == BitcoinBlockchainOf(db, tip, window)
        stx   == {y \in StacksChain(db, stx_tip) :
                    \A z \in StacksChain(db, stx_tip) : y \in StxLine[z] => Anchor[z] \in chain}
    IN  {d \in db.deposit_requests :
            /\ \E i \in db.bitcoin_tx_inputs : i.prevout = d /\ ConfirmedIn(db, i.txid, chain)
            /\ ~\E e \in db.completed_deposit_events : e.outpoint = d /\ e.block \in stx}

(***************************************************************************)
(* Withdrawals, and the votes rebroadcast to the other signers.            *)
(***************************************************************************)

\* The Bitcoin window is one block longer than it says; the Stacks tip's own
\* anchor is not checked.
GetPendingWithdrawalRequests(db, tip, stx_tip, window, signer) ==
    LET chain == {b \in BitcoinChain(db, tip) : Depth(tip, b) <= window + 1}
        stx   == {y \in StacksChain(db, stx_tip) :
                    \A z \in StacksChain(db, stx_tip) :
                        y \in StxLine[z] => z = stx_tip \/ Anchor[z] \in chain}
    IN  {w \in db.withdrawal_requests :
            /\ w.block \in stx
            /\ ~\E v \in db.withdrawal_signers : v.request = w /\ v.signer = signer}

ComputeWithdrawnTotal(db, tip, window) ==
    LET chain == BitcoinBlockchainOf(db, tip, window)
    IN  MapThenSumSet(LAMBDA o : o.amount * Cardinality(BlocksWith(db, o.txid) \cap chain),
                      Rows(db, "withdrawal"))

\* The votes that are younger than the oldest block of the window.
Oldest(db, tip, window) ==
    CHOOSE b \in BitcoinBlockchainOf(db, tip, window) :
        \A c \in BitcoinBlockchainOf(db, tip, window) : BtcHeight[b] <= BtcHeight[c]

\* mutant: only the votes of the signers' last block
DecisionsSinceTip(db, tip, window, signer) ==
    {v \in db.deposit_signers : v.signer = signer /\ tip \in v.known}

GetDepositSignerDecisions(db, tip, window, signer) ==
    {v \in db.deposit_signers : v.signer = signer /\ Oldest(db, tip, window) \in v.known}

GetWithdrawalSignerDecisions(db, tip, window, signer) ==
    {v \in db.withdrawal_signers : v.signer = signer /\ Oldest(db, tip, window) \in v.known}

WillSignBitcoinTxSighash(db, sighash) ==
    {r.will_sign : r \in {s \in db.bitcoin_tx_sighashes : s.sighash = sighash}}

GetP2pPeers(db) == db.p2p_peers

(***************************************************************************)
(* A query of PgTransaction sees the state its own writes have made.       *)
(***************************************************************************)
PgTransactionRead(tx) == tx.db
=============================================================================
