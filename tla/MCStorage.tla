----------------------------- MODULE MCStorage -----------------------------
(***************************************************************************)
(* A fork of the Bitcoin chain after the start block g:                    *)
(*      g - a2 - a3          and        g - b2 - b3 - b4                   *)
(* with a gift to the signers in g, a first sweep, to a new key, that both *)
(* branches confirm, a second one that spends its output in the same block,*)
(* a third one on the other branch, and a deposit that both branches       *)
(* confirm.  A behaviour is one of the block observer or one of the        *)
(* in-memory store's transactions.                                         *)
(***************************************************************************)
EXTENDS BlockObserver

CONSTANTS Client, Request, Voter, Peer, Address, MaxVersion, MaxWrites

VARIABLES world, shared, txs, written, durable, exposed

T == INSTANCE MemoryTransactions

MCBlock == {"g", "a2", "a3", "b2", "b3", "b4"}
MCBtcParent == [b \in MCBlock |->
    CASE b = "a2" -> "g" [] b = "a3" -> "a2" [] b = "b2" -> "g"
      [] b = "b3" -> "b2" [] b = "b4" -> "b3" [] OTHER -> "none"]
MCBtcHeight == [b \in MCBlock |->
    CASE b = "g" -> 1 [] b \in {"a2", "b2"} -> 2 [] b \in {"a3", "b3"} -> 3 [] OTHER -> 4]

MCStxBlock == {"x1", "x2", "x3", "y2", "y4"}
MCStxParent == [x \in MCStxBlock |->
    CASE x = "x2" -> "x1" [] x = "x3" -> "x2" [] x = "y2" -> "x1" [] x = "y4" -> "y2"
      [] OTHER -> "none"]
MCStxHeight == [x \in MCStxBlock |-> CASE x = "x1" -> 1 [] x \in {"x2", "y2"} -> 2 [] OTHER -> 3]
MCStxRank == [x \in MCStxBlock |-> CASE x = "x1" -> 1 [] x = "x2" -> 2 [] x = "x3" -> 3
                                     [] x = "y2" -> 4 [] OTHER -> 5]
MCAnchor == [x \in MCStxBlock |->
    CASE x = "x1" -> "g" [] x = "x2" -> "a2" [] x = "x3" -> "a3" [] x = "y2" -> "b2" [] OTHER -> "b4"]

MCTxid == {"gift", "dep", "sweep1", "sweep2", "sweep3"}
In(t, n, s) == [txid |-> t, vout |-> n, script |-> s]
Out(s, a) == [script |-> s, amount |-> a]
MCTxIns == [t \in MCTxid |->
    CASE t = "sweep1" -> <<In("gift", 0, "s0")>>
      [] t = "sweep2" -> <<In("sweep1", 0, "s1")>>
      [] t = "sweep3" -> <<In("sweep1", 0, "s1"), In("dep", 0, "d")>>
      [] OTHER -> <<In("someone", 0, "other")>>]
MCTxOuts == [t \in MCTxid |->
    CASE t = "gift" -> <<Out("s0", 5)>>
      [] t = "dep" -> <<Out("d", 3)>>
      [] t = "sweep1" -> <<Out("s1", 4), Out("op_return", 0), Out("other", 1)>>
      [] t = "sweep2" -> <<Out("s1", 3), Out("op_return", 0)>>
      [] OTHER -> <<Out("s1", 6), Out("op_return", 0), Out("other", 1)>>]
MCOpReturnIds == [t \in MCTxid |->
    [version |-> IF t = "sweep1" THEN 0 ELSE 1, ids |-> IF t = "sweep3" THEN <<7>> ELSE << >>]]
MCBlockTxs == [b \in MCBlock |->
    CASE b = "g" -> {"gift"}
      [] b = "a2" -> {"sweep1", "sweep2"}
      [] b = "a3" -> {"dep"}
      [] b = "b2" -> {"sweep1"}
      [] b = "b3" -> {"dep"}
      [] OTHER -> {"sweep3"}]

MCScript == [k \in {"k0", "k1"} |-> IF k = "k0" THEN "s0" ELSE "s1"]
MCDepositKey == [d \in {<<"dep", 0>>} |-> "k0"]
MCLockTime == [d \in {<<"dep", 0>>} |-> 9]
MCEmilyDeposits == << <<"dep", 0>> >>
MCNewShares == [key |-> "k1", signer_set |-> {"me", "you"}, status |-> "unverified", started_at |-> 1]

Event(t, r) == [topic |-> t, row |-> r, committed |-> TRUE]
MCStxEvents == [x \in MCStxBlock |->
    CASE x = "x1" -> << Event("key-rotation", [txid |-> "r", block |-> "x1", key |-> "k0",
                                               signer_set |-> {"me", "you"}, required |-> 2]) >>
      [] x = "x2" -> << [topic |-> "completed-deposit", row |-> {}, committed |-> FALSE],
                        Event("withdrawal-create", [request_id |-> 7, block |-> "x2"]),
                        Event("unknown", {}) >>
      [] x = "x3" -> << Event("withdrawal-reject", [request_id |-> 7, block |-> "x3"]) >>
      [] x = "y2" -> << Event("withdrawal-create", [request_id |-> 7, block |-> "y2"]) >>
      [] OTHER    -> << Event("withdrawal-accept", [request_id |-> 7, block |-> "y4"]),
                        Event("completed-deposit", [outpoint |-> <<"dep", 0>>, block |-> "y4"]) >>]

Budget(b, s, d, sh, v, f) ==
    [bitcoin |-> b, stacks |-> s, deliver |-> d, shares |-> sh, votes |-> v, faults |-> f]
MCBudgets == { Budget(2, 0, 0, 0, 0, 1), Budget(1, 2, 0, 0, 0, 1), Budget(1, 0, 2, 0, 0, 1),
               Budget(1, 2, 3, 0, 0, 0), Budget(2, 1, 0, 0, 0, 0), Budget(2, 0, 0, 2, 0, 0),
               Budget(2, 0, 0, 0, 1, 0) }

MCInit ==
    /\ world \in {"observer", "transactions"}
    /\ Init
    /\ world = "transactions" => left = Budget(2, 0, 0, 0, 1, 0)
    /\ T!MemInit

ObserverNext == world = "observer" /\ Next /\ UNCHANGED <<world, shared, txs, written, durable, exposed>>
TransactionsNext == world = "transactions" /\ T!MemNext /\ UNCHANGED <<world, vars>>

ObserverFairness ==
    world = "observer" => Fairness

MCSpec == MCInit /\ [][ObserverNext \/ TransactionsNext]_<<vars, world, shared, txs, written, durable, exposed>> /\ ObserverFairness

\* block_observer.rs: bitcoind's best block is announced in the end.
BestBlockAnnounced == world = "observer" => BestBlockIsAnnounced

\* storage/memory/store.rs: the in-memory store answers as Postgres does until
\* it panics, a commit undoes nothing that was acknowledged, but for peers
\* written beside an open transaction, and shows nothing that was rolled back,
\* and a transaction that misses an acknowledged write fails.
MemoryStoreIsFaithful == StoresAgree /\ T!CommitsLoseNothing /\ T!StaleTransactionsFail
=============================================================================
