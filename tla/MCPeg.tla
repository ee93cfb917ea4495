------------------------------- MODULE MCPeg -------------------------------
(***************************************************************************)
(* A behaviour is one of the Clarity contracts (SbtcContracts) or one of   *)
(* the deposits on their way to the mint (DepositSweeps).                  *)
(*                                                                         *)
(* Deposits: three signers of which two must agree, two deposits, and a    *)
(* fork:                                                                   *)
(*      g - a2 - a3 - a4 - a5      and      a2 - b3 - b4                   *)
(* The first deposit is confirmed in a2, below the fork, the second in a3  *)
(* and in b3.                                                              *)
(***************************************************************************)
EXTENDS SbtcContracts, DepositSweeps

CONSTANTS gift, dep1, dep2, Parts

MCBlock == {"g", "a2", "a3", "a4", "a5", "b3", "b4"}
MCParent == [b \in MCBlock |->
    CASE b = "a2" -> "g" [] b = "a3" -> "a2" [] b = "a4" -> "a3" [] b = "a5" -> "a4"
      [] b = "b3" -> "a2" [] b = "b4" -> "b3" [] OTHER -> "none"]
MCHeight == [b \in MCBlock |->
    CASE b = "g" -> 1 [] b = "a2" -> 2 [] b \in {"a3", "b3"} -> 3 [] b \in {"a4", "b4"} -> 4
      [] OTHER -> 5]
MCAnchor == [b \in MCBlock |-> b]
MCRank == [b \in MCBlock |-> 1]
Nothing == << >>

MCSigner == {"s1", "s2", "s3"}
MCCoordinator == [b \in MCBlock |->
    CASE b \in {"a2", "a5"} -> "s1" [] b \in {"a3", "b4"} -> "s2" [] OTHER -> "s3"]

MCDeposit == {1, 2}
MCOutpoint == <<<<dep1, 0>>, <<dep2, 0>>>>
MCAmount == <<6000, 5000>>
MCMaxFee == <<2000, 900>>
MCDepositBlocks == <<{"a2"}, {"a3", "b3"}>>
MCDepositKey == [o \in {MCOutpoint[d] : d \in MCDeposit} |-> "key"]
MCLockTime == [o \in {MCOutpoint[d] : d \in MCDeposit} |-> 5]
MCScript == [k \in {"key"} |-> "script"]
MCGift == <<gift, 0>>

MCLimits ==
    [per_deposit_minimum |-> -1, per_deposit_cap |-> -1, per_withdrawal_cap |-> -1,
     rolling_withdrawal_blocks |-> -1, rolling_withdrawal_cap |-> -1,
     withdrawn_total |-> -1, max_mintable_cap |-> -1]

Good == [s \in MCSigner |-> "verified"]
Plain == [blocks |-> {"a2", "a3", "a4", "a5"}, rates |-> {1}, shares |-> Good, blocked |-> {},
          unaware |-> {}, lossy |-> {}, flaky |-> {}, split |-> FALSE,
          late |-> {}, cut |-> {}, slow |-> {}]
MCWorlds ==
    {\* votes get lost, and one arrives late at a signer that has no request
     [Plain EXCEPT !.blocked = {<<"s1", 2>>, <<"s2", 2>>}, !.unaware = {<<"s3", 1>>}, !.lossy = {"a2"},
                   !.late = {"s1", "s2"}, !.cut = {"a2"}, !.blocks = {"a2", "a3", "a4"}],
     \* tenures are cut short, sweeps and calls wait
     [Plain EXCEPT !.cut = {"a2", "a3", "a4"}, !.slow = {"a2", "a3"}],
     \* the same, and the chain that has the sweep is abandoned
     [Plain EXCEPT !.blocks = {"a2", "a3", "b4"}, !.cut = {"a3"}, !.slow = {"a2", "a3", "b4"}],
     \* replacement by fee, with mempools that differ
     [Plain EXCEPT !.rates = {1, 4}, !.blocks = {"a2", "a3", "a4"}, !.split = TRUE,
                   !.slow = {"a2", "a3"}],
     \* no signer is late
     [Plain EXCEPT !.blocked = {<<"s2", 1>>}, !.lossy = {"a2", "a3"}, !.flaky = {"s1"},
                   !.shares = [Good EXCEPT !["s2"] = "unverified"]]}
VARIABLE part

contractVars == <<st, tx, history>>

MCInit ==
    /\ part \in Parts
    /\ Init /\ DepositsInit
    /\ part # "deposits" => world = CHOOSE w \in MCWorlds : TRUE

\* The contracts may be at their bounds; the deposits may not be stuck.
MCNext ==
    \/ part = "contracts" /\ UNCHANGED <<part, contractVars, depositVars>>
    \/ part = "contracts" /\ Next /\ UNCHANGED <<part, depositVars>>
    \/ part = "deposits" /\ DepositsNext /\ UNCHANGED <<part, contractVars>>

MCSpec == MCInit /\ [][MCNext]_<<part, contractVars, depositVars>>
=============================================================================
