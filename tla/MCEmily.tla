------------------------------ MODULE MCEmily ------------------------------
(***************************************************************************)
(* Bounds for Emily and for EmilyLimits.  A behaviour is one of the        *)
(* entries of requests and chain or one of the limits and throttle keys:   *)
(* they are different tables and share no state.                           *)
(***************************************************************************)
EXTENDS Emily, TLC

CONSTANT Parts

VARIABLES part, lworld, now, limits, keys, calls, signer, inForce, touched, revoked, raced

Budget(blocks, forks, resends, updates, deposits, withdrawals, failures) ==
    [blocks |-> blocks, forks |-> forks, resends |-> resends, updates |-> updates,
     deposits |-> deposits, withdrawals |-> withdrawals, failures |-> failures]

\* Deposits: created twice together; updated by everyone around a fork; with
\* repeated posts; while the node goes back to a branch it had left; overtaken
\* by the next block; with a failure.  Withdrawals: the same.
MCBudgets ==
    {Budget(2, 1, 0, 1, 2, 0, 0), Budget(3, 1, 1, 1, 1, 0, 0), Budget(4, 1, 0, 1, 1, 0, 0),
     Budget(2, 1, 0, 2, 1, 0, 0), Budget(4, 2, 0, 0, 1, 0, 0), Budget(3, 2, 0, 1, 1, 0, 0),
     Budget(2, 1, 2, 0, 1, 0, 0), Budget(3, 2, 0, 0, 1, 0, 1), Budget(2, 1, 0, 1, 1, 0, 1),
     Budget(3, 1, 1, 0, 1, 0, 1),
     Budget(3, 1, 1, 1, 0, 1, 0), Budget(4, 2, 0, 1, 0, 2, 0), Budget(3, 2, 0, 0, 0, 2, 1),
     Budget(2, 1, 1, 0, 0, 1, 1)}

\* A block and its fork both create the withdrawal.
ForkBudgets == {Budget(3, 1, 0, 0, 0, 2, 0)}

-----------------------------------------------------------------------------
\* The throttle mode allows 2 per withdrawal and 2 in a window of 2 blocks;
\* the bodies set limits on either side of it.
NoLimit == [peg_cap |-> None, per_deposit_minimum |-> None, per_deposit_cap |-> None,
            per_withdrawal_cap |-> None, rolling_withdrawal_blocks |-> None,
            rolling_withdrawal_cap |-> None, throttle_mode_initiator |-> None]
Rolling(blocks, cap) ==
    [NoLimit EXCEPT !.rolling_withdrawal_blocks = blocks, !.rolling_withdrawal_cap = cap]
Bodies ==
    { [global |-> [NoLimit EXCEPT !.per_withdrawal_cap = 1, !.peg_cap = 3],
       account_caps |-> << >>],
      [global |-> Rolling(3, 1),
       account_caps |-> [a \in {"a"} |-> [NoLimit EXCEPT !.peg_cap = 1]]],
      [global |-> Rolling(1, 3), account_caps |-> [a \in {"a"} |-> NoLimit]] }
AccountBodies ==
    { Rolling(None, 3), [NoLimit EXCEPT !.per_deposit_minimum = 1, !.per_deposit_cap = 1] }

World(ops) ==
    [ops |-> ops, keys |-> {"k"}, bodies |-> Bodies, account_bodies |-> AccountBodies,
     failures |-> TRUE, default_limits |-> NoLimit, supply |-> 1,
     books |-> [tip |-> None, chain |-> << >>, withdrawals |-> {}]]

\* Three Stacks blocks over up to three Bitcoin blocks, and two withdrawals.
Withdrawals(id) ==
    { w \in [id : {id}, amount : {1}, created : 1 .. 3, last_update_height : 1 .. 3,
             status : {"pending", "failed"}] : w.created <= w.last_update_height }
Books ==
    { [tip |-> chain[3], chain |-> chain, withdrawals |-> {w1, w2}] :
        chain \in { c \in [1 .. 3 -> 1 .. 3] : c[1] <= c[2] /\ c[2] <= c[3] },
        <<w1, w2>> \in { ws \in Withdrawals(1) \X Withdrawals(2) :
                            ws[1].created <= ws[2].created } }

LimitWorlds ==
    { World(<<"set", "throttle", "set_account">>),
      [World(<<"set", "throttle", "throttle">>) EXCEPT !.default_limits = Rolling(1, None)],
      [World(<<"add", "add", "deactivate", "throttle">>) EXCEPT !.keys = {}],
      World(<<"activate", "deactivate", "throttle", "add">>) }
    \cup { [World(<<"set">>) EXCEPT !.books = b] : b \in Books }

L == INSTANCE EmilyLimits WITH
       Calls <- 1 .. 4, Accounts <- {"a"}, Hashes <- {"k"}, Unlimited <- 9, MaxBlocks <- 2,
       THROTTLE_MODE_ROLLING_WINDOW <- 2, THROTTLE_MODE_ROLLING_CAP <- 2,
       THROTTLE_MODE_PER_WITHDRAWAL_CAP <- 2, MaxTime <- 2, Worlds <- LimitWorlds

lvars == << lworld, now, limits, keys, calls, signer, inForce, touched, revoked, raced >>
mcvars == << part, vars, lvars >>

MCInit ==
    /\ part \in Parts
    /\ Init
    /\ L!Init
    /\ part = "entries" => lworld = World(<<"set", "throttle", "set_account">>)
    /\ part = "limits" => left = CHOOSE b \in Budgets : TRUE

MCNext ==
    \/ part = "entries" /\ Next /\ UNCHANGED << part, lvars >>
    \/ part = "limits" /\ L!Next /\ UNCHANGED << part, vars >>

\* A call of new_block that is under way takes its next step, unless it ends.
MCSpec ==
    /\ MCInit
    /\ [][MCNext]_mcvars
    /\ \A p \in NodeCalls :
         WF_mcvars(/\ part = "entries"
                   /\ NodeStep(p) \/ UpdateStep(p)
                   /\ UNCHANGED << part, lvars >>)

\* Limits and the throttle mode stay in force until an operator lifts them, a
\* half-set limit lets nothing through, and a revoked throttle key is no key.
LimitsHold == L!LimitsHold

\* What Emily lets those do that it trusts less, at the moment of the write and
\* not only of the read: a signer takes an entry from pending to accepted, and
\* whoever holds a throttle key only tightens the limits of withdrawals.
LesserKeysOnlyRestrict ==
    [][/\ \A p \in SignerCalls : UntrustedOnlyAccepts(p)
       /\ \A c \in 1 .. 4 : L!TightensAlone(c)]_mcvars
=============================================================================
