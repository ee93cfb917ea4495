----------------------------- MODULE MCSigner ------------------------------
(***************************************************************************)
(* One signer process.  A behaviour is one of its components and their     *)
(* signals (SignerRuntime) or one of its libp2p swarm (P2pSwarm).          *)
(***************************************************************************)
EXTENDS P2pSwarm

CONSTANTS Coordinates, Capacity, Threshold, Parts

VARIABLES
  part,
  rworld, pc, term, armed, poller, tip, queue, busy, acks, outbox, received, errors, lost,
  due, skipped, handled, tenures

rvars == << rworld, pc, term, armed, poller, tip, queue, busy, acks, outbox, received,
            errors, lost, due, skipped, handled, tenures >>

Bounds(blocks, messages, failures, stop) ==
  [blocks |-> blocks, received |-> messages, errors |-> failures, stop |-> stop]

\* Failures with a message; three blocks, so that receivers lag; failures over
\* two blocks; a shutdown.
RuntimeWorlds == { Bounds(1, 1, 1, FALSE), Bounds(3, 0, 0, FALSE), Bounds(2, 0, 1, FALSE),
                   Bounds(1, 0, 0, TRUE) }

\* Enough connections to one peer to meet the limits; a seed that turned out
\* to be a stranger; discovery, with a stranger knocking; and a restart, after
\* which a signer known from the database is dialled.
SwarmWorlds ==
  { [seeds |-> <<"a">>, discovery |-> FALSE, peers |-> {"a"}, ids |-> 4,
     messages |-> 0, denied |-> 1, restarts |-> 0],
    [seeds |-> <<"me", "x", "x">>, discovery |-> FALSE, peers |-> {"x", "a"}, ids |-> 3,
     messages |-> 1, denied |-> 0, restarts |-> 0],
    [seeds |-> <<"a">>, discovery |-> TRUE, peers |-> {"x"}, ids |-> 2,
     messages |-> 0, denied |-> 0, restarts |-> 0],
    [seeds |-> <<"a">>, discovery |-> FALSE, peers |-> {"b"}, ids |-> 2,
     messages |-> 0, denied |-> 0, restarts |-> 1] }

R == INSTANCE SignerRuntime WITH world <- rworld, Worlds <- RuntimeWorlds

Init ==
  /\ part \in Parts
  /\ R!Init /\ SwarmInit
  /\ part # "runtime" => rworld = Bounds(3, 0, 0, FALSE)
  /\ part # "swarm" => world = CHOOSE w \in SwarmWorlds : TRUE

Next ==
  \/ part = "runtime" /\ R!Next /\ UNCHANGED << part, swarmVars >>
  \/ part = "swarm" /\ SwarmNext /\ UNCHANGED << part, rvars >>

vars == << part, rvars, swarmVars >>

Spec == Init /\ [][Next]_vars

\* The fairness of P2pSwarm
FairSpec ==
  /\ Spec
  /\ WF_vars(part = "swarm" /\ PollDial /\ UNCHANGED << part, rvars >>)
  /\ WF_vars(part = "swarm" /\ PollBootstrap /\ UNCHANGED << part, rvars >>)
  /\ WF_vars(part = "swarm" /\ TimePasses /\ UNCHANGED << part, rvars >>)
  /\ WF_vars(part = "swarm" /\ ConnectionEstablished /\ UNCHANGED << part, rvars >>)
  /\ WF_vars(part = "swarm" /\ (DialSucceeds \/ DialFails) /\ UNCHANGED << part, rvars >>)

\* Nothing gets stuck: a block that the poller reported gets its tenure, unless
\* the observer gave up on it or a loop lagged, and after signal_shutdown every
\* component that had its termination handle by then stops.
ComponentsMoveOn == R!BlocksAreProcessed /\ R!ShutdownStops

\* A signer without a connection dials again, time after time, unless it counts
\* a connection that was denied, and a stranger that connects is cut off; what
\* a stranger wrote is never heard.
OnlySignersStay ==
  part = "swarm" => KeepsDialling /\ StrangersAreCutOff /\ []OnlySignersAreHeard

\* The signalling channel keeps things in order: what MessageTransfer::broadcast
\* is given is published once each and in order, except what the p2p loop missed
\* by lagging or starting late, and TxCoordinatorEventLoop works on the blocks
\* in the order of the chain, on each after the request decider has gone
\* through its requests.
SignalsKeepOrder == R!PublishedInOrder /\ R!TenuresFollowDecisions
=============================================================================
