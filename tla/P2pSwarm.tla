------------------------------ MODULE P2pSwarm ------------------------------
(***************************************************************************)
(* One signer's libp2p swarm: the bootstrap behaviour, the connections and *)
(* their limits, and the event loop that cuts off strangers, remembers     *)
(* where peers were reached and passes on the messages of signers.         *)
(*                                                                         *)
(* libp2p itself is external.  What the code relies on is modelled: before *)
(* a connection counts as established every behaviour is told of it and    *)
(* may deny it, the bootstrap behaviour before the connection limits (the  *)
(* order of the fields of SignerBehavior); a denied connection ends in a   *)
(* dial failure (or, if inbound, a listen failure) and never in a closed   *)
(* connection.  A peer stands for its public key, its peer id and, where   *)
(* nothing else is said, the address at which it can be dialled.           *)
(***************************************************************************)
EXTENDS Integers, Sequences, FiniteSets, Functions

CONSTANTS
  Signers,          \* the current signer set, other than the local signer
  Strangers,        \* peers that are not signers
  Local,            \* the local signer
  NumSigners,       \* size of the signer set, for the connection limits
  MAX_KNOWN_PEERS,  \* peers of the database that bootstrapping dials
  Worlds            \* configurations and bounds, one of which is chosen:
                    \* [seeds: the configured seed addresses,
                    \*  discovery: mDNS and Kademlia are enabled,
                    \*  peers: who dials this signer,
                    \*  ids: connection ids in use at a time,
                    \*  messages, denied, restarts: messages that are heard,
                    \*  connections that are denied, and restarts]

\* The local signer may be among the seeds, but nobody dials from there.
ASSUME SwarmAssumption ==
  /\ MAX_KNOWN_PEERS \in Nat
  /\ Local \notin Signers \cup Strangers
  /\ \A w \in Worlds : /\ w.ids \in Nat
                       /\ w.seeds \in Seq(Signers \cup Strangers \cup {Local})
                       /\ w.peers \subseteq Signers \cup Strangers

VARIABLES
  world,                \* the configuration and the bounds
  known_peers,          \* bootstrap: peers of the database, in dialling order
  pending_events,       \* bootstrap: dials queued for the swarm; the events it
                        \* reports are ignored by the event loop and left out
  connected_peers,      \* bootstrap: for each peer, its connection ids
  pending_connections,  \* bootstrap: ids of its dials that have no outcome yet
  attempt,              \* bootstrap: [first, last], when bootstrapping was put
                        \* off and when it was started: "none", "recent" or
                        \* "elapsed"
  is_bootstrapped,      \* bootstrap: the swarm was reported as bootstrapped
  dials,                \* swarm: dials in progress
  conns,                \* swarm: established connections
  events,               \* connections that the event loop was not told of yet
  kademlia,             \* the routing table: peers that may be dialled from it
  explicit_peers,       \* gossipsub's explicit peers, which it keeps dialling
  stored,               \* database: where peers were reached, latest first
  heard,                \* [key, valid] of messages passed on to the signer
  denied,               \* ghost: established connections that were denied
  restarts              \* how often the signer was restarted

bootstrap == << known_peers, pending_events, connected_peers, pending_connections,
                attempt, is_bootstrapped >>
loop == << kademlia, explicit_peers, stored, heard >>
swarmVars == << bootstrap, dials, conns, events, loop, denied, restarts, world >>

Peers == Signers \cup Strangers \cup {Local}
None == "none"
\* The address from which a peer's own dials appear to come
Ephemeral == "ephemeral"
Ids == 1..world.ids

\* The entries of a sequence at the given places, in their order.
Picked(seq, places) ==
  LET upTo[n \in 0..Len(seq)] ==
        IF n = 0 THEN <<>>
        ELSE IF n \in places THEN Append(upTo[n - 1], seq[n]) ELSE upTo[n - 1]
  IN upTo[Len(seq)]

\* SignerSwarmBuilder: an address that is already in the list is not added.
add_seed_addrs(addrs) ==
  Picked(addrs, {n \in 1..Len(addrs) : \A m \in 1..(n - 1) : addrs[m] # addrs[n]})

Seeds == add_seed_addrs(world.seeds)

\* SignerSet: filled from the configuration before the swarm exists.
is_allowed_peer(peer) == peer \in Signers \cup {Local}

(***************************************************************************)
(* Connection limits.                                                      *)
(***************************************************************************)
connection_limits ==
  LET num_signers == IF NumSigners - 1 > 2 THEN NumSigners - 1 ELSE 2
  IN [ max_established |-> num_signers * 3,
       max_established_incoming |-> num_signers * 2,
       max_established_per_peer |-> 3,
       max_pending_outgoing |-> num_signers ]

WithinLimits(peer, dialer) ==
  /\ Cardinality(conns) < connection_limits.max_established
  /\ dialer \/ Cardinality({c \in conns : ~c.dialer})
                 < connection_limits.max_established_incoming
  /\ Cardinality({c \in conns : c.peer = peer})
       < connection_limits.max_established_per_peer

(***************************************************************************)
(* The bootstrap behaviour.                                                *)
(***************************************************************************)
connected_peer_count == Cardinality({p \in Peers : connected_peers[p] # {}})

\* The local signer may find itself among the seeds and does not count.
peer_connected(peer, id) ==
  IF peer = Local THEN connected_peers
                  ELSE [connected_peers EXCEPT ![peer] = @ \cup {id}]

\* mutant: one closed connection removes the peer
PeerForgotten(peer, id) == [connected_peers EXCEPT ![peer] = {}]

\* The peer goes with the last of its connections.
peer_disconnected(peer, id) == [connected_peers EXCEPT ![peer] = @ \ {id}]

UsedIds == {c.id : c \in conns} \cup {d.id : d \in dials} \cup {d.id : d \in denied}
             \cup {d.id : d \in Range(pending_events)} \cup pending_connections
             \cup {c.id : c \in Range(events)}
\* The next free connection ids; ids are never compared by order.
FreeIds == Picked([n \in Ids |-> n], Ids \ UsedIds)

\* The addresses that one round of bootstrapping dials: every seed, without
\* knowing who answers, then every known peer
Targets ==
  [n \in 1..Len(Seeds) |-> [address |-> Seeds[n], peer |-> None]] \o known_peers

\* Queue a dial event for every target.
QueueDials ==
  LET dial(n) == [id |-> FreeIds[n], address |-> Targets[n].address, peer |-> Targets[n].peer]
  IN /\ Len(Targets) <= Len(FreeIds)
     /\ pending_events' = [n \in 1..Len(Targets) |-> dial(n)]
     /\ pending_connections' =
          pending_connections \cup {FreeIds[n] : n \in 1..Len(Targets)}
     /\ attempt' = [attempt EXCEPT !.last = "recent"]

\* poll, with dials queued: the swarm takes the first.  The limits may refuse
\* it, and a known peer is dialled only if it is neither connected nor being
\* dialled; both are dial failures.
PollDial ==
  /\ pending_events # <<>>
  /\ pending_events' = Tail(pending_events)
  /\ LET dial == Head(pending_events)
         unwanted == \/ Cardinality(dials) >= connection_limits.max_pending_outgoing
                     \/ /\ dial.peer # None
                        /\ \/ \E c \in conns : c.peer = dial.peer
                           \/ \E d \in dials : d.peer = dial.peer
     IN IF unwanted
        THEN pending_connections' = pending_connections \ {dial.id} /\ UNCHANGED dials
        ELSE dials' = dials \cup {dial} /\ UNCHANGED pending_connections
  /\ UNCHANGED << known_peers, connected_peers, attempt, is_bootstrapped, conns, events,
                  loop, denied, restarts, world >>

\* mutant: a node that lost its last peer still takes itself for bootstrapped
PollOnceBootstrapped ==
  /\ pending_events = <<>>
  /\ ~is_bootstrapped
  /\ IF connected_peer_count >= 1
     THEN is_bootstrapped' = TRUE
          /\ UNCHANGED << pending_events, pending_connections, attempt >>
     ELSE /\ attempt.last # "recent" /\ attempt.first # "recent"
          /\ IF attempt.first = "none"
             THEN /\ attempt' = [attempt EXCEPT !.first = "recent"]
                  /\ UNCHANGED << pending_events, pending_connections >>
             ELSE QueueDials
          /\ UNCHANGED is_bootstrapped
  /\ UNCHANGED << known_peers, connected_peers, dials, conns, events, loop, denied, restarts, world >>

\* poll otherwise: connected, the behaviour is bootstrapped; alone, it waits
\* for the interval since the last attempt and for the initial delay (more
\* than zero in main.rs), and then queues its dials.
PollBootstrap ==
  /\ pending_events = <<>>
  /\ IF connected_peer_count >= 1
     THEN /\ ~is_bootstrapped /\ is_bootstrapped' = TRUE
          /\ UNCHANGED << pending_events, pending_connections, attempt >>
     ELSE /\ is_bootstrapped' = FALSE
          /\ IF attempt.last = "recent" \/ attempt.first = "recent"
             THEN UNCHANGED << pending_events, pending_connections, attempt >>
             ELSE IF attempt.first = "none"
             THEN /\ attempt' = [attempt EXCEPT !.first = "recent"]
                  /\ UNCHANGED << pending_events, pending_connections >>
             ELSE QueueDials
  /\ UNCHANGED << known_peers, connected_peers, dials, conns, events, loop, denied, restarts, world >>

\* The clock: initial_delay or bootstrap_interval has passed.
TimePasses ==
  /\ \E which \in {"first", "last"} :
       attempt[which] = "recent" /\ attempt' = [attempt EXCEPT ![which] = "elapsed"]
  /\ UNCHANGED << known_peers, pending_events, connected_peers, pending_connections,
                  is_bootstrapped, dials, conns, events, loop, denied, restarts, world >>

(***************************************************************************)
(* Connections.                                                            *)
(***************************************************************************)
\* A connection is negotiated: the bootstrap behaviour notes the peer and, if
\* the dial was its own, that it is done; then the limits have their say.
Establish(conn) ==
  /\ connected_peers' = peer_connected(conn.peer, conn.id)
  /\ pending_connections' = pending_connections \ {conn.id}
  /\ IF WithinLimits(conn.peer, conn.dialer)
     THEN /\ conns' = conns \cup {conn}
          /\ events' = Append(events, conn)
          /\ UNCHANGED denied
     ELSE /\ Cardinality(denied) < world.denied
          /\ denied' = denied \cup {[id |-> conn.id, peer |-> conn.peer]}
          /\ UNCHANGED << conns, events >>

DialSucceeds ==
  /\ \E d \in dials :
       /\ d.address # Local
       /\ dials' = dials \ {d}
       /\ Establish([id |-> d.id, peer |-> d.address, dialer |-> TRUE,
                     address |-> d.address])
  /\ UNCHANGED << known_peers, pending_events, attempt, is_bootstrapped, loop, restarts, world >>

\* FromSwarm::DialFailure; the local signer's own address always fails.
DialFails ==
  /\ \E d \in dials :
       /\ dials' = dials \ {d}
       /\ pending_connections' = pending_connections \ {d.id}
  /\ UNCHANGED << known_peers, pending_events, connected_peers, attempt, is_bootstrapped,
                  conns, events, loop, denied, restarts, world >>

\* Another peer dials this signer.
Incoming ==
  /\ FreeIds # <<>>
  /\ \E peer \in world.peers :
       Establish([id |-> FreeIds[1], peer |-> peer, dialer |-> FALSE, address |-> Ephemeral])
  /\ UNCHANGED << known_peers, pending_events, attempt, is_bootstrapped, dials, loop, restarts, world >>

\* Kademlia and gossipsub dial the peers they know of and are not connected to.
OtherDial ==
  /\ Cardinality(dials) < connection_limits.max_pending_outgoing
  /\ FreeIds # <<>>
  /\ \E peer \in kademlia \cup explicit_peers :
       /\ \A d \in dials : d.peer # peer
       /\ \A c \in conns : c.peer # peer
       /\ dials' = dials \cup {[id |-> FreeIds[1], address |-> peer, peer |-> peer]}
  /\ UNCHANGED << bootstrap, conns, events, loop, denied, restarts, world >>

\* FromSwarm::ConnectionClosed
ConnectionClosed ==
  /\ \E c \in conns :
       /\ conns' = conns \ {c}
       /\ connected_peers' = peer_disconnected(c.peer, c.id)
  /\ UNCHANGED << known_peers, pending_events, pending_connections, attempt,
                  is_bootstrapped, dials, events, loop, denied, restarts, world >>

(***************************************************************************)
(* The event loop.                                                         *)
(***************************************************************************)
\* SwarmEvent::ConnectionEstablished: a stranger loses all its connections; a
\* signer that we dialled is remembered, in the routing table and in the
\* database, under the address that answered.
ConnectionEstablished ==
  /\ events # <<>>
  /\ events' = Tail(events)
  /\ LET conn == Head(events)
     IN IF ~is_allowed_peer(conn.peer)
        THEN /\ conns' = {c \in conns : c.peer # conn.peer}
             /\ connected_peers' = [connected_peers EXCEPT ![conn.peer] =
                                      @ \ {c.id : c \in conns}]
             /\ UNCHANGED << kademlia, stored >>
        ELSE /\ IF conn.dialer
                THEN /\ kademlia' = IF world.discovery THEN kademlia \cup {conn.peer}
                                                      ELSE kademlia
                     /\ stored' = << [peer |-> conn.peer, address |-> conn.address] >>
                                    \o Picked(stored, {n \in 1..Len(stored) : stored[n].peer # conn.peer})
                ELSE UNCHANGED << kademlia, stored >>
             /\ UNCHANGED << conns, connected_peers >>
  /\ UNCHANGED << known_peers, pending_events, pending_connections, attempt,
                  is_bootstrapped, dials, explicit_peers, heard, denied, restarts, world >>

\* SwarmEvent::NewExternalAddrOfPeer: the routing table learns of any peer.
NewExternalAddrOfPeer ==
  /\ world.discovery
  /\ \E c \in conns : c.peer # Local /\ kademlia' = kademlia \cup {c.peer}
  /\ UNCHANGED << bootstrap, dials, conns, events, explicit_peers, stored, heard, denied, restarts, world >>

handle_mdns_event ==
  /\ world.discovery
  /\ \E peer \in Peers \ {Local} :
       \/ is_allowed_peer(peer) /\ explicit_peers' = explicit_peers \cup {peer}
       \/ explicit_peers' = explicit_peers \ {peer}
  /\ UNCHANGED << bootstrap, dials, conns, events, kademlia, stored, heard, denied, restarts, world >>

\* A peer passes on a message of some origin, written in the name of some
\* key.  The event loop hears it before or after it was told of the connection.
handle_gossipsub_event ==
  /\ \E c \in conns, origin \in (Peers \ {Local}) \cup {None}, key \in Peers, valid \in BOOLEAN :
       /\ is_allowed_peer(c.peer)
       /\ origin # None /\ is_allowed_peer(origin)
       /\ origin = key
       /\ valid
       /\ Cardinality(heard) < world.messages
       /\ heard' = heard \cup {[key |-> key, valid |-> valid]}
  /\ UNCHANGED << bootstrap, dials, conns, events, kademlia, explicit_peers, stored, denied, restarts, world >>

(***************************************************************************)
(* Start-up.                                                               *)
(***************************************************************************)
\* run_libp2p_swarm: of the peers reached within the window, those that are
\* still signers and no seeds, the latest first
KnownPeers(window) ==
  LET wanted == Picked(stored, {n \in 1..window : /\ is_allowed_peer(stored[n].peer)
                                                  /\ stored[n].address \notin Range(Seeds)})
  IN SubSeq(wanted, 1, IF Len(wanted) < MAX_KNOWN_PEERS THEN Len(wanted)
                                                       ELSE MAX_KNOWN_PEERS)

\* The signer stops, at any point, and starts again.
Restart ==
  /\ restarts < world.restarts /\ restarts' = restarts + 1
  /\ \E window \in 0..Len(stored) : known_peers' = KnownPeers(window)
  /\ pending_events' = <<>>
  /\ connected_peers' = [p \in Peers |-> {}]
  /\ pending_connections' = {}
  /\ attempt' = [first |-> "none", last |-> "none"]
  /\ is_bootstrapped' = FALSE
  /\ dials' = {} /\ conns' = {} /\ events' = <<>>
  /\ kademlia' = {} /\ explicit_peers' = {}
  /\ denied' = {}
  /\ UNCHANGED << stored, heard, world >>

SwarmInit ==
  /\ world \in Worlds
  /\ known_peers = <<>> /\ pending_events = <<>>
  /\ connected_peers = [p \in Peers |-> {}]
  /\ pending_connections = {}
  /\ attempt = [first |-> "none", last |-> "none"]
  /\ is_bootstrapped = FALSE
  /\ dials = {} /\ conns = {} /\ events = <<>>
  /\ kademlia = {} /\ explicit_peers = {}
  /\ stored = <<>> /\ heard = {}
  /\ denied = {} /\ restarts = 0

SwarmNext ==
  \/ PollDial \/ PollBootstrap \/ TimePasses
  \/ DialSucceeds \/ DialFails \/ Incoming \/ OtherDial \/ ConnectionClosed
  \/ ConnectionEstablished \/ NewExternalAddrOfPeer \/ handle_mdns_event
  \/ handle_gossipsub_event \/ Restart

\* The event loop polls the swarm at least every few milliseconds; a dial ends
\* or times out; the clock does not stop.
Fairness ==
  /\ WF_swarmVars(PollDial) /\ WF_swarmVars(PollBootstrap) /\ WF_swarmVars(TimePasses)
  /\ WF_swarmVars(ConnectionEstablished)
  /\ WF_swarmVars(DialSucceeds \/ DialFails)

SwarmSpec == SwarmInit /\ [][SwarmNext]_swarmVars /\ Fairness

----------------------------------------------------------------------------
\* The bootstrap behaviour, which decides by its own count of connections
\* whether the signer is alone, has every established connection and no other,
\* whatever the order of dials, incoming connections, failures and losses;
\* the connections that the limits denied after it had counted them excepted.
BootstrapCountsConnections ==
  \A peer \in Peers :
    connected_peers[peer] = {c.id : c \in {c \in conns : c.peer = peer}}
                              \cup {d.id : d \in {d \in denied : d.peer = peer}}

\* Every dial that bootstrapping still waits for is queued or in progress: none
\* is forgotten and none is awaited for ever.
PendingDialsAreLive ==
  pending_connections \subseteq {d.id : d \in dials} \cup {d.id : d \in Range(pending_events)}

\* The database names, of signers only, addresses that answered a dial, so
\* that a restarted signer can find its peers when the seeds are gone.
StoredAddressesAnswer ==
  \A n \in 1..Len(stored) :
    /\ is_allowed_peer(stored[n].peer)
    /\ stored[n].address = stored[n].peer

\* bootstrap::Behavior counts the connections that there are (and those that
\* the limits denied after it had counted them) and waits only for dials that
\* are under way, and the p2p_peers table names addresses of signers that
\* answered.
ConnectionsAreTracked ==
  BootstrapCountsConnections /\ PendingDialsAreLive /\ StoredAddressesAnswer

\* Whoever passes a message on, and whether or not the loop has cut off its
\* strangers yet, only what a signer wrote and signed reaches the signer.
OnlySignersAreHeard ==
  \A m \in heard : is_allowed_peer(m.key) /\ m.valid

\* A signer that has no connection dials again, time after time, unless it
\* counts a connection that was denied.
KeepsDialling ==
  []<>(conns # {} \/ dials # {} \/ denied # {})

\* A stranger that connects is disconnected.
StrangersAreCutOff ==
  \A peer \in Strangers :
    (\E c \in conns : c.peer = peer) ~> (\A c \in conns : c.peer # peer)
=============================================================================
