--------------------------- MODULE SignerRuntime ---------------------------
(***************************************************************************)
(* One signer process: the components that `main` joins, the broadcast     *)
(* channel over which they signal one another, the filtered streams that   *)
(* the event loops read, the outbox of the p2p loop and the termination    *)
(* watch.  A signal is a tuple <<type, subject>>, the subject a block (its *)
(* height) or a message.  What a handler computes is the business of other *)
(* modules; here a handler is the signals and messages it sends.           *)
(*                                                                         *)
(* `main` polls its components in turn, so by the time anything can happen *)
(* every component has run to its first suspension: all of them have their *)
(* termination handle by then, except the API server, which first binds    *)
(* its socket, and the p2p loop, which first reads peers from the database.*)
(***************************************************************************)
EXTENDS Integers, Sequences, FiniteSets, SequencesExt

CONSTANTS
  Worlds,         \* what may happen, a set of bounds of which each behaviour
                  \* obeys one: the blocks that the bitcoin node reports, the
                  \* messages that arrive, the failures of the observer, of
                  \* deciding and of publishing, and whether the operator may
                  \* stop the signer
  Coordinates,    \* the blocks for which this signer is the coordinator
  Capacity,       \* SIGNER_CHANNEL_CAPACITY, of the broadcast channel and
                  \* of the channel behind each signal stream
  Threshold       \* acknowledgements a tenure waits for

VARIABLES
  world,      \* the bounds this behaviour obeys
  pc,         \* "starting", "running" or "stopped", for each component
  term,       \* the termination watch: shutdown was signalled
  armed,      \* the termination handles that a shutdown will wake: the ones
              \* created before it
  poller,     \* [last_seen_hash, stream]: the poller and its stream
  tip,        \* the chain tip of the signer's state
  queue,      \* for each receiver of the broadcast channel, what it has not
              \* read; {} stands for one that does not exist
  busy,       \* what each event loop is handling, <<>> when it waits
  acks,       \* the signers that acknowledged the current tenure's request
  outbox,     \* the p2p loop's queue of messages to publish
  received,   \* number of messages that arrived so far
  errors,     \* number of failures so far
  lost,       \* ghost: what each receiver wanted and missed because it lagged
  due,        \* ghost: the messages handed to MessageTransfer::broadcast since
              \* the p2p loop has its receiver, and not yet published
  skipped,    \* ghost: blocks the observer gave up on
  handled,    \* ghost: blocks whose requests the decider went through
  tenures     \* ghost: [began, completed], blocks in order

flow == << queue, lost, due >>
ghosts == << skipped, handled, tenures >>
vars == << world, pc, term, armed, poller, tip, busy, acks, outbox, received, errors,
           flow, ghosts >>

\* The info logger has the shape of the watcher and is left out.
Components == {"watcher", "api", "p2p", "observer", "decider", "coordinator",
               "tx_signer"}
Loops == {"decider", "coordinator", "tx_signer"}
\* A stream is a receiver with a task that filters it: one for each event
\* loop and one for as long as a tenure waits for answers.
Streams == Loops \cup {"tenure"}
Receivers == Streams \cup {"p2p"}

Blocks == 1..world.blocks
Remote == "remote"
Self == "self"
Messages == {"request", "decision", "ack"} \X Blocks \X {Self, Remote}

(***************************************************************************)
(* The signalling channel.                                                 *)
(***************************************************************************)
\* SignerSignal.  Of the events, the decider's notices about single decisions
\* and its start, and the starts of other loops, are read by nobody.
SignalTypes ==
  { "P2PPublish", "Shutdown", "BitcoinBlockObserved",
    "PublishFailure", "PublishSuccess", "MessageReceived", "EventLoopStarted",
    "NewRequestsHandled", "SignerMessageGenerated", "CoordinatorMessageGenerated",
    "TenureCompleted" }

\* run_loop_message_filter of the request decider
DeciderFilter(sig) == sig[1] \in {"MessageReceived", "BitcoinBlockObserved"}

\* run_loop_message_filter of the coordinator
CoordinatorFilter(sig) == sig[1] = "NewRequestsHandled"

\* run_loop_message_filter of the transaction signer, with the match on the
\* messages that it answers
SignerFilter(sig) ==
  \/ sig[1] = "CoordinatorMessageGenerated"
  \/ sig[1] = "MessageReceived" /\ sig[2][1] = "request"

\* presign_ack_filter, with the match behind it
AckFilter(sig) ==
  sig[1] \in {"SignerMessageGenerated", "MessageReceived"} /\ sig[2][1] = "ack"

Filter(r, sig) ==
  CASE r = "decider" -> DeciderFilter(sig)
    [] r = "coordinator" -> CoordinatorFilter(sig)
    [] r = "tx_signer" -> SignerFilter(sig)
    [] r = "tenure" -> AckFilter(sig)
    [] r = "p2p" -> sig[1] = "P2PPublish"

\* A receiver tells apart the signals it is interested in; any other only
\* takes up room.
Other == <<"other">>
Seen(r, sig) == IF Filter(r, sig) THEN sig ELSE Other

Subscribed(r, queues) == queues[r] # {}
Queue(r, queues) == CHOOSE q \in queues[r] : TRUE

\* What a receiver has before it.  For the p2p loop that is the ring of the
\* broadcast channel.  Behind a signal stream it is, in this order, the
\* stream's own channel, the signal that the stream's task has in hand while
\* that channel is full, and the ring; the task does nothing but move signals,
\* so the ring fills only while the task is stuck.
Ahead(r) == IF r = "p2p" THEN 0 ELSE Capacity + 1

\* tokio's broadcast channel: a receiver that is more than Capacity signals
\* behind loses the oldest.
Arrival(r, q, sig) ==
  LET ahead == Ahead(r)
      longer == Append(q, Seen(r, sig))
  IN IF Len(q) < ahead
     THEN [kept |-> IF Filter(r, sig) THEN longer ELSE q, lost |-> {}]
     ELSE IF Len(longer) <= ahead + Capacity THEN [kept |-> longer, lost |-> {}]
     ELSE [kept |-> RemoveAt(longer, ahead + 1), lost |-> {longer[ahead + 1]} \ {Other}]

\* The receiver's queue once a sequence of signals is sent
Arrivals(r, q, sent) ==
  FoldSeq(LAMBDA sig, acc : LET next == Arrival(r, acc.kept, sig)
                            IN [kept |-> next.kept, lost |-> acc.lost \cup next.lost],
          [kept |-> q, lost |-> {}], sent)

\* What remains once the reader of a stream has taken the first signal: the
\* task moves up, past what its filter refuses.
Moved(q) ==
  LET rest == Tail(q)
      ring == SubSeq(rest, Capacity + 1, Len(rest))
      wanted == {n \in DOMAIN ring : ring[n] # Other}
  IN IF Len(rest) <= Capacity THEN rest
     ELSE SubSeq(rest, 1, Capacity)
            \o (IF wanted = {} THEN <<>> ELSE SubSeq(ring, Min(wanted), Len(ring)))

SendTo(queues, sent) ==
  /\ queue' = [r \in Receivers |-> IF Subscribed(r, queues)
                 THEN {Arrivals(r, Queue(r, queues), sent).kept} ELSE {}]
  /\ lost' = [r \in Receivers |-> lost[r] \cup (IF Subscribed(r, queues)
                 THEN Arrivals(r, Queue(r, queues), sent).lost ELSE {})]

signal(sent) == SendTo(queue, sent)

P2PPublish(msg) == <<"P2PPublish", msg>>

\* send_message: hand the message to the network and, in the coordinator and
\* the transaction signer, to the components of this signer.
Broadcasting(msgs) ==
  due' = IF Subscribed("p2p", queue) THEN due \o msgs ELSE due

\* The task of a stream passes on the word of a shutdown, once, when it is
\* not stuck.
StreamShutdown(r) ==
  /\ r \in Streams
  /\ Subscribed(r, queue)
  /\ Len(Queue(r, queue)) <= Capacity
  /\ term
  /\ r \in armed
  /\ armed' = armed \ {r}
  /\ queue' = [queue EXCEPT ![r] = {Append(Queue(r, queue), <<"Shutdown">>)}]
  /\ UNCHANGED << world, pc, term, poller, tip, busy, acks, outbox, received, errors,
                  lost, due, ghosts >>

(***************************************************************************)
(* The bitcoin node, the poller and the block observer.                    *)
(***************************************************************************)
\* run_rpc_poller: a hash that differs from the last one goes out; without a
\* subscriber it stays unsent and is tried again.
Poll ==
  /\ pc["observer"] = "running"
  /\ poller.last_seen_hash < world.blocks
  /\ LET current_hash == poller.last_seen_hash + 1
     IN poller' = [last_seen_hash |-> current_hash,
                   stream |-> Append(poller.stream, current_hash)]
  /\ UNCHANGED << world, pc, term, armed, tip, busy, acks, outbox, received, errors,
                  flow, ghosts >>

\* BlockObserver::run: the state is brought up to the new block, and then
\* the block is signalled.
ObserveBlock ==
  /\ pc["observer"] = "running"
  /\ poller.stream # <<>>
  /\ poller' = [poller EXCEPT !.stream = Tail(@)]
  /\ tip' = Head(poller.stream)
  /\ signal(<< <<"BitcoinBlockObserved", Head(poller.stream)>> >>)
  /\ UNCHANGED << world, pc, term, armed, busy, acks, outbox, received, errors, due,
                  ghosts >>

\* check_pending_dkg_shares or update_signer_state failed: no signal
SkipBlock ==
  /\ pc["observer"] = "running"
  /\ poller.stream # <<>>
  /\ errors < world.errors
  /\ errors' = errors + 1
  /\ poller' = [poller EXCEPT !.stream = Tail(@)]
  /\ skipped' = skipped \cup {Head(poller.stream)}
  /\ UNCHANGED << world, pc, term, armed, tip, busy, acks, outbox, received, flow,
                  handled, tenures >>

(***************************************************************************)
(* The event loops.                                                        *)
(***************************************************************************)
\* An event loop takes the next signal of its stream; Shutdown ends it.
Take(l) ==
  /\ l \in Loops
  /\ pc[l] = "running"
  /\ busy[l] = <<>>
  /\ LET q == Queue(l, queue)
     IN /\ q # <<>>
        /\ IF Head(q) = <<"Shutdown">>
           THEN /\ pc' = [pc EXCEPT ![l] = "stopped"]
                /\ queue' = [queue EXCEPT ![l] = {}]
                /\ UNCHANGED busy
           ELSE /\ busy' = [busy EXCEPT ![l] = Head(q)]
                /\ queue' = [queue EXCEPT ![l] = {Moved(q)}]
                /\ UNCHANGED pc
  /\ UNCHANGED << world, term, armed, poller, tip, acks, outbox, received, errors,
                  lost, due, ghosts >>

\* mutant: an error in handle_new_requests ends the handler before the signal
HandleNewRequestsOrFail ==
  /\ busy["decider"] # <<>>
  /\ busy' = [busy EXCEPT !["decider"] = <<>>]
  /\ IF busy["decider"][1] = "BitcoinBlockObserved"
     THEN LET block == busy["decider"][2]
          IN /\ signal(<<>>)
             /\ handled' = handled \cup {block}
             /\ UNCHANGED due
     ELSE UNCHANGED << flow, handled >>
  /\ UNCHANGED << world, pc, term, armed, poller, tip, acks, outbox, received, errors,
                  skipped, tenures >>

\* RequestDeciderEventLoop: votes on the requests of the block and sends the
\* votes; whether or not that worked, it passes the block on.  A message only
\* changes the database.
HandleNewRequests ==
  /\ busy["decider"] # <<>>
  /\ busy' = [busy EXCEPT !["decider"] = <<>>]
  /\ IF busy["decider"][1] = "BitcoinBlockObserved"
     THEN LET block == busy["decider"][2]
              decision == <<"decision", block, Self>>
          IN /\ \/ /\ Broadcasting(<<decision>>)
                   /\ signal(<< P2PPublish(decision), <<"NewRequestsHandled", block>> >>)
                   /\ UNCHANGED errors
                \/ /\ errors < world.errors /\ errors' = errors + 1
                   /\ signal(<< <<"NewRequestsHandled", block>> >>)
                   /\ UNCHANGED due
             /\ handled' = handled \cup {block}
     ELSE UNCHANGED << flow, handled, errors >>
  /\ UNCHANGED << world, pc, term, armed, poller, tip, acks, outbox, received, skipped,
                  tenures >>

\* TxSignerEventLoop::handle_signer_message: a request for the current chain
\* tip is answered, any other is not.
HandleSignerMessage ==
  /\ busy["tx_signer"] # <<>>
  /\ busy' = [busy EXCEPT !["tx_signer"] = <<>>]
  /\ LET msg == busy["tx_signer"][2]
         ack == <<"ack", msg[2], Self>>
     IN IF msg[2] = tip
        THEN /\ Broadcasting(<<ack>>)
             /\ signal(<<P2PPublish(ack), <<"SignerMessageGenerated", ack>>>>)
        ELSE UNCHANGED flow
  /\ UNCHANGED << world, pc, term, armed, poller, tip, acks, outbox, received, errors,
                  ghosts >>

Tenure == busy["coordinator"][2]
InTenure == Subscribed("tenure", queue)

\* TxCoordinatorEventLoop::process_new_blocks when this signer is the
\* coordinator and the block is still the chain tip.  The stream of answers
\* exists before the request goes out.
BeginTenure ==
  /\ busy["coordinator"] # <<>>
  /\ ~InTenure
  /\ Tenure \in Coordinates
  /\ Tenure = tip
  /\ LET request == <<"request", Tenure, Self>>
     IN /\ Broadcasting(<<request>>)
        /\ SendTo([queue EXCEPT !["tenure"] = {<<>>}],
                  <<P2PPublish(request), <<"CoordinatorMessageGenerated", request>>>>)
  /\ armed' = IF term THEN armed \ {"tenure"} ELSE armed \cup {"tenure"}
  /\ acks' = {}
  /\ tenures' = [tenures EXCEPT !.began = Append(@, Tenure)]
  /\ UNCHANGED << world, pc, term, poller, tip, busy, outbox, received, errors,
                  skipped, handled >>

\* The tenure reads its stream; an acknowledgement for its block counts.
CountAck ==
  /\ InTenure
  /\ LET q == Queue("tenure", queue)
     IN /\ q # <<>>
        /\ Head(q) # <<"Shutdown">>
        /\ queue' = [queue EXCEPT !["tenure"] = {Moved(q)}]
        /\ acks' = IF Head(q)[2][2] = Tenure THEN acks \cup {Head(q)[2][3]} ELSE acks
  /\ Cardinality(acks) < Threshold
  /\ UNCHANGED << world, pc, term, armed, poller, tip, busy, outbox, received, errors,
                  lost, due, ghosts >>

\* The end of process_new_blocks: at once if this signer does not coordinate
\* the block or the block is no longer the tip, otherwise with enough
\* acknowledgements, by the word of a shutdown, or by timeout.
EndTenure ==
  /\ busy["coordinator"] # <<>>
  /\ InTenure \/ Tenure \notin Coordinates \/ Tenure # tip
  /\ busy' = [busy EXCEPT !["coordinator"] = <<>>]
  /\ SendTo([queue EXCEPT !["tenure"] = {}], << <<"TenureCompleted", Tenure>> >>)
  /\ armed' = armed \ {"tenure"}
  /\ acks' = {}
  /\ tenures' = [tenures EXCEPT !.completed = Append(@, Tenure)]
  /\ UNCHANGED << world, pc, term, poller, tip, outbox, received, errors, due, skipped,
                  handled >>

(***************************************************************************)
(* The p2p loop.                                                           *)
(***************************************************************************)
\* run_libp2p_swarm: the peers are read, the swarm is built, and only then
\* are the receiver and the termination handle created.
StartSwarm ==
  /\ pc["p2p"] = "starting"
  /\ pc' = [pc EXCEPT !["p2p"] = "running"]
  /\ armed' = IF term THEN armed ELSE armed \cup {"p2p"}
  /\ SendTo([queue EXCEPT !["p2p"] = {<<>>}], << <<"EventLoopStarted">> >>)
  /\ UNCHANGED << world, term, poller, tip, busy, acks, outbox, received, errors, due,
                  ghosts >>

\* poll_outbound: publish commands are queued, anything else, a lag included,
\* is passed over, until there is nothing left to read.
PollOutbound ==
  /\ pc["p2p"] = "running"
  /\ LET commands == SelectSeq(Queue("p2p", queue), LAMBDA sig : sig # Other)
     IN /\ Queue("p2p", queue) # <<>>
        /\ outbox' = outbox \o [n \in DOMAIN commands |-> commands[n][2]]
  /\ queue' = [queue EXCEPT !["p2p"] = {<<>>}]
  /\ UNCHANGED << world, pc, term, armed, poller, tip, busy, acks, received, errors,
                  lost, due, ghosts >>

\* mutant: the outbox is read without being drained
PublishWithoutDraining ==
  /\ pc["p2p"] = "running"
  /\ outbox # <<>>
  /\ ToSet(outbox) \subseteq ToSet(due)
  /\ due' = FoldSeq(LAMBDA msg, left : RemoveFirst(left, msg), due, outbox)
  /\ UNCHANGED << world, pc, term, armed, poller, tip, busy, acks, outbox, received,
                  errors, queue, lost, ghosts >>

\* poll_swarm: the outbox is drained and each message published; the outcome
\* is signalled.
PublishOutbox ==
  /\ pc["p2p"] = "running"
  /\ outbox # <<>>
  /\ outbox' = <<>>
  /\ due' = FoldSeq(LAMBDA msg, left : RemoveFirst(left, msg), due, outbox)
  /\ \E failed \in SUBSET ToSet(outbox) :
       /\ errors + Cardinality(failed) <= world.errors
       /\ errors' = errors + Cardinality(failed)
       /\ signal([n \in 1..Len(outbox) |->
                   IF outbox[n] \in failed THEN <<"PublishFailure", outbox[n]>>
                                           ELSE <<"PublishSuccess", outbox[n]>>])
  /\ UNCHANGED << world, pc, term, armed, poller, tip, busy, acks, received, ghosts >>

\* handle_gossipsub_event: a message of another signer arrives.
ReceiveMessage ==
  /\ pc["p2p"] = "running"
  /\ received < world.received
  /\ received' = received + 1
  /\ \E kind \in {"request", "decision", "ack"}, block \in Blocks :
       signal(<< <<"MessageReceived", <<kind, block, Remote>>>> >>)
  /\ UNCHANGED << world, pc, term, armed, poller, tip, busy, acks, outbox, errors, due,
                  ghosts >>

(***************************************************************************)
(* Start-up and shutdown.                                                  *)
(***************************************************************************)
\* run_api: the handle is created once the socket is bound.
StartApi ==
  /\ pc["api"] = "starting"
  /\ pc' = [pc EXCEPT !["api"] = "running"]
  /\ armed' = IF term THEN armed ELSE armed \cup {"api"}
  /\ UNCHANGED << world, term, poller, tip, busy, acks, outbox, received, errors, flow,
                  ghosts >>

\* signal_shutdown: by the watcher on a termination signal of the system, or
\* by run_checked when the swarm cannot be built or cannot listen.
SignalShutdown ==
  /\ world.stop
  /\ ~term
  /\ term' = TRUE
  /\ \/ pc' = [pc EXCEPT !["watcher"] = "stopped"]
     \/ pc["p2p"] = "starting" /\ pc' = [pc EXCEPT !["p2p"] = "stopped"]
  /\ UNCHANGED << world, armed, poller, tip, busy, acks, outbox, received, errors, flow,
                  ghosts >>

\* wait_for_shutdown: a handle created before the shutdown wakes its
\* component; the watch has nothing new for one created after it.
WaitForShutdown(c) ==
  /\ c \in {"watcher", "api", "p2p"}
  /\ pc[c] = "running"
  /\ term
  /\ c \in armed
  /\ pc' = [pc EXCEPT ![c] = "stopped"]
  /\ queue' = IF c = "p2p" THEN [queue EXCEPT !["p2p"] = {}] ELSE queue
  /\ UNCHANGED << world, term, armed, poller, tip, busy, acks, outbox, received, errors,
                  lost, due, ghosts >>

\* The block observer asks the watch for its value in every turn.
StopObserver ==
  /\ pc["observer"] = "running"
  /\ term
  /\ pc' = [pc EXCEPT !["observer"] = "stopped"]
  /\ UNCHANGED << world, term, armed, poller, tip, busy, acks, outbox, received, errors,
                  flow, ghosts >>

Init ==
  /\ world \in Worlds
  /\ pc = [c \in Components |-> IF c \in {"api", "p2p"} THEN "starting" ELSE "running"]
  /\ term = FALSE
  /\ armed = Loops \cup {"watcher"}
  /\ poller = [last_seen_hash |-> 0, stream |-> <<>>]
  /\ tip = 0
  /\ queue = [r \in Receivers |-> IF r \in Loops THEN {<<>>} ELSE {}]
  /\ busy = [l \in Loops |-> <<>>]
  /\ acks = {}
  /\ outbox = <<>>
  /\ received = 0
  /\ errors = 0
  /\ lost = [r \in Receivers |-> {}]
  /\ due = <<>>
  /\ skipped = {}
  /\ handled = {}
  /\ tenures = [began |-> <<>>, completed |-> <<>>]

\* No task can run: what is left is up to the node, the other signers and the
\* operator.  Every step uses something up, so a signer whose tasks are run
\* gets here, and what must eventually happen has happened by now.
Settled ==
  /\ pc["observer"] = "running" => poller.stream = <<>> /\ ~term
  /\ \A l \in Loops : /\ pc[l] = "running" => Queue(l, queue) = <<>>
                      /\ busy[l] = <<>>
                      /\ term => l \notin armed
  /\ pc["p2p"] = "running" => Queue("p2p", queue) = <<>> /\ outbox = <<>>
  /\ \A c \in {"watcher", "api", "p2p"} :
       /\ pc[c] # "starting"
       /\ pc[c] = "running" => ~(term /\ c \in armed)

Finished == Settled /\ UNCHANGED vars

Next ==
  \/ Poll \/ ObserveBlock \/ SkipBlock
  \/ \E r \in Streams : StreamShutdown(r)
  \/ \E l \in Loops : Take(l)
  \/ HandleNewRequests \/ HandleSignerMessage
  \/ BeginTenure \/ CountAck \/ EndTenure
  \/ StartSwarm \/ PollOutbound \/ PublishOutbox \/ ReceiveMessage
  \/ StartApi \/ SignalShutdown \/ StopObserver
  \/ \E c \in Components : WaitForShutdown(c)
  \/ Finished

Spec == Init /\ [][Next]_vars

(***************************************************************************)
(* Properties.                                                             *)
(***************************************************************************)
\* The coordinator works on a block only after the decider has gone through
\* the requests of that block, and on blocks in the order of the chain, each
\* once: the tenure's queries see this signer's own votes.
TenuresFollowDecisions ==
  /\ ToSet(tenures.began) \subseteq handled
  /\ \A m, n \in DOMAIN tenures.began : m < n => tenures.began[m] < tenures.began[n]

\* What the components broadcast is published once each and in order: all of
\* it is published, in the outbox or on its way there, except what went out
\* before the p2p loop had subscribed and what that loop missed by lagging.
PublishedInOrder ==
  LET Heard(m) == P2PPublish(m) \notin lost["p2p"]
      Pending == SelectSeq(Queue("p2p", queue), LAMBDA sig : sig # Other)
  IN pc["p2p"] = "running" =>
       SelectSeq(due, Heard)
         = SelectSeq(outbox \o [n \in 1..Len(Pending) |-> Pending[n][2]], Heard)

\* A block that the poller reported gets its tenure, unless the observer gave
\* up on it, a loop lagged so far that it missed the word of it, or the signer
\* is shutting down.
BlocksAreProcessed ==
  Settled /\ ~term =>
    \A b \in 1..poller.last_seen_hash :
      \/ b \in ToSet(tenures.completed) \/ b \in skipped
      \/ <<"BitcoinBlockObserved", b>> \in lost["decider"]
      \/ <<"NewRequestsHandled", b>> \in lost["coordinator"]

\* A component that obtained its termination handle after the shutdown
Late(c) == c \in {"api", "p2p"} /\ c \notin armed

\* After a shutdown is signalled, every component that had its termination
\* handle by then stops, whatever it was doing and however full its queue.
ShutdownStops ==
  Settled /\ term => \A c \in Components : pc[c] = "stopped" \/ Late(c)
=============================================================================
