--------------------------- MODULE DkgVerification ---------------------------
(***************************************************************************)
(* The signing round that verifies a new aggregate key, message by         *)
(* message.  The coordinator asks for nonces and then for signature        *)
(* shares; every signer answers, and follows the round with a FROST        *)
(* coordinator of its own, behind a queue that puts the messages into the  *)
(* order which that coordinator needs (dkg::verification::StateMachine).   *)
(*                                                                         *)
(* The network reorders messages and does not repeat them (gossipsub       *)
(* drops what it has seen).  To the safety properties a lost message is    *)
(* one never received.  A signer whose Bitcoin chain tip moves ignores the *)
(* rest of the round.                                                      *)
(***************************************************************************)
EXTENDS FiniteSets, Naturals

CONSTANTS
    Signers,
    MaxBlocks   \* bound on the signers whose chain tip moves

ASSUME SignersAssumption == IsFiniteSet(Signers) /\ Signers # {}
ASSUME BlocksAssumption == MaxBlocks \in Nat

VARIABLES
    inbox,    \* inbox[s]: messages that will reach the signer s
    mail,     \* messages that will reach the coordinator's tenure
    round,    \* the coordinator's FROST state machine
    machine,  \* machine[s]: its entry in dkg_verification_state_machines
    signing,  \* signers with an entry in wsts_state_machines
    sent,     \* signers that have published their signature share
    verified, \* signers that have marked the shares as verified
    gone,     \* signers whose chain tip has moved
    dropped   \* a message met no state machine

vars == <<inbox, mail, round, machine, signing, sent, verified, gone, dropped>>

\* A request is from the coordinator, a response from the signer in from.
Responses == [type : {"NonceResponse", "SignatureShareResponse"}, from : Signers]

NonceResponse(s) == [type |-> "NonceResponse", from |-> s]
SignatureShareResponse(s) == [type |-> "SignatureShareResponse", from |-> s]

-----------------------------------------------------------------------------
(* The FROST coordinator behind its queue.                                 *)

NoMachine == [state |-> "none", frost |-> "idle", queue |-> {}, awaited |-> {}]
NewMachine == [NoMachine EXCEPT !.state = "idle"]

current_processable_message_type(m) ==
    CASE m.frost = "idle"         -> "NonceRequest"
      [] m.frost = "nonce_gather" -> "NonceResponse"
      [] m.frost = "share_gather" -> "SignatureShareResponse"

\* FROST awaits an answer of every signer, whatever the threshold.
ids_to_await == Signers

request_nonces(m) == [m EXCEPT !.frost = "nonce_gather", !.awaited = ids_to_await]

\* Nonces of the signers in S.  With the last ones the coordinator requests
\* signature shares (request_sig_shares).
gather_nonces(m, S) ==
    IF m.awaited \subseteq S
    THEN [m EXCEPT !.frost = "share_gather", !.awaited = ids_to_await]
    ELSE [m EXCEPT !.awaited = m.awaited \ S]

\* Signature shares of the signers in S.  With the last ones the signature is
\* complete.
gather_sig_shares(m, S) ==
    IF m.awaited \subseteq S
    THEN [m EXCEPT !.frost = "idle", !.state = "success", !.awaited = {}]
    ELSE [m EXCEPT !.awaited = m.awaited \ S]

\* The FROST coordinator's process_message, for answers of the type it awaits.
Gather(m, S) ==
    IF m.frost = "nonce_gather" THEN gather_nonces(m, S) ELSE gather_sig_shares(m, S)

\* All the queued messages that the coordinator can process in its state.  The
\* code stops at the one that changes the state, which is the last one awaited.
process_queued_messages(m) ==
    LET ready == {msg \in m.queue : msg.type = current_processable_message_type(m)}
        rest  == [m EXCEPT !.queue = m.queue \ ready]
    IN  IF ready = {} THEN m
        ELSE IF m.frost = "idle" THEN request_nonces(rest)
        ELSE Gather(rest, {msg.from : msg \in ready})

Enqueued(m, msg) ==
    [m EXCEPT !.queue = m.queue \cup {msg}, !.state = "signing"]

\* while self.process_queued_messages()? {}: there is one nonce request, so that
\* after three turns, for the three states, nothing is left to process.  Every
\* turn has one outcome.
Turn(M) == {process_queued_messages(m) : m \in M}

process_message(m, msg) ==
    CHOOSE n \in Turn(Turn(Turn({Enqueued(m, msg)}))) : TRUE

-----------------------------------------------------------------------------
(* A signer: TxSignerEventLoop::handle_wsts_message.                       *)

Init ==
    /\ inbox = [s \in Signers |-> {}]
    /\ mail = {}
    /\ round = NoMachine
    /\ machine = [s \in Signers |-> NoMachine]
    /\ signing = {}
    /\ sent = {}
    /\ verified = {}
    /\ gone = {}
    /\ dropped = FALSE

\* The signer's own answer reaches its peers and the coordinator.
Publish(s, to, msg) ==
    /\ inbox' = [q \in Signers |-> IF q = s THEN to ELSE inbox[q] \cup {msg}]
    /\ mail' = mail \cup {msg}

\* mutant: at success the shares are not marked
process_dkg_verification_message_unmarked(s, m) ==
    /\ machine' = [machine EXCEPT ![s] = IF m.state = "success" THEN NoMachine ELSE m]
    /\ signing' = IF m.state = "success" THEN signing \ {s} ELSE signing
    /\ UNCHANGED verified

\* What follows from the machine's new state m: at success both machines are
\* removed and the shares are marked as verified.
process_dkg_verification_message(s, m) ==
    IF m.state = "success"
    THEN /\ machine' = [machine EXCEPT ![s] = NoMachine]
         /\ signing' = signing \ {s}
         /\ verified' = verified \cup {s}
    ELSE /\ machine' = [machine EXCEPT ![s] = m]
         /\ UNCHANGED <<signing, verified>>

ensure_dkg_verification_state_machine(s) ==
    IF machine[s].state = "none" THEN NewMachine ELSE machine[s]

\* The nonce request starts the signer's state machine; its own nonces pass
\* through the FROST coordinator before they are published.
NonceRequest(s) ==
    LET msg == [type |-> "NonceRequest"]
        m   == process_message(ensure_dkg_verification_state_machine(s), msg)
        own == process_message(m, NonceResponse(s))
    IN  /\ s \notin gone
        /\ msg \in inbox[s]
        /\ machine' = [machine EXCEPT ![s] = own]
        /\ signing' = signing \cup {s}
        /\ Publish(s, inbox[s] \ {msg}, NonceResponse(s))
        /\ UNCHANGED <<round, sent, verified, gone, dropped>>

\* A message for which the signer has no state machine is refused.
Refuse(s, msg) ==
    /\ inbox' = [inbox EXCEPT ![s] = @ \ {msg}]
    /\ dropped' = TRUE
    /\ UNCHANGED <<mail, round, machine, signing, sent, verified, gone>>

\* mutant: the round ends at success, before the signer's share is published
SignatureShareRequestUnsent(s) ==
    LET msg == [type |-> "SignatureShareRequest"]
        m   == process_message(machine[s], msg)
        own == process_message(m, SignatureShareResponse(s))
    IN  /\ s \notin gone
        /\ msg \in inbox[s]
        /\ process_dkg_verification_message(s, own)
        /\ IF own.state = "success"
           THEN /\ inbox' = [inbox EXCEPT ![s] = @ \ {msg}]
                /\ UNCHANGED <<mail, sent>>
           ELSE /\ sent' = sent \cup {s}
                /\ Publish(s, inbox[s] \ {msg}, SignatureShareResponse(s))
        /\ UNCHANGED <<round, gone, dropped>>

\* The signer's own share passes through the FROST coordinator, where it may be
\* the last one, before it is published.
SignatureShareRequest(s) ==
    LET msg == [type |-> "SignatureShareRequest"]
        m   == process_message(machine[s], msg)
        own == process_message(m, SignatureShareResponse(s))
    IN  /\ s \notin gone
        /\ msg \in inbox[s]
        /\ IF machine[s].state = "none" \/ s \notin signing
           THEN Refuse(s, msg)
           ELSE /\ process_dkg_verification_message(s, own)
                /\ sent' = sent \cup {s}
                /\ Publish(s, inbox[s] \ {msg}, SignatureShareResponse(s))
                /\ UNCHANGED <<round, gone, dropped>>

\* mutant: a nonce that overtakes the nonce request is refused
ReceiveNonceLate(s, q) ==
    LET msg == NonceResponse(q)
    IN  /\ s \notin gone
        /\ msg \in inbox[s]
        /\ IF machine[s].state = "none"
           THEN Refuse(s, msg)
           ELSE /\ process_dkg_verification_message(s, process_message(machine[s], msg))
                /\ inbox' = [inbox EXCEPT ![s] = @ \ {msg}]
                /\ UNCHANGED <<mail, round, sent, gone, dropped>>

\* The nonces of a peer may overtake the nonce request.
ReceiveNonce(s, q) ==
    LET msg == NonceResponse(q)
    IN  /\ s \notin gone
        /\ msg \in inbox[s]
        /\ process_dkg_verification_message(s,
               process_message(ensure_dkg_verification_state_machine(s), msg))
        /\ inbox' = [inbox EXCEPT ![s] = @ \ {msg}]
        /\ UNCHANGED <<mail, round, sent, gone, dropped>>

ReceiveShare(s, q) ==
    LET msg == SignatureShareResponse(q)
    IN  /\ s \notin gone
        /\ msg \in inbox[s]
        /\ IF machine[s].state = "none"
           THEN Refuse(s, msg)
           ELSE /\ process_dkg_verification_message(s, process_message(machine[s], msg))
                /\ inbox' = [inbox EXCEPT ![s] = @ \ {msg}]
                /\ UNCHANGED <<mail, round, sent, gone, dropped>>

-----------------------------------------------------------------------------
(* The coordinator: TxCoordinatorEventLoop::coordinate_signing_round.      *)

Broadcast(msg) == inbox' = [s \in Signers |-> inbox[s] \cup {msg}]

start_signing_round ==
    /\ round.state = "none"
    /\ round' = [request_nonces(NewMachine) EXCEPT !.state = "signing"]
    /\ Broadcast([type |-> "NonceRequest"])
    /\ UNCHANGED <<mail, machine, signing, sent, verified, gone, dropped>>

\* One answer reaches the coordinator; the last nonces make it request the
\* signature shares.  A message it does not await is ignored.
drive_wsts_state_machine(msg) ==
    LET next == Gather(round, {msg.from})
    IN  /\ round.state = "signing"
        /\ msg \in mail
        /\ mail' = mail \ {msg}
        /\ IF msg.type = current_processable_message_type(round)
           THEN /\ round' = next
                /\ IF round.frost = "nonce_gather" /\ next.frost = "share_gather"
                   THEN Broadcast([type |-> "SignatureShareRequest"])
                   ELSE UNCHANGED inbox
           ELSE UNCHANGED <<round, inbox>>
        /\ UNCHANGED <<machine, signing, sent, verified, gone, dropped>>

\* signing_round_max_duration elapses.
CoordinatorTimeout ==
    /\ round.state = "signing"
    /\ round' = [round EXCEPT !.state = "timeout"]
    /\ UNCHANGED <<inbox, mail, machine, signing, sent, verified, gone, dropped>>

-----------------------------------------------------------------------------
(* The chain.                                                              *)

\* The signer sees a new Bitcoin block; messages of this round no longer
\* carry its chain tip.
NewChainTip(s) ==
    /\ Cardinality(gone) < MaxBlocks
    /\ s \notin gone
    /\ gone' = gone \cup {s}
    /\ UNCHANGED <<inbox, mail, round, machine, signing, sent, verified, dropped>>

\* What one event loop does with the next message that has reached it.
SignerLoop(s) ==
    \/ NonceRequest(s) \/ SignatureShareRequest(s)
    \/ \E q \in Signers : ReceiveNonce(s, q) \/ ReceiveShare(s, q)
CoordinatorLoop ==
    start_signing_round \/ \E msg \in Responses : drive_wsts_state_machine(msg)

Next ==
    \/ CoordinatorLoop
    \/ \E s \in Signers : SignerLoop(s)
    \/ CoordinatorTimeout
    \/ \E s \in Signers : NewChainTip(s)

\* The event loops poll: they go on while messages are there, and every message
\* is consumed by one step.
Fairness == WF_vars(CoordinatorLoop) /\ \A s \in Signers : WF_vars(SignerLoop(s))

Spec == Init /\ [][Next]_vars /\ Fairness

-----------------------------------------------------------------------------
(* Properties.                                                             *)

\* A signer marks the shares as verified only once every signer, itself
\* included, has published its signature share: when relay_message ends the
\* round with the signer's own share, the share is still sent.
VerifiedIsSigned == verified # {} => sent = Signers

\* No message of the round meets a missing state machine
\* (Error::MissingStateMachine), in whatever order the messages arrive: nonces
\* may overtake the nonce request, and the machines removed at success are
\* needed by no message still on its way.
NothingRefused == ~dropped

\* The round implements the two steps that the life of the keys is built on:
\* a signer joins when it answers the nonce request, and verifies the shares
\* only in a round that all have joined.
Round == INSTANCE UnanimousRound WITH joined <- signing \cup verified, done <- verified
RoundSpec == Round!Spec

\* If the messages arrive and no signer's tip moves, every signer verifies the
\* shares, also when the coordinator gives up after it has requested the
\* signature shares: the signers follow the round by themselves.
Completed ==
    \/ verified = Signers
    \/ gone # {}
    \/ round.state = "timeout" /\ round.frost = "nonce_gather"
=============================================================================
