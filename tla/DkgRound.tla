------------------------------ MODULE DkgRound ------------------------------
(***************************************************************************)
(* One round of distributed key generation: the FIRE coordinator of a      *)
(* tenure, and at each signer the WSTS state machine behind the            *)
(* transaction signer's event loop.  The signers exchange public shares    *)
(* (commitments to a secret polynomial) and private shares (its values);   *)
(* the aggregate key follows from the polynomials of all of them.          *)
(*                                                                         *)
(* Signers and the coordinator may restart within the round, which starts  *)
(* it again for the same Bitcoin block while messages of the earlier       *)
(* attempt are still on their way.                                         *)
(***************************************************************************)
EXTENDS Naturals

CONSTANTS
    DkgSigners,
    Coordinator,  \* the signer whose tenure it is
    MaxRestarts   \* bound on the restarts

VARIABLES
    log,         \* the messages published in the round
    seen,        \* seen[s]: messages that have reached the signer s
    heard,       \* messages that have reached the coordinator
    dkg_round,   \* the FIRE coordinator
    dkg_machine, \* dkg_machine[s]: the entry of s in wsts_state_machines
    stored,      \* stored[s]: the polynomials behind the key that s has stored
    restarts,    \* how often a process has restarted
    missed,      \* signers that public shares have reached before DkgBegin
    ignored      \* signers that have ended the round without telling anyone

dkgvars == <<log, seen, heard, dkg_round, dkg_machine, stored, restarts, missed, ignored>>

-----------------------------------------------------------------------------
(* Polynomials and messages.                                               *)

\* A signer's polynomials are told apart by number.  0 is none.
Polynomials == 0..(MaxRestarts + 1)
NoShares == [s \in DkgSigners |-> 0]

\* mutant: another polynomial after a restart
fresh_polynomial(s) == restarts + 1

\* The generator is seeded with the block and the signer's private key: within
\* the round the polynomial is the same every time.
create_rng(s) == 1

Request(t) == [type |-> t]
DkgPublicShares(s, p) == [type |-> "DkgPublicShares", from |-> s, poly |-> p]
DkgPrivateShares(s, p) == [type |-> "DkgPrivateShares", from |-> s, poly |-> p]
DkgEnd(s, bad) == [type |-> "DkgEnd", from |-> s, bad |-> bad]

ShareMessages == [type : {"DkgPublicShares", "DkgPrivateShares"}, from : DkgSigners,
                  poly : Polynomials]
EndMessages == [type : {"DkgEnd"}, from : DkgSigners, bad : SUBSET DkgSigners]

-----------------------------------------------------------------------------
(* The WSTS signer.                                                        *)

NoDkgMachine == [state |-> "none", poly |-> 0, public |-> NoShares, private |-> NoShares,
              private_begin |-> FALSE, end_begin |-> FALSE]

can_dkg_end(m) ==
    /\ m.state = "private_gather"
    /\ m.private_begin
    /\ \A q \in DkgSigners : m.public[q] # 0
    /\ m.end_begin
    /\ \A q \in DkgSigners : m.private[q] # 0

\* The requests name the signers whose shares the coordinator has, which are all
\* of them, so MissingPublicShares, MissingPrivateShares and Threshold are not
\* among the outcomes.  Private shares that do not fit the sender's commitment.
BadShares(public, private) == {q \in DkgSigners : private[q] # public[q]}

\* What the messages do to a signer's machine.
dkg_public_begin(p) == [NoDkgMachine EXCEPT !.state = "public_gather", !.poly = p]

dkg_private_begin(m) == [m EXCEPT !.state = "private_gather", !.private_begin = TRUE]

dkg_end_begin(m) == [m EXCEPT !.end_begin = TRUE]

dkg_public_share(m, q, p) == [m EXCEPT !.public[q] = p]

dkg_private_shares(m, q, p) == [m EXCEPT !.private[q] = p]

\* The end of the machine's process, which returns it to Idle: DkgEnd says
\* whose shares are bad.
dkg_ended(s, m) == DkgEnd(s, BadShares(m.public, m.private))

\* After a message that made m of the machine: a successful DkgEnd lets the
\* signer store the shares and drop the machine before it is published.
relay_message(s, m) ==
    IF ~can_dkg_end(m)
    THEN /\ dkg_machine' = [dkg_machine EXCEPT ![s] = m]
         /\ UNCHANGED <<stored, log>>
    ELSE /\ log' = log \cup {dkg_ended(s, m)}
         /\ IF dkg_ended(s, m).bad = {}
            THEN /\ stored' = [stored EXCEPT ![s] = m.public]
                 /\ dkg_machine' = [dkg_machine EXCEPT ![s] = NoDkgMachine]
            ELSE /\ dkg_machine' = [dkg_machine EXCEPT ![s] = [m EXCEPT !.state = "idle"]]
                 /\ UNCHANGED stored

DkgInit ==
    /\ log = {}
    /\ seen = [s \in DkgSigners |-> {}]
    /\ heard = {}
    /\ dkg_round = [state |-> "idle", wait |-> {}, public |-> NoShares,
                private |-> NoShares, reports |-> {}]
    /\ dkg_machine = [s \in DkgSigners |-> NoDkgMachine]
    /\ stored = [s \in DkgSigners |-> NoShares]
    /\ restarts = 0
    /\ missed = {}
    /\ ignored = {}

\* A message reaches a signer once: gossipsub drops what it has seen.  DkgEnd
\* is only logged by the signers.
Receive(s, msg) ==
    /\ msg \in log \ seen[s]
    /\ seen' = [seen EXCEPT ![s] = @ \cup {msg}]
    /\ UNCHANGED <<heard, dkg_round, restarts>>

\* A message with random or unordered parts is new to the network whenever it
\* is sent: the ciphertexts of DkgPrivateShares, the signer ids of the requests
\* that follow DkgBegin.
Unseen(msgs, msg) == [s \in DkgSigners |-> msgs[s] \ {msg}]

\* Error::MissingStateMachine
RefuseDkg == UNCHANGED <<log, dkg_machine, stored, missed, ignored>>

\* assert_allow_dkg_begin: a signer with shares to be verified does not join.
DkgBegin(s) ==
    /\ Receive(s, Request("DkgBegin"))
    /\ IF stored[s] # NoShares THEN RefuseDkg
       ELSE LET p == create_rng(s)
            IN  /\ dkg_machine' = [dkg_machine EXCEPT ![s] =
                                      dkg_public_share(dkg_public_begin(p), s, p)]
                /\ log' = log \cup {DkgPublicShares(s, p)}
                /\ UNCHANGED <<stored, missed, ignored>>

\* The signer's own private shares pass through its machine, and if they end the
\* round the DkgEnd that this emits is ignored.
DkgPrivateBegin(s) ==
    LET m == dkg_machine[s]
        own == dkg_private_shares(dkg_private_begin(m), s, m.poly)
        request == Request("DkgPrivateBegin")
        shares  == DkgPrivateShares(s, m.poly)
    IN  /\ request \in log \ seen[s]
        /\ UNCHANGED <<dkg_round, restarts>>
        /\ IF m.state # "public_gather"
           THEN /\ seen' = [seen EXCEPT ![s] = @ \cup {request}]
                /\ UNCHANGED heard
                /\ RefuseDkg
           ELSE /\ seen' = Unseen([seen EXCEPT ![s] = @ \cup {request}], shares)
                /\ heard' = heard \ {shares}
                /\ log' = log \cup {shares}
                /\ IF can_dkg_end(own)
                   THEN /\ dkg_machine' = [dkg_machine EXCEPT ![s] = [own EXCEPT !.state = "idle"]]
                        /\ ignored' = ignored \cup {s}
                   ELSE dkg_machine' = [dkg_machine EXCEPT ![s] = own] /\ UNCHANGED ignored
                /\ UNCHANGED <<stored, missed>>

DkgEndBegin(s) ==
    /\ Receive(s, Request("DkgEndBegin"))
    /\ IF dkg_machine[s].state = "none" THEN RefuseDkg
       ELSE /\ relay_message(s, dkg_end_begin(dkg_machine[s]))
            /\ UNCHANGED <<missed, ignored>>

\* Public shares that arrive before DkgBegin are refused; dkg_begin_pause gives
\* DkgBegin time to be first.
ReceivePublicShares(s, q, p) ==
    /\ s # q
    /\ Receive(s, DkgPublicShares(q, p))
    /\ IF dkg_machine[s].state = "none"
       THEN /\ missed' = missed \cup {s}
            /\ UNCHANGED <<log, dkg_machine, stored, ignored>>
       ELSE /\ relay_message(s, dkg_public_share(dkg_machine[s], q, p))
            /\ UNCHANGED <<missed, ignored>>

\* mutant: the end of the round is not looked for after private shares
ReceivePrivateSharesOnly(s, q, p) ==
    /\ s # q
    /\ Receive(s, DkgPrivateShares(q, p))
    /\ IF dkg_machine[s].state = "none" THEN RefuseDkg
       ELSE /\ dkg_machine' = [dkg_machine EXCEPT ![s] =
                                  dkg_private_shares(dkg_machine[s], q, p)]
            /\ UNCHANGED <<log, stored, missed, ignored>>

ReceivePrivateShares(s, q, p) ==
    /\ s # q
    /\ Receive(s, DkgPrivateShares(q, p))
    /\ IF dkg_machine[s].state = "none" THEN RefuseDkg
       ELSE /\ relay_message(s, dkg_private_shares(dkg_machine[s], q, p))
            /\ UNCHANGED <<missed, ignored>>

-----------------------------------------------------------------------------
(* The FIRE coordinator.                                                   *)

start_public_shares ==
    /\ dkg_round.state = "idle"
    /\ stored[Coordinator] = NoShares
    /\ dkg_round' = [dkg_round EXCEPT !.state = "public_gather", !.wait = DkgSigners]
    /\ log' = log \cup {Request("DkgBegin")}
    /\ UNCHANGED <<seen, heard, dkg_machine, stored, restarts, missed, ignored>>

\* The shares of q are in; after the last ones the coordinator sends the next
\* request and waits for all signers again.
Gathered(shares, q, state, request) ==
    IF dkg_round.wait \subseteq {q}
    THEN /\ dkg_round' = [shares EXCEPT !.state = state, !.wait = DkgSigners]
         /\ log' = log \cup {Request(request)}
         /\ seen' = Unseen(seen, Request(request))
    ELSE /\ dkg_round' = [shares EXCEPT !.wait = @ \ {q}]
         /\ UNCHANGED <<log, seen>>

gather_public_shares(msg) ==
    IF msg.type = "DkgPublicShares"
    THEN Gathered([dkg_round EXCEPT !.public[msg.from] = msg.poly], msg.from,
                  "private_gather", "DkgPrivateBegin")
    ELSE UNCHANGED <<dkg_round, log, seen>>

gather_private_shares(msg) ==
    IF msg.type = "DkgPrivateShares"
    THEN Gathered([dkg_round EXCEPT !.private[msg.from] = msg.poly], msg.from,
                  "end_gather", "DkgEndBegin")
    ELSE UNCHANGED <<dkg_round, log, seen>>

\* A reported failure counts if the coordinator's own copy of the shares is bad
\* too; a report that it cannot confirm is put down to the reporter.
dkg_failures(reports) ==
    {q \in UNION reports : q \in BadShares(dkg_round.public, dkg_round.private)}

gather_dkg_end(msg) ==
    LET reports == dkg_round.reports \cup {msg.bad}
        next == [dkg_round EXCEPT !.wait = @ \ {msg.from}, !.reports = reports]
    IN  /\ UNCHANGED <<log, seen>>
        /\ IF msg.type # "DkgEnd" \/ msg.from \notin dkg_round.wait THEN UNCHANGED dkg_round
           ELSE IF next.wait # {} THEN dkg_round' = next
           ELSE dkg_round' = [next EXCEPT
                    !.state = IF dkg_failures(reports) = {} THEN "dkg" ELSE "failed"]

\* A message that is not for the coordinator's state is consumed by it.
drive_dkg_state_machine(msg) ==
    /\ msg \in log \ heard
    /\ msg \in ShareMessages \cup EndMessages
    /\ heard' = heard \cup {msg}
    /\ \/ dkg_round.state = "public_gather" /\ gather_public_shares(msg)
       \/ dkg_round.state = "private_gather" /\ gather_private_shares(msg)
       \/ dkg_round.state = "end_gather" /\ gather_dkg_end(msg)
    /\ UNCHANGED <<dkg_machine, stored, restarts, missed, ignored>>

\* dkg_max_duration elapses.
DkgCoordinatorTimeout ==
    /\ dkg_round.state \in {"public_gather", "private_gather", "end_gather"}
    /\ dkg_round' = [dkg_round EXCEPT !.state = "timeout"]
    /\ UNCHANGED <<log, seen, heard, dkg_machine, stored, restarts, missed, ignored>>

\* The process of s restarts: its state machines and the network's memory of
\* messages are gone, the stored shares are not.  The coordinator begins anew.
Restart(s) ==
    /\ restarts < MaxRestarts
    /\ restarts' = restarts + 1
    /\ dkg_machine' = [dkg_machine EXCEPT ![s] = NoDkgMachine]
    /\ seen' = [seen EXCEPT ![s] = {}]
    /\ IF s = Coordinator
       THEN /\ heard' = {}
            /\ dkg_round' = [state |-> "idle", wait |-> {}, public |-> NoShares,
                         private |-> NoShares, reports |-> {}]
       ELSE UNCHANGED <<heard, dkg_round>>
    /\ UNCHANGED <<log, stored, missed, ignored>>

\* The event loop of the transaction signer of s, and of the coordinator.
DkgSignerLoop(s) ==
    \/ DkgBegin(s)
    \/ DkgPrivateBegin(s)
    \/ DkgEndBegin(s)
    \/ \E q \in DkgSigners, p \in Polynomials : ReceivePublicShares(s, q, p)
    \/ \E q \in DkgSigners, p \in Polynomials : ReceivePrivateShares(s, q, p)

DkgCoordinatorLoop ==
    \/ start_public_shares
    \/ \E msg \in log : drive_dkg_state_machine(msg)

DkgNext ==
    \/ \E s \in DkgSigners : DkgSignerLoop(s)
    \/ DkgCoordinatorLoop
    \/ DkgCoordinatorTimeout
    \/ \E s \in DkgSigners : Restart(s)

\* tokio runs every event loop, and the network delivers what it carries.
DkgFairness ==
    /\ \A s \in DkgSigners : WF_dkgvars(DkgSignerLoop(s))
    /\ WF_dkgvars(DkgCoordinatorLoop)

DkgSpec == DkgInit /\ [][DkgNext]_dkgvars /\ DkgFairness

-----------------------------------------------------------------------------
(* Properties.                                                             *)

\* No two signers store the shares of different keys, and the coordinator's
\* result is that key, though any of them may have restarted between the
\* messages of the round: the generator of the polynomials is seeded with the
\* block so that the shares of two attempts fit each other.
OneKey ==
    LET keys == {stored[s] : s \in DkgSigners} \ {NoShares}
        result == IF dkg_round.state = "dkg" THEN {dkg_round.public} ELSE {}
    IN  \A k, l \in keys \cup result : k = l

\* When the coordinator reports a key, every signer has stored its shares of
\* it: DkgEnd is published after store_dkg_shares and the coordinator waits for
\* all of them, so verification can ask any signer at once.
ResultIsStored ==
    dkg_round.state = "dkg" => \A s \in DkgSigners : stored[s] # NoShares

\* All stored shares and the coordinator's result are of one key, and when the
\* coordinator reports the key every signer has stored its shares of it.
SameKey == OneKey /\ ResultIsStored

\* Without restarts no signer ends the round on its own private shares, when
\* relay_message ignores the DkgEnd that the machine emits and neither stores
\* the shares nor tells the coordinator.
NoEndIgnored == restarts = 0 => ignored = {}

\* The round ends with a key, in whatever order the messages arrive, unless the
\* coordinator gives up, a process restarts, or public shares reach a signer
\* before DkgBegin, against which dkg_begin_pause is meant.
DkgCompleted ==
    dkg_round.state \in {"dkg", "timeout"} \/ restarts > 0 \/ missed # {}
=============================================================================
