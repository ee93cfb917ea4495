---------------------------- MODULE SigningRound ----------------------------
(***************************************************************************)
(* The signing rounds of a tenure: the coordinator signs the inputs of its *)
(* sweeps one after the other, each in a FIRE round of its own, with the   *)
(* signers whose tables say that they sign the input.  A round asks for    *)
(* nonces, goes on with the first Threshold of them and asks their signers *)
(* for signature shares.                                                   *)
(*                                                                         *)
(* All messages are of one Bitcoin block: event loops drop those of        *)
(* another.  The coordinator may restart and begin anew at this block.     *)
(***************************************************************************)
EXTENDS Naturals, FiniteSets

CONSTANTS
    Signers,
    Coordinator,   \* the signer whose tenure it is
    Threshold,     \* bootstrap_signatures_required
    NumMessages,   \* how many sighashes the package has
    RowValues,     \* what a signer's table may say of a sighash
    MaxRestarts,   \* bound on the restarts of the coordinator
    MaxRepeated    \* bound on the nonces that may be asked for once more

SigningConstants ==
    /\ IsFiniteSet(Signers)
    /\ Coordinator \in Signers
    /\ Threshold \in 1..Cardinality(Signers)
    /\ NumMessages \in Nat \ {0}
    /\ RowValues \subseteq {"unknown", "refuse", "sign"}
    /\ MaxRestarts \in Nat /\ MaxRepeated \in Nat

Messages == 1..NumMessages

VARIABLES
    rows,      \* rows[s][i]: what bitcoin_tx_sighashes of s says of message i
    log,       \* the messages published in the tenure
    seen,      \* seen[s]: messages that have reached the signer s
    heard,     \* messages that have reached the coordinator
    machine,   \* machine[s][i]: the nonce of the machine of s for i, or 0
    nonces,    \* nonces[s]: how many nonces s has generated
    current,   \* the message that the coordinator is signing
    round,     \* its FIRE coordinator
    signed,    \* the signatures made
    used,      \* the signature shares made
    restarts   \* how often the coordinator has restarted

vars == <<rows, log, seen, heard, machine, nonces, current, round, signed, used, restarts>>

-----------------------------------------------------------------------------
(* Messages.                                                               *)

\* A nonce of a signer is told by its number.  0 is none.  A request may reach a
\* signer once more when it restarts and once more when it is sent again.
Nonces == 0..(NumMessages * (2 * MaxRestarts + 1))
NonceMap == [Signers -> Nonces]
NoNonces == [s \in Signers |-> 0]
SignersOf(map) == {s \in Signers : map[s] # 0}

\* construct_signing_round_id hashes the message and the block: the sign id
\* says which message a round is about, not which attempt.
NonceRequest(i) == [type |-> "NonceRequest", sign_id |-> i]
NonceResponse(s, i, n) ==
    [type |-> "NonceResponse", from |-> s, sign_id |-> i, nonce |-> n]
SignatureShareRequest(id, i, map) ==
    [type |-> "SignatureShareRequest", sign_id |-> id, message |-> i, nonces |-> map]
SignatureShareResponse(s, req, n) ==
    [type |-> "SignatureShareResponse", from |-> s, sign_id |-> req.sign_id,
     message |-> req.message, nonces |-> req.nonces, nonce |-> n]

-----------------------------------------------------------------------------
(* The signers.                                                            *)

\* validate_bitcoin_sign_request: a request that fails it changes nothing.
will_sign_bitcoin_tx_sighash(s, i) == rows[s][i] = "sign"

\* gossipsub hands on what it has not seen in a while.
Receive(s, msg) ==
    /\ msg \in log \ seen[s]
    /\ seen' = [seen EXCEPT ![s] = @ \cup {msg}]
    /\ UNCHANGED <<rows, heard, current, round, signed, restarts>>

\* A request that meets no machine of the signer.
Refuse == UNCHANGED <<log, machine, nonces, used>>

\* Each request loads a new machine, which draws a new nonce.
nonce_request(s, i) ==
    /\ Receive(s, NonceRequest(i))
    /\ will_sign_bitcoin_tx_sighash(s, i)
    /\ nonces' = [nonces EXCEPT ![s] = @ + 1]
    /\ machine' = [machine EXCEPT ![s] = [@ EXCEPT ![i] = nonces[s] + 1]]
    /\ log' = log \cup {NonceResponse(s, i, nonces[s] + 1)}
    /\ UNCHANGED used

\* mutant: the machine and its nonce stay for another request
sign_share_request_again(s, req) ==
    LET i == req.message
        share == SignatureShareResponse(s, req, machine[s][i])
    IN  /\ Receive(s, req)
        /\ will_sign_bitcoin_tx_sighash(s, i)
        /\ IF machine[s][i] = 0 THEN Refuse
           ELSE /\ IF req.nonces[s] = 0 THEN UNCHANGED <<log, used>>
                   ELSE log' = log \cup {share} /\ used' = used \cup {share}
                /\ UNCHANGED <<machine, nonces>>

\* The nonce is taken out of the machine and the machine out of the cache, even
\* when s is not among the signers of the request.
sign_share_request(s, req) ==
    LET i == req.message
        share == SignatureShareResponse(s, req, machine[s][i])
    IN  /\ Receive(s, req)
        /\ will_sign_bitcoin_tx_sighash(s, i)
        /\ IF machine[s][i] = 0 THEN Refuse
           ELSE /\ IF req.nonces[s] = 0 THEN UNCHANGED <<log, used>>
                   ELSE log' = log \cup {share} /\ used' = used \cup {share}
                /\ machine' = [machine EXCEPT ![s] = [@ EXCEPT ![i] = 0]]
                /\ UNCHANGED nonces

-----------------------------------------------------------------------------
(* The coordinator.                                                        *)

\* FireCoordinator::load
NewRound == [state |-> "idle", message |-> 0,
             nonces |-> [i \in Messages |-> NoNonces], wait |-> {}, shares |-> {}]

Init ==
    /\ rows \in [Signers -> [Messages -> RowValues]]
    /\ log = {}
    /\ seen = [s \in Signers |-> {}]
    /\ heard = {}
    /\ machine = [s \in Signers |-> [i \in Messages |-> 0]]
    /\ nonces = [s \in Signers |-> 0]
    /\ current = 1
    /\ round = NewRound
    /\ signed = {}
    /\ used = {}
    /\ restarts = 0

start_signing_round ==
    /\ round.state = "idle"
    /\ current \in Messages
    /\ round' = [round EXCEPT !.state = "nonce_gather", !.message = current]
    /\ log' = log \cup {NonceRequest(current)}
    /\ seen' = [s \in Signers |-> seen[s] \ {NonceRequest(current)}]
    /\ UNCHANGED <<rows, heard, machine, nonces, current, signed, used, restarts>>

\* A response of the round that the coordinator is in.
CurrentSignId(msg) == msg.sign_id = current

\* mutant: one signer more than the quorum is waited for
request_sig_shares_late(i, map) ==
    IF Cardinality(SignersOf(map[i])) <= Threshold
    THEN /\ round' = [round EXCEPT !.nonces = map]
         /\ UNCHANGED log
    ELSE /\ round' = [round EXCEPT !.nonces = map, !.state = "share_gather",
                                   !.message = i, !.wait = SignersOf(map[i])]
         /\ log' = log \cup {SignatureShareRequest(current, i, map[i])}

\* The nonces are kept by message, and the first message with enough of them is
\* the one to be signed.
request_sig_shares(i, map) ==
    IF Cardinality(SignersOf(map[i])) < Threshold
    THEN /\ round' = [round EXCEPT !.nonces = map]
         /\ UNCHANGED log
    ELSE /\ round' = [round EXCEPT !.nonces = map, !.state = "share_gather",
                                   !.message = i, !.wait = SignersOf(map[i])]
         /\ log' = log \cup {SignatureShareRequest(current, i, map[i])}

\* mutant: responses of earlier rounds are gathered too
gather_nonces_any(msg) ==
    IF msg.type = "NonceResponse"
    THEN request_sig_shares(msg.sign_id,
             [round.nonces EXCEPT ![msg.sign_id] = [@ EXCEPT ![msg.from] = msg.nonce]])
    ELSE UNCHANGED <<round, log>>

\* Error::BadSignId is logged and the message dropped.
gather_nonces(msg) ==
    IF msg.type = "NonceResponse" /\ CurrentSignId(msg)
    THEN request_sig_shares(msg.sign_id,
             [round.nonces EXCEPT ![msg.sign_id] = [@ EXCEPT ![msg.from] = msg.nonce]])
    ELSE UNCHANGED <<round, log>>

\* The shares make a signature if all of them are over the same message and
\* nonces, and each is made with the nonce that its signer had sent.
ValidSignature(i, map, shares) ==
    /\ Cardinality(SignersOf(map)) >= Threshold
    /\ \A sh \in shares : sh.message = i /\ sh.nonces = map /\ sh.nonce = map[sh.from]

\* A share that arrives in its own round is kept.  One of another round, or one
\* that does not make a signature, is an error that ends the round.
gather_sig_shares(msg) ==
    LET i == round.message
        map == round.nonces[i]
        shares == {sh \in round.shares : sh.from # msg.from} \cup {msg}
        wait == round.wait \ {msg.from}
    IN  /\ UNCHANGED log
        /\ IF msg.type # "SignatureShareResponse" THEN UNCHANGED <<round, current, signed>>
           ELSE IF ~CurrentSignId(msg)
           THEN round' = [round EXCEPT !.state = "error"] /\ UNCHANGED <<current, signed>>
           ELSE IF wait # {}
           THEN /\ round' = [round EXCEPT !.shares = shares, !.wait = wait]
                /\ UNCHANGED <<current, signed>>
           ELSE IF ~ValidSignature(i, map, {sh \in shares : map[sh.from] # 0})
           THEN round' = [round EXCEPT !.state = "error"] /\ UNCHANGED <<current, signed>>
           ELSE /\ signed' = signed \cup {[input |-> current, message |-> i,
                                           signers |-> SignersOf(map)]}
                /\ current' = current + 1
                /\ round' = NewRound

drive_wsts_state_machine(msg) ==
    /\ msg \in log \ heard
    /\ msg.type \in {"NonceResponse", "SignatureShareResponse"}
    /\ heard' = heard \cup {msg}
    /\ \/ /\ round.state = "nonce_gather"
          /\ gather_nonces(msg)
          /\ UNCHANGED <<current, signed>>
       \/ round.state = "share_gather" /\ gather_sig_shares(msg)
    /\ UNCHANGED <<rows, seen, machine, nonces, used, restarts>>

\* signing_round_max_duration elapses, which ends the tenure.
CoordinatorTimeout ==
    /\ round.state \in {"nonce_gather", "share_gather"}
    /\ round' = [round EXCEPT !.state = "timeout"]
    /\ UNCHANGED <<rows, log, seen, heard, machine, nonces, current, signed, used, restarts>>

\* The process of the coordinator restarts and proposes the same package.
Restart ==
    /\ restarts < MaxRestarts
    /\ Cardinality({p \in Signers \X Messages :
                       will_sign_bitcoin_tx_sighash(p[1], p[2])}) <= MaxRepeated
    /\ restarts' = restarts + 1
    /\ round' = NewRound
    /\ current' = 1
    /\ heard' = {}
    /\ seen' = [seen EXCEPT ![Coordinator] = {}]
    /\ machine' = [machine EXCEPT ![Coordinator] = [i \in Messages |-> 0]]
    /\ UNCHANGED <<rows, log, nonces, signed, used>>

\* The event loop of the transaction signer of s, and of the coordinator.
SignerLoop(s) ==
    \E msg \in log :
        \/ msg.type = "NonceRequest" /\ nonce_request(s, msg.sign_id)
        \/ msg.type = "SignatureShareRequest" /\ sign_share_request(s, msg)

CoordinatorLoop ==
    \/ start_signing_round
    \/ \E msg \in log : drive_wsts_state_machine(msg)

Next ==
    \/ \E s \in Signers : SignerLoop(s)
    \/ CoordinatorLoop
    \/ CoordinatorTimeout
    \/ Restart

\* tokio runs every event loop, and the network delivers what it carries.
Fairness ==
    /\ \A s \in Signers : WF_vars(SignerLoop(s))
    /\ WF_vars(CoordinatorLoop)

Spec == Init /\ [][Next]_vars /\ Fairness

-----------------------------------------------------------------------------
(* Properties.                                                             *)

\* The signature that the coordinator puts into an input is over the sighash of
\* that input, though the nonces of an earlier input may arrive while it
\* gathers those of the next: gather_nonces would let them win.
SignsItsSighash == \A r \in signed : r.message = r.input

\* A signature is made by a quorum of signers, all of which have decided to
\* sign this sighash.
WillingQuorum ==
    \A r \in signed :
        /\ Cardinality(r.signers) >= Threshold
        /\ \A s \in r.signers : rows[s][r.message] = "sign"

\* Both: what an input gets is a signature over its own sighash, by a quorum
\* that has decided to sign it.
SignsTheInput == SignsItsSighash /\ WillingQuorum

\* No signer makes two shares with one nonce, which would give its key away,
\* though the coordinator may ask twice for shares of the same sighash.
NonceUsedOnce ==
    \A a, b \in used : a.from = b.from /\ a.nonce = b.nonce => a = b

\* If every message has a quorum, all of them get signed, whatever the order in
\* which nonces and shares arrive, unless the coordinator gives up or restarts.
AllSigned ==
    (\A i \in Messages : Cardinality({s \in Signers : rows[s][i] = "sign"}) >= Threshold)
        => <>(current = NumMessages + 1 \/ round.state = "timeout" \/ restarts > 0)
=============================================================================
