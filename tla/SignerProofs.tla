---------------------------- MODULE SignerProofs ----------------------------
(***************************************************************************)
(* The signing rounds, for any number of signers, sighashes and restarts   *)
(* and any threshold, and the clients of a signer, for any number of       *)
(* endpoints, calls and deposits.                                          *)
(*                                                                         *)
(* Where the nonces are (RoundInv): a nonce that waits in a machine of its *)
(* signer was drawn for this machine only and has not been used, and the   *)
(* nonces that the coordinator holds for a sighash come from signers that  *)
(* sign it.  The round that gathers shares is about the sighash of the     *)
(* current input.                                                          *)
(*                                                                         *)
(* Where the calls are (ClientsInv): a call that no other has disturbed    *)
(* has been refused by as many endpoints, in the order of the ring, as it  *)
(* has retries; and a deposit that get_deposits should find is in what it  *)
(* has read, or has been accepted and will be read with the accepted ones. *)
(***************************************************************************)
EXTENDS SigningRound, FallbackClient, WellFoundedInduction, TLAPS

-----------------------------------------------------------------------------
(* The signing rounds.                                                     *)

\* What was published: nonces come from signers that sign the sighash.
LogOK ==
    \A m \in log :
        /\ m.type = "NonceRequest" => m.sign_id \in Messages
        /\ m.type = "NonceResponse" =>
              /\ m.from \in Signers /\ m.sign_id \in Messages
              /\ rows[m.from][m.sign_id] = "sign"
        /\ m.type = "SignatureShareRequest" => m.message \in Messages

\* A nonce waits in one machine of its signer at most.
MachineOK ==
    /\ DOMAIN nonces = Signers /\ DOMAIN machine = Signers
    /\ \A s \in Signers :
         /\ nonces[s] \in Nat /\ DOMAIN machine[s] = Messages
         /\ \A i \in Messages : machine[s][i] \in Nat /\ machine[s][i] <= nonces[s]
         /\ \A i, j \in Messages : i # j /\ machine[s][i] # 0 => machine[s][i] # machine[s][j]

\* A nonce that was used waits in no machine.
UsedOK ==
    \A a \in used :
        /\ a.from \in Signers /\ a.nonce \in Nat \ {0} /\ a.nonce <= nonces[a.from]
        /\ \A i \in Messages : machine[a.from][i] # a.nonce

\* The coordinator holds nonces of willing signers, and gathers shares for the
\* current input.
RoundOK ==
    /\ DOMAIN round = {"state", "message", "nonces", "wait", "shares"}
    /\ DOMAIN round.nonces = Messages
    /\ \A i \in Messages :
         /\ DOMAIN round.nonces[i] = Signers
         /\ \A s \in Signers : round.nonces[i][s] # 0 => rows[s][i] = "sign"
    /\ round.state = "share_gather" => round.message = current /\ current \in Messages

\* The inductive invariant.
RoundInv ==
    /\ LogOK /\ MachineOK /\ UsedOK /\ RoundOK
    /\ NonceUsedOnce /\ SignsItsSighash /\ WillingQuorum
-----------------------------------------------------------------------------

\* A coordinator that starts anew holds no nonces.
LEMMA NewRoundOK ==
  ASSUME round' = NewRound, rows' = rows
  PROVE  RoundOK'
  BY DEF RoundOK, NewRound, NoNonces

\* The invariant holds before the first round.
LEMMA InitRound == Init => RoundInv
<1>. SUFFICES ASSUME Init PROVE RoundInv
  OBVIOUS
<1>1. RoundOK
  BY DEF Init, RoundOK, NewRound, NoNonces
<1>2. LogOK /\ MachineOK /\ UsedOK
  BY DEF Init, LogOK, MachineOK, UsedOK
<1>3. NonceUsedOnce /\ SignsItsSighash /\ WillingQuorum
  BY DEF Init, NonceUsedOnce, SignsItsSighash, WillingQuorum
<1>. QED BY <1>1, <1>2, <1>3 DEF RoundInv

\* nonce_request draws a nonce that was never drawn before.
LEMMA NonceStep ==
  ASSUME RoundInv, NEW s \in Signers, NEW i \in Messages, nonce_request(s, i)
  PROVE  RoundInv'
<1>. DEFINE n == nonces[s] + 1
<1>1. /\ nonces' = [nonces EXCEPT ![s] = n]
      /\ machine' = [machine EXCEPT ![s] = [machine[s] EXCEPT ![i] = n]]
      /\ log' = log \cup {NonceResponse(s, i, n)}
      /\ UNCHANGED <<rows, current, round, signed, used>>
      /\ rows[s][i] = "sign"
  BY DEF nonce_request, Receive, will_sign_bitcoin_tx_sighash
<1>2. LogOK'
  BY <1>1 DEF RoundInv, LogOK, NonceResponse
<1>3. MachineOK'
  BY <1>1 DEF RoundInv, MachineOK
<1>4. UsedOK'
  BY <1>1 DEF RoundInv, MachineOK, UsedOK
<1>5. RoundOK' /\ NonceUsedOnce' /\ SignsItsSighash' /\ WillingQuorum'
  BY <1>1 DEF RoundInv, RoundOK, NonceUsedOnce, SignsItsSighash, WillingQuorum
<1>. QED BY <1>2, <1>3, <1>4, <1>5 DEF RoundInv

\* sign_share_request uses the nonce of the machine and drops the machine.
LEMMA ShareStep ==
  ASSUME RoundInv, NEW s \in Signers, NEW req \in log, req.type = "SignatureShareRequest",
         sign_share_request(s, req)
  PROVE  RoundInv'
<1>. DEFINE i == req.message
            share == SignatureShareResponse(s, req, machine[s][i])
<1>1. i \in Messages /\ UNCHANGED <<rows, current, round, signed, nonces>>
  BY DEF sign_share_request, Receive, Refuse, RoundInv, LogOK
<1>2. CASE UNCHANGED <<log, machine, used>>
  BY <1>1, <1>2 DEF RoundInv, LogOK, MachineOK, UsedOK, RoundOK, NonceUsedOnce, SignsItsSighash,
                    WillingQuorum
<1>3. CASE /\ machine[s][i] # 0
           /\ machine' = [machine EXCEPT ![s] = [machine[s] EXCEPT ![i] = 0]]
           /\ \/ UNCHANGED <<log, used>>
              \/ log' = log \cup {share} /\ used' = used \cup {share}
  <2>1. /\ share.type = "SignatureShareResponse"
        /\ share.from = s /\ share.nonce = machine[s][i]
    BY DEF SignatureShareResponse
  <2>. HIDE DEF share
  <2>2. LogOK'
    BY <1>1, <1>3, <2>1 DEF RoundInv, LogOK
  <2>3. MachineOK'
    BY <1>1, <1>3 DEF RoundInv, MachineOK
  <2>4. UsedOK'
    BY <1>1, <1>3, <2>1 DEF RoundInv, MachineOK, UsedOK
  <2>5. NonceUsedOnce'
    BY <1>1, <1>3, <2>1 DEF RoundInv, UsedOK, NonceUsedOnce
  <2>6. RoundOK' /\ SignsItsSighash' /\ WillingQuorum'
    BY <1>1 DEF RoundInv, RoundOK, SignsItsSighash, WillingQuorum
  <2>. QED BY <2>2, <2>3, <2>4, <2>5, <2>6 DEF RoundInv
<1>. QED BY <1>2, <1>3 DEF sign_share_request, Refuse

\* The facts that do not concern the coordinator survive what it does, if it
\* adds only requests to the log.
LEMMA SignersAside ==
  ASSUME RoundInv, UNCHANGED <<rows, machine, nonces, used>>,
         \A m \in log' \ log : \/ m.type = "NonceRequest" /\ m.sign_id \in Messages
                               \/ m.type = "SignatureShareRequest" /\ m.message \in Messages
  PROVE  LogOK' /\ MachineOK' /\ UsedOK' /\ NonceUsedOnce'
  BY DEF RoundInv, LogOK, MachineOK, UsedOK, NonceUsedOnce

\* start_signing_round forgets the nonces of the input before.
LEMMA StartStep == ASSUME RoundInv, start_signing_round PROVE RoundInv'
<1>1. /\ round' = [round EXCEPT !.state = "nonce_gather", !.message = current]
      /\ log' = log \cup {NonceRequest(current)}
      /\ UNCHANGED <<rows, machine, nonces, current, signed, used>>
  BY DEF start_signing_round
<1>2. /\ NonceRequest(current).type = "NonceRequest"
      /\ NonceRequest(current).sign_id \in Messages
  BY DEF NonceRequest, start_signing_round
<1>3. LogOK' /\ MachineOK' /\ UsedOK' /\ NonceUsedOnce'
  BY <1>1, <1>2, SignersAside
<1>4. RoundOK' /\ SignsItsSighash' /\ WillingQuorum'
  BY <1>1 DEF RoundInv, RoundOK, SignsItsSighash, WillingQuorum
<1>. QED BY <1>3, <1>4 DEF RoundInv

\* gather_nonces keeps nonces of willing signers only, and asks for shares of
\* the sighash of the current input.
LEMMA GatherNonces ==
  ASSUME RoundInv, NEW msg \in log, round.state = "nonce_gather", gather_nonces(msg),
         UNCHANGED <<rows, machine, nonces, current, signed, used>>
  PROVE  RoundInv'
<1>. DEFINE i == msg.sign_id
            map == [round.nonces EXCEPT ![i] = [round.nonces[i] EXCEPT ![msg.from] = msg.nonce]]
<1>1. CASE UNCHANGED <<round, log>>
  BY <1>1 DEF RoundInv, LogOK, MachineOK, UsedOK, RoundOK, NonceUsedOnce, SignsItsSighash,
              WillingQuorum
<1>2. CASE msg.type = "NonceResponse" /\ CurrentSignId(msg) /\ request_sig_shares(i, map)
  <2>1. /\ msg.from \in Signers /\ i \in Messages /\ rows[msg.from][i] = "sign"
        /\ i = current
    BY <1>2 DEF RoundInv, LogOK, CurrentSignId
  <2>2. /\ DOMAIN map = Messages
        /\ \A j \in Messages : /\ DOMAIN map[j] = Signers
                               /\ \A s \in Signers : map[j][s] # 0 => rows[s][j] = "sign"
    BY <2>1 DEF RoundInv, RoundOK
  <2>. HIDE DEF map
  <2>3. /\ DOMAIN round' = DOMAIN round /\ round'.nonces = map
        /\ round'.state = "share_gather" => round'.message = i
    BY <1>2, Zenon DEF request_sig_shares, RoundInv, RoundOK
  <2>4. RoundOK'
    BY <2>1, <2>2, <2>3 DEF RoundInv, RoundOK
  <2>5. \A m \in log' \ log : m.type = "SignatureShareRequest" /\ m.message \in Messages
    BY <1>2, <2>1 DEF request_sig_shares, SignatureShareRequest
  <2>6. LogOK' /\ MachineOK' /\ UsedOK' /\ NonceUsedOnce'
    BY <2>5, SignersAside
  <2>7. SignsItsSighash' /\ WillingQuorum'
    BY DEF RoundInv, SignsItsSighash, WillingQuorum
  <2>. QED BY <2>4, <2>6, <2>7 DEF RoundInv
<1>. QED BY <1>1, <1>2 DEF gather_nonces

\* gather_sig_shares makes a signature of the nonces that it holds.
LEMMA GatherShares ==
  ASSUME RoundInv, NEW msg \in log, round.state = "share_gather", gather_sig_shares(msg),
         UNCHANGED <<rows, machine, nonces, used>>
  PROVE  RoundInv'
<1>. DEFINE i == round.message
            map == round.nonces[i]
            r == [input |-> current, message |-> i, signers |-> SignersOf(map)]
<1>1. UNCHANGED log
  BY DEF gather_sig_shares
<1>2. LogOK' /\ MachineOK' /\ UsedOK' /\ NonceUsedOnce'
  BY <1>1, SignersAside
<1>3. CASE /\ UNCHANGED <<current, signed>>
           /\ DOMAIN round' = DOMAIN round /\ round'.nonces = round.nonces
           /\ round'.state \in {"share_gather", "error"} /\ round'.message = round.message
  <2>1. RoundOK' /\ SignsItsSighash' /\ WillingQuorum'
    BY <1>3 DEF RoundInv, RoundOK, SignsItsSighash, WillingQuorum
  <2>. QED BY <1>2, <2>1 DEF RoundInv
<1>4. CASE /\ Cardinality(SignersOf(map)) >= Threshold
           /\ signed' = signed \cup {r} /\ round' = NewRound
  <2>1. /\ r.input = current /\ r.message = i /\ r.signers = SignersOf(map)
        /\ i = current /\ i \in Messages
    BY DEF RoundInv, RoundOK
  <2>2. \A s \in r.signers : rows[s][r.message] = "sign"
    BY <2>1 DEF RoundInv, RoundOK, SignersOf
  <2>. HIDE DEF r
  <2>3. SignsItsSighash' /\ WillingQuorum'
    BY <1>4, <2>1, <2>2 DEF RoundInv, SignsItsSighash, WillingQuorum
  <2>4. RoundOK'
    BY <1>4, NewRoundOK, Zenon
  <2>. QED BY <1>2, <2>3, <2>4 DEF RoundInv
<1>5. \/ /\ UNCHANGED <<current, signed>>
         /\ \/ UNCHANGED round
            \/ \E sh, w : round' = [round EXCEPT !.shares = sh, !.wait = w]
            \/ round' = [round EXCEPT !.state = "error"]
      \/ /\ Cardinality(SignersOf(map)) >= Threshold
         /\ signed' = signed \cup {r} /\ round' = NewRound
  BY Zenon DEF gather_sig_shares, ValidSignature
<1>6. DOMAIN round = {"state", "message", "nonces", "wait", "shares"}
  BY DEF RoundInv, RoundOK
<1>. QED BY <1>3, <1>4, <1>5, <1>6, Zenon
-----------------------------------------------------------------------------

\* A restart of the coordinator loses its machines and its round.
LEMMA RestartStep == ASSUME RoundInv, Restart PROVE RoundInv'
<1>1. /\ round' = NewRound
      /\ machine' = [machine EXCEPT ![Coordinator] = [i \in Messages |-> 0]]
      /\ UNCHANGED <<rows, log, nonces, signed, used>>
  BY DEF Restart
<1>2. RoundOK'
  BY <1>1, NewRoundOK
<1>3. MachineOK'
  BY <1>1 DEF RoundInv, MachineOK
<1>4. UsedOK'
  BY <1>1 DEF RoundInv, MachineOK, UsedOK
<1>5. LogOK' /\ NonceUsedOnce' /\ SignsItsSighash' /\ WillingQuorum'
  BY <1>1 DEF RoundInv, LogOK, NonceUsedOnce, SignsItsSighash, WillingQuorum
<1>. QED BY <1>2, <1>3, <1>4, <1>5 DEF RoundInv

\* Every step of the coordinator and of the signers keeps the invariant.
LEMMA StepRound == RoundInv /\ [Next]_vars => RoundInv'
<1>. SUFFICES ASSUME RoundInv, [Next]_vars PROVE RoundInv'
  OBVIOUS
<1>1. ASSUME NEW s \in Signers, SignerLoop(s) PROVE RoundInv'
  <2>1. ASSUME NEW msg \in log, msg.type = "NonceRequest", nonce_request(s, msg.sign_id)
        PROVE  RoundInv'
    <3>1. msg.sign_id \in Messages
      BY <2>1 DEF RoundInv, LogOK
    <3>. QED BY <2>1, <3>1, NonceStep
  <2>2. ASSUME NEW msg \in log, msg.type = "SignatureShareRequest", sign_share_request(s, msg)
        PROVE  RoundInv'
    BY <2>2, ShareStep
  <2>. QED BY <1>1, <2>1, <2>2 DEF SignerLoop
<1>2. ASSUME NEW msg \in log, drive_wsts_state_machine(msg) PROVE RoundInv'
  <2>1. CASE round.state = "nonce_gather" /\ gather_nonces(msg) /\ UNCHANGED <<current, signed>>
    BY <1>2, <2>1, GatherNonces DEF drive_wsts_state_machine
  <2>2. CASE round.state = "share_gather" /\ gather_sig_shares(msg)
    BY <1>2, <2>2, GatherShares DEF drive_wsts_state_machine
  <2>. QED BY <1>2, <2>1, <2>2 DEF drive_wsts_state_machine
<1>3. CASE CoordinatorTimeout
  BY <1>3 DEF CoordinatorTimeout, RoundInv, LogOK, MachineOK, UsedOK, RoundOK, NonceUsedOnce,
              SignsItsSighash, WillingQuorum
<1>4. CASE UNCHANGED vars
  BY <1>4 DEF vars, RoundInv, LogOK, MachineOK, UsedOK, RoundOK, NonceUsedOnce, SignsItsSighash,
              WillingQuorum
<1>. QED BY <1>1, <1>2, <1>3, <1>4, StartStep, RestartStep DEF Next, CoordinatorLoop
-----------------------------------------------------------------------------

\* sign_share_request never answers twice with one nonce, whatever the requests
\* and restarts of the coordinator.
THEOREM NoncesAreUsedOnce == Spec => []NonceUsedOnce
<1>1. RoundInv => NonceUsedOnce
  BY DEF RoundInv
<1>. QED BY <1>1, InitRound, StepRound, PTL DEF Spec

\* The coordinator's signature for an input is over the sighash of that input,
\* whatever responses of earlier inputs gather_nonces receives, and
\* gather_sig_shares makes it only with a threshold of signers that all have
\* decided to sign this sighash.
THEOREM InputsAreSigned == Spec => []SignsTheInput
<1>1. RoundInv => SignsTheInput
  BY DEF RoundInv, SignsTheInput
<1>. QED BY <1>1, InitRound, StepRound, PTL DEF Spec

-----------------------------------------------------------------------------
(* The clients of a signer.                                                *)

\* The client that comes k places after s, for k up to N.
Plus(s, k) == IF s + k < N THEN s + k ELSE s + k - N

\* The first k clients from s on.
Run(s, k) == {Plus(s, i) : i \in 0..(k - 1)}

\* What get_deposits has read.
PageRecords ==
    [list : {1, 2}, token : Nat, got : SUBSET Deposit, lists : SUBSET SUBSET Deposit,
     complete : BOOLEAN]

\* The calls.
CallRecords ==
    [pc : {"idle", "call", "page", "retry", "done"}, op : StacksOps \cup EmilyOps, retry : Nat,
     client : Client, pages : PageRecords, result : {"none", "ok", "error", "AllClientsFailed"},
     found : SUBSET Deposit, failed : SUBSET Client, disturbed : BOOLEAN, held : SUBSET Deposit]

\* The types.
ClientsTypeOK ==
    /\ index \in Client
    /\ call \in [Task -> CallRecords]
    /\ status \in [Deposit -> {"none", "pending", "accepted", "confirmed"}]

\* What the control state of a call says of its result and of its retries.
ControlOK(c) ==
    /\ c.result # "none" => c.pc = "done"
    /\ c.pc # "done" => c.retry <= retry_count
    /\ c.pc = "retry" => c.retry < retry_count
    /\ c.op = "deposits" => c.pc # "call" /\ c.result # "error"

\* Undisturbed, a call has tried one client after the other.
RingOK(c, i) ==
    ~c.disturbed =>
        /\ c.pc \in {"call", "page"} =>
              \E s \in Client : c.client = Plus(s, c.retry) /\ Run(s, c.retry) \subseteq c.failed
        /\ c.pc = "retry" =>
              \E s \in Client : i = Plus(s, c.retry + 1) /\ Run(s, c.retry + 1) \subseteq c.failed
        /\ c.result = "AllClientsFailed" =>
              \E s \in Client : Run(s, retry_count + 1) \subseteq c.failed

\* A deposit that should be found has been read, or has been accepted and will
\* be read with the accepted ones.
PagesOK(c, st) ==
    \A d \in c.held :
        /\ st[d] \in {"pending", "accepted"}
        /\ d \notin Corrupt =>
              /\ c.pc = "page" /\ c.pages.list = 1 /\ d <= c.pages.token =>
                    d \in c.pages.got \/ st[d] = "accepted"
              /\ c.pc = "page" /\ c.pages.list = 2 /\ c.pages.complete =>
                    \/ \E got \in c.pages.lists : d \in got
                    \/ st[d] = "accepted" /\ (d <= c.pages.token => d \in c.pages.got)
              /\ c.op = "deposits" /\ c.result = "ok" /\ c.pages.complete => d \in c.found

\* The inductive invariant.
ClientsInv ==
    /\ ClientsTypeOK
    /\ \A t \in Task : ControlOK(call[t]) /\ RingOK(call[t], index) /\ PagesOK(call[t], status)

\* The client after a client.
LEMMA NextClient ==
    ASSUME NEW c \in Client
    PROVE  StoreNext(c) \in Client /\ StoreNext(c) = IF c = N - 1 THEN 0 ELSE c + 1
BY CountsAssumption DEF Client, StoreNext

\* One place further is the next client.
LEMMA PlusNext ==
    ASSUME NEW s \in Client, NEW k \in Nat, k < N
    PROVE  StoreNext(Plus(s, k)) = Plus(s, k + 1)
<1>1. Plus(s, k) \in Client
  BY CountsAssumption DEF Client, Plus
<1>2. StoreNext(Plus(s, k)) = IF Plus(s, k) = N - 1 THEN 0 ELSE Plus(s, k) + 1
  BY <1>1, NextClient
<1> QED
  BY <1>2, CountsAssumption DEF Client, Plus

\* A longer run has one client more.
LEMMA RunGrows ==
    ASSUME NEW s \in Client, NEW k \in Nat
    PROVE  Run(s, k + 1) = Run(s, k) \cup {Plus(s, k)}
<1>1. 0..((k + 1) - 1) = (0..(k - 1)) \cup {k}
  OBVIOUS
<1> QED
  BY <1>1 DEF Run

\* An empty run.
LEMMA RunEmpty == ASSUME NEW s PROVE Run(s, 0) = {}
BY DEF Run

\* A run of N clients has them all.
LEMMA RunIsAll ==
    ASSUME NEW s \in Client, NEW k \in Nat, k >= N
    PROVE  Client \subseteq Run(s, k)
<1> SUFFICES ASSUME NEW c \in Client PROVE c \in Run(s, k)
  OBVIOUS
<1> DEFINE i == IF s <= c THEN c - s ELSE c + N - s
<1>1. i \in 0..(k - 1) /\ Plus(s, i) = c
  BY CountsAssumption DEF Client, Plus
<1> QED
  BY <1>1 DEF Run

\* The number of retries.
LEMMA RetryCount ==
    /\ retry_count \in Nat /\ retry_count <= N
    /\ N <= DEFAULT_MINIMUM_RETRY_COUNT + 1 => retry_count + 1 >= N
BY CountsAssumption DEF retry_count

\* The record of a call that has not begun.
LEMMA IdleFacts ==
    ASSUME NEW op \in StacksOps \cup EmilyOps, NEW i, NEW st
    PROVE  /\ IdleCall(op) \in CallRecords
           /\ ControlOK(IdleCall(op)) /\ RingOK(IdleCall(op), i) /\ PagesOK(IdleCall(op), st)
<1>1. NoPages \in PageRecords /\ 0 \in Client
  BY CountsAssumption DEF NoPages, PageRecords, Client
<1>2. IdleCall(op) \in CallRecords
  BY <1>1 DEF IdleCall, CallRecords
<1>3. ControlOK(IdleCall(op))
  BY RetryCount DEF IdleCall, ControlOK
<1>4. RingOK(IdleCall(op), i) /\ PagesOK(IdleCall(op), st)
  BY Zenon DEF IdleCall, RingOK, PagesOK
<1> QED
  BY <1>2, <1>3, <1>4

\* The invariant holds at the start.
LEMMA ClientsInitOK == ClientsInit => ClientsInv
<1> SUFFICES ASSUME ClientsInit PROVE ClientsInv
  OBVIOUS
<1>1. PICK op \in [Task -> Ops[service]] : call = [t \in Task |-> IdleCall(op[t])]
  BY DEF ClientsInit
<1>2. \A t \in Task : op[t] \in StacksOps \cup EmilyOps
  BY <1>1 DEF ClientsInit, Ops, StacksOps, EmilyOps, BitcoinOps
<1>3. \A t \in Task : /\ call[t] = IdleCall(op[t]) /\ call[t] \in CallRecords
                      /\ ControlOK(call[t]) /\ RingOK(call[t], index) /\ PagesOK(call[t], status)
  BY <1>1, <1>2, IdleFacts
<1>4. ClientsTypeOK
  BY <1>1, <1>3, CountsAssumption DEF ClientsInit, ClientsTypeOK, Client
<1> QED
  BY <1>3, <1>4 DEF ClientsInv

\* What holds of one call.
CallOK(c, i, st) == ControlOK(c) /\ RingOK(c, i) /\ PagesOK(c, st)

\* The invariant, call by call.
LEMMA ByCall ==
    ClientsInv <=> ClientsTypeOK /\ \A t \in Task : CallOK(call[t], index, status)
BY Zenon DEF ClientsInv, CallOK

\* One call changes, and neither the index nor the deposits.
LEMMA OneCall ==
    ASSUME ClientsInv, NEW t \in Task, NEW c \in CallRecords, CallOK(c, index, status),
           call' = [call EXCEPT ![t] = c], UNCHANGED <<index, status>>
    PROVE  ClientsInv'
<1>1. ClientsTypeOK'
  BY DEF ClientsInv, ClientsTypeOK
<1>2. \A u \in Task : CallOK(call'[u], index, status)
  BY ByCall DEF ClientsInv, ClientsTypeOK
<1> QED
  BY <1>1, <1>2 DEF ClientsInv, CallOK, ControlOK, RingOK, PagesOK

\* Where neither calls, the index nor the deposits change.
LEMMA EndpointChangesOK == ASSUME ClientsInv, UNCHANGED <<index, call, status>> PROVE ClientsInv'
BY DEF ClientsInv, ClientsTypeOK, ControlOK, RingOK, PagesOK

\* A deposit changes: what goes back is no longer held.
LEMMA DepositChangesOK == ASSUME ClientsInv, DepositChanges PROVE ClientsInv'
<1>1. PICK d \in Deposit, new \in {"pending", "accepted", "confirmed"} :
          /\ status[d] \in {"pending", "accepted"} /\ status[d] # new
          /\ status' = [status EXCEPT ![d] = new]
          /\ call' = [t \in Task |-> IF new = "accepted" THEN call[t]
                                     ELSE [call[t] EXCEPT !.held = @ \ {d}]]
  BY Zenon DEF DepositChanges
<1>2. index' = index
  BY DEF DepositChanges
<1>3. ASSUME NEW t \in Task
      PROVE  call'[t] \in CallRecords /\ CallOK(call'[t], index, status')
  <2>1. call[t] \in CallRecords /\ CallOK(call[t], index, status)
    BY ByCall DEF ClientsInv, ClientsTypeOK
  <2>2. \A e \in Deposit : status'[e] = IF e = d THEN new ELSE status[e]
    BY <1>1 DEF ClientsInv, ClientsTypeOK
  <2>3. CASE new = "accepted"
    <3>1. call'[t] = call[t]
      BY <1>1, <2>3
    <3>2. PagesOK(call[t], status')
      BY <1>1, <2>1, <2>2, <2>3 DEF CallOK, PagesOK, CallRecords
    <3> QED
      BY <2>1, <3>1, <3>2 DEF CallOK
  <2>4. CASE new # "accepted"
    <3> DEFINE c == call[t]
               b == [c EXCEPT !.held = @ \ {d}]
    <3>1. call'[t] = b
      BY <1>1, <2>4
    <3>2. /\ b \in CallRecords /\ b.held = c.held \ {d} /\ b.pc = c.pc /\ b.op = c.op
          /\ b.retry = c.retry /\ b.client = c.client /\ b.pages = c.pages
          /\ b.result = c.result /\ b.found = c.found /\ b.failed = c.failed
          /\ b.disturbed = c.disturbed
      BY <2>1, Zenon DEF CallRecords
    <3> HIDE DEF b
    <3>3. ControlOK(b) /\ RingOK(b, index)
      BY <2>1, <3>2, Zenon DEF CallOK, ControlOK, RingOK
    <3>4. PagesOK(b, status')
      BY <2>1, <2>2, <3>2 DEF CallOK, PagesOK, CallRecords
    <3> QED
      BY <3>1, <3>2, <3>3, <3>4 DEF CallOK
  <2> QED
    BY <2>3, <2>4
<1>4. DOMAIN call' = Task
  BY <1>1
<1>5. call' \in [Task -> CallRecords]
  BY <1>1, <1>3
<1>6. ClientsTypeOK'
  BY <1>1, <1>2, <1>5 DEF ClientsInv, ClientsTypeOK
<1> QED
  BY <1>2, <1>3, <1>6 DEF ClientsInv, CallOK, ControlOK, RingOK, PagesOK

\* A call begins at the current client.
LEMMA BeginOK == ASSUME ClientsInv, NEW t \in Task, Begin(t) PROVE ClientsInv'
<1> DEFINE op == call[t].op
           held == IF op # "deposits" THEN {}
                   ELSE {d \in Deposit : status[d] \in {"pending", "accepted"}}
           c == [IdleCall(op) EXCEPT !.pc = IF op = "deposits" THEN "page" ELSE "call",
                                     !.client = index, !.held = held]
<1>1. call' = [call EXCEPT ![t] = c] /\ UNCHANGED <<index, status>>
  BY Zenon DEF Begin
<1>2. op \in StacksOps \cup EmilyOps /\ index \in Client /\ held \subseteq Deposit
  BY DEF ClientsInv, ClientsTypeOK, CallRecords
<1>3. IdleCall(op) \in CallRecords
  BY <1>2, IdleFacts
<1>4. /\ c \in CallRecords /\ c.pc = IF op = "deposits" THEN "page" ELSE "call"
      /\ c.client = index /\ c.held = held /\ c.op = op /\ c.retry = 0 /\ c.result = "none"
      /\ c.pages.list = 1 /\ c.pages.token = 0 /\ c.failed = {}
  BY <1>2, <1>3, Zenon DEF IdleCall, CallRecords, NoPages
<1> HIDE DEF c
<1>5. ControlOK(c)
  BY <1>4, RetryCount DEF ControlOK
<1>6. RingOK(c, index)
  <2>1. Plus(index, 0) = index
    BY <1>2, CountsAssumption DEF Plus, Client
  <2> QED
    BY <1>2, <1>4, <2>1, RunEmpty DEF RingOK
<1>7. PagesOK(c, status)
  <2>1. \A d \in held : d \in Nat \ {0} /\ status[d] \in {"pending", "accepted"}
    BY DepositAssumption, Zenon
  <2> QED
    BY <1>4, <2>1 DEF PagesOK
<1> QED
  BY <1>1, <1>4, <1>5, <1>6, <1>7, OneCall, Zenon DEF CallOK

\* A call is over.
LEMMA EndOK == ASSUME ClientsInv, NEW t \in Task, End(t) PROVE ClientsInv'
<1>1. call[t].op \in StacksOps \cup EmilyOps
  BY DEF ClientsInv, ClientsTypeOK, CallRecords
<1>2. IdleCall(call[t].op) \in CallRecords /\ CallOK(IdleCall(call[t].op), index, status)
  BY <1>1, IdleFacts DEF CallOK
<1> QED
  BY <1>2, OneCall, Zenon DEF End

\* The next attempt, at the current client.
LEMMA RetryOK == ASSUME ClientsInv, NEW t \in Task, Retry(t) PROVE ClientsInv'
<1> DEFINE old == call[t]
           pc == IF old.op = "deposits" THEN "page" ELSE "call"
           c == [old EXCEPT !.pc = pc, !.retry = @ + 1, !.client = index, !.pages = NoPages]
<1>1. old \in CallRecords /\ old.pc = "retry" /\ CallOK(old, index, status) /\ index \in Client
  BY ByCall DEF ClientsInv, ClientsTypeOK, Retry
<1>2. call' = [call EXCEPT ![t] = c] /\ UNCHANGED <<index, status>>
  BY <1>1 DEF Retry, ClientsInv, ClientsTypeOK, CallRecords
<1>3. NoPages \in PageRecords /\ NoPages.token = 0 /\ NoPages.list = 1
  BY DEF NoPages, PageRecords
<1>4. /\ c \in CallRecords /\ c.pc = pc /\ pc = IF old.op = "deposits" THEN "page" ELSE "call"
      /\ c.client = index /\ c.retry = old.retry + 1 /\ c.pages = NoPages /\ c.held = old.held
      /\ c.op = old.op /\ c.result = old.result /\ c.failed = old.failed
      /\ c.disturbed = old.disturbed /\ c.found = old.found
  <2>1. pc \in {"page", "call"} /\ pc = IF old.op = "deposits" THEN "page" ELSE "call"
    OBVIOUS
  <2> HIDE DEF pc
  <2>2. old.retry + 1 \in Nat
    BY <1>1 DEF CallRecords
  <2>3. c \in CallRecords
    BY <1>1, <1>3, <2>1, <2>2, Zenon DEF CallRecords
  <2>4. /\ c.pc = pc /\ c.client = index /\ c.retry = old.retry + 1 /\ c.pages = NoPages
        /\ c.held = old.held
    BY <1>1 DEF CallRecords
  <2>5. /\ c.op = old.op /\ c.result = old.result /\ c.failed = old.failed
        /\ c.disturbed = old.disturbed /\ c.found = old.found
    BY <1>1 DEF CallRecords
  <2> QED
    BY <2>1, <2>3, <2>4, <2>5
<1> HIDE DEF c, pc
<1>5. old.result = "none" /\ old.retry < retry_count /\ old.retry \in Nat
  BY <1>1 DEF CallOK, ControlOK, CallRecords
<1>6. ControlOK(c)
  BY <1>4, <1>5, RetryCount DEF ControlOK
<1>7. RingOK(c, index)
  BY <1>1, <1>4, <1>5 DEF RingOK, CallOK
<1>8. PagesOK(c, status)
  <2>1. \A d \in old.held : d \in Nat \ {0} /\ status[d] \in {"pending", "accepted"}
    BY <1>1, DepositAssumption, Zenon DEF CallOK, PagesOK, CallRecords
  <2> QED
    BY <1>3, <1>4, <1>5, <2>1 DEF PagesOK
<1> QED
  BY <1>2, <1>4, <1>6, <1>7, <1>8, OneCall, Zenon DEF CallOK

\* An attempt fails: the call has tried one client more, and the other calls
\* are disturbed.
LEMMA FailsOK ==
    ASSUME ClientsInv, NEW t \in Task, call[t].pc \in {"call", "page"}, Fails(t), UNCHANGED status
    PROVE  ClientsInv'
<1> DEFINE old == call[t]
           last == old.retry = retry_count
           pc == IF last THEN "done" ELSE "retry"
           result == IF last THEN "AllClientsFailed" ELSE "none"
           c == [old EXCEPT !.failed = @ \cup {old.client}, !.pc = pc, !.result = result]
<1>1. old \in CallRecords /\ CallOK(old, index, status) /\ old.client \in Client
  BY ByCall DEF ClientsInv, ClientsTypeOK, CallRecords
<1>2. index' = StoreNext(old.client) /\ index' \in Client
  BY <1>1, NextClient DEF Fails
<1>3. call' = [u \in Task |->
                 IF u # t
                 THEN [call[u] EXCEPT !.disturbed = @ \/ call[u].pc \notin {"idle", "done"}]
                 ELSE c]
  BY Zenon DEF Fails
<1>4. ASSUME NEW u \in Task, u # t
      PROVE  call'[u] \in CallRecords /\ CallOK(call'[u], index', status')
  <2> DEFINE a == call[u]
             busy == a.disturbed \/ a.pc \notin {"idle", "done"}
             b == [a EXCEPT !.disturbed = busy]
  <2>1. a \in CallRecords /\ CallOK(a, index, status)
    BY ByCall DEF ClientsInv, ClientsTypeOK
  <2>2. call'[u] = [a EXCEPT !.disturbed = @ \/ a.pc \notin {"idle", "done"}]
    BY <1>3, <1>4
  <2>3. call'[u] = b
    BY <2>1, <2>2 DEF CallRecords
  <2>4. busy \in BOOLEAN /\ (~busy => ~a.disturbed /\ a.pc \in {"idle", "done"})
    BY <2>1 DEF CallRecords
  <2> HIDE DEF busy
  <2>5. b \in CallRecords
    BY <2>1, <2>4 DEF CallRecords
  <2>6. /\ b.held = a.held /\ b.pc = a.pc /\ b.op = a.op /\ b.retry = a.retry
        /\ b.pages = a.pages /\ b.result = a.result /\ b.found = a.found /\ b.failed = a.failed
    BY <2>1 DEF CallRecords
  <2>7. b.disturbed = busy
    BY <2>1 DEF CallRecords
  <2> HIDE DEF b
  <2>8. ControlOK(b) /\ PagesOK(b, status)
    BY <2>1, <2>6 DEF CallOK, ControlOK, PagesOK
  <2>9. RingOK(b, index')
    BY <2>1, <2>4, <2>6, <2>7 DEF CallOK, RingOK
  <2> QED
    BY <2>3, <2>5, <2>8, <2>9 DEF CallOK
<1>5. c \in CallRecords /\ CallOK(c, index', status)
  <2>1. /\ pc \in {"done", "retry"} /\ result \in {"AllClientsFailed", "none"}
        /\ last => pc = "done" /\ result = "AllClientsFailed"
        /\ ~last => pc = "retry" /\ result = "none"
    OBVIOUS
  <2> HIDE DEF pc, result
  <2>2. old.failed \cup {old.client} \subseteq Client
    BY <1>1 DEF CallRecords
  <2>3. c \in CallRecords
    BY <1>1, <2>1, <2>2, Zenon DEF CallRecords
  <2>4. /\ c.pc = pc /\ c.result = result /\ c.failed = old.failed \cup {old.client}
        /\ c.retry = old.retry /\ c.held = old.held
    BY <1>1 DEF CallRecords
  <2>5. c.op = old.op /\ c.disturbed = old.disturbed
    BY <1>1 DEF CallRecords
  <2> HIDE DEF c
  <2>6. old.retry \in Nat /\ old.retry <= retry_count /\ retry_count \in Nat /\ retry_count <= N
    BY <1>1, RetryCount DEF CallOK, ControlOK, CallRecords
  <2>7. ControlOK(c)
    BY <1>1, <2>1, <2>4, <2>5, <2>6 DEF CallOK, ControlOK
  <2>8. PagesOK(c, status)
    BY <1>1, <2>1, <2>4 DEF CallOK, PagesOK
  <2>9. RingOK(c, index')
    <3>1. SUFFICES ASSUME ~c.disturbed
                   PROVE  \E s \in Client : /\ Run(s, old.retry + 1) \subseteq c.failed
                                            /\ ~last => index' = Plus(s, old.retry + 1)
      BY <2>1, <2>4, <2>6 DEF RingOK
    <3>2. PICK s \in Client : /\ old.client = Plus(s, old.retry)
                              /\ Run(s, old.retry) \subseteq old.failed
      BY <1>1, <2>5, <3>1 DEF CallOK, RingOK
    <3>3. Run(s, old.retry + 1) = Run(s, old.retry) \cup {old.client}
      BY <2>6, <3>2, RunGrows
    <3>4. ~last => index' = Plus(s, old.retry + 1)
      BY <1>2, <2>6, <3>2, PlusNext, CountsAssumption
    <3> QED
      BY <2>4, <3>2, <3>3, <3>4
  <2> QED
    BY <2>3, <2>7, <2>8, <2>9 DEF CallOK
<1>6. \A u \in Task : call'[u] \in CallRecords /\ CallOK(call'[u], index', status')
  <2>1. call'[t] = c
    BY <1>3
  <2> HIDE DEF c
  <2> QED
    BY <1>4, <1>5, <2>1
<1>7. DOMAIN call' = Task /\ \E f : call' = [u \in Task |-> f[u]]
  <2>1. call' = [u \in Task |-> call'[u]]
    BY <1>3
  <2> QED
    BY <2>1
<1>8. ClientsTypeOK'
  BY <1>2, <1>6, <1>7 DEF ClientsInv, ClientsTypeOK
<1> QED
  BY <1>6, <1>8 DEF ClientsInv, CallOK, ControlOK, RingOK, PagesOK

\* A call returns what its attempt answered.
LEMMA ReturnOK ==
    ASSUME ClientsInv, NEW t \in Task, call[t].pc = "call", NEW result \in {"ok", "error"},
           Return(t, result), UNCHANGED <<index, status>>
    PROVE  ClientsInv'
<1> DEFINE old == call[t]
           c == [old EXCEPT !.pc = "done", !.result = result]
<1>1. old \in CallRecords /\ CallOK(old, index, status)
  BY ByCall DEF ClientsInv, ClientsTypeOK
<1>2. call' = [call EXCEPT ![t] = c]
  BY <1>1, Zenon DEF Return, ClientsInv, ClientsTypeOK, CallRecords
<1>3. /\ c \in CallRecords /\ c.pc = "done" /\ c.result = result /\ c.op = old.op
      /\ c.held = old.held
  BY <1>1, Zenon DEF CallRecords
<1> HIDE DEF c
<1>4. old.op # "deposits"
  BY <1>1 DEF CallOK, ControlOK
<1>5. ControlOK(c) /\ RingOK(c, index) /\ PagesOK(c, status)
  BY <1>1, <1>3, <1>4 DEF CallOK, ControlOK, RingOK, PagesOK
<1> QED
  BY <1>2, <1>3, <1>5, OneCall, Zenon DEF CallOK

\* An attempt is answered.
LEMMA AnswerOK == ASSUME ClientsInv, NEW t \in Task, Answer(t) PROVE ClientsInv'
<1> DEFINE outcome == Outcome(call[t].op, call[t].client)
<1>1. /\ call[t].pc = "call" /\ UNCHANGED status
      /\ CASE outcome \in {"ok", "estimate", "size"} -> Return(t, "ok") /\ UNCHANGED index
           [] Aborts(outcome) -> Return(t, "error") /\ UNCHANGED index
           [] OTHER -> Fails(t)
  BY Zenon DEF Answer
<1> HIDE DEF outcome
<1>2. \/ Return(t, "ok") /\ UNCHANGED index
      \/ Return(t, "error") /\ UNCHANGED index
      \/ Fails(t)
  BY <1>1 DEF Aborts
<1> QED
  BY <1>1, <1>2, ReturnOK, FailsOK

\* A list of deposits ends.  When it is complete, a deposit that should be
\* found is in it, in an earlier one, or will be in the next one.
LEMMA EndListOK ==
    ASSUME ClientsInv, NEW t \in Task, call[t].pc = "page", UNCHANGED status,
           NEW got \in SUBSET Deposit, NEW result \in BOOLEAN, NEW complete \in BOOLEAN,
           EndList(t, got, result, complete),
           complete => result,
           complete => \A d \in call[t].held \ Corrupt :
              /\ call[t].pages.list = 1 => d \in got \/ status[d] = "accepted"
              /\ call[t].pages.list = 2 => d \in got \/ \E list \in call[t].pages.lists : d \in list
    PROVE  ClientsInv'
<1> DEFINE old == call[t]
           p == old.pages
           lists == IF result THEN p.lists \cup {got} ELSE p.lists
<1>1. old \in CallRecords /\ CallOK(old, index, status) /\ p \in PageRecords
  BY ByCall DEF ClientsInv, ClientsTypeOK, CallRecords
<1>2. lists \in SUBSET SUBSET Deposit /\ p.lists \subseteq lists /\ (result => got \in lists)
  BY <1>1 DEF PageRecords
<1>3. \/ /\ p.list < 2
         /\ call' = [call EXCEPT ![t].pages = [NoPages EXCEPT !.list = 2, !.lists = lists,
                                                              !.complete = complete]]
         /\ UNCHANGED index
      \/ Fails(t)
      \/ /\ ~(p.list < 2)
         /\ call' = [call EXCEPT ![t].pc = "done", ![t].result = "ok", ![t].found = UNION lists,
                                 ![t].pages.complete = complete]
         /\ UNCHANGED index
  BY Zenon DEF EndList
<1>4. p.list \in {1, 2} /\ old.result = "none"
  BY <1>1 DEF PageRecords, CallOK, ControlOK
<1> HIDE DEF lists
<1>5. CASE /\ p.list < 2
           /\ call' = [call EXCEPT ![t].pages = [NoPages EXCEPT !.list = 2, !.lists = lists,
                                                                !.complete = complete]]
           /\ UNCHANGED index
  <2> DEFINE q == [NoPages EXCEPT !.list = 2, !.lists = lists, !.complete = complete]
             c == [old EXCEPT !.pages = q]
  <2>1. /\ q \in PageRecords /\ q.list = 2 /\ q.lists = lists /\ q.complete = complete
        /\ q.token = 0
    BY <1>2, Zenon DEF NoPages, PageRecords
  <2>2. call' = [call EXCEPT ![t] = c]
    BY <1>1, <1>5 DEF ClientsInv, ClientsTypeOK, CallRecords
  <2> HIDE DEF q
  <2>3. c \in CallRecords
    BY <1>1, <2>1 DEF CallRecords
  <2>4. /\ c.pages = q /\ c.pc = old.pc /\ c.op = old.op /\ c.retry = old.retry
        /\ c.client = old.client /\ c.result = old.result
    BY <1>1 DEF CallRecords
  <2>5. c.failed = old.failed /\ c.disturbed = old.disturbed /\ c.held = old.held
    BY <1>1 DEF CallRecords
  <2> HIDE DEF c
  <2>6. ControlOK(c) /\ RingOK(c, index)
    BY <1>1, <2>4, <2>5 DEF CallOK, ControlOK, RingOK
  <2>7. PagesOK(c, status)
    <3>1. \A d \in old.held : status[d] \in {"pending", "accepted"} /\ d \in Nat \ {0}
      BY <1>1, DepositAssumption DEF CallOK, PagesOK, CallRecords
    <3>2. \A d \in old.held \ Corrupt :
             complete => status[d] = "accepted" \/ \E list \in lists : d \in list
      BY <1>2, <1>4, <1>5
    <3> QED
      BY <1>4, <2>1, <2>4, <2>5, <3>1, <3>2 DEF PagesOK
  <2> QED
    BY <1>5, <2>2, <2>3, <2>6, <2>7, OneCall, Zenon DEF CallOK
<1>6. CASE Fails(t)
  BY <1>6, FailsOK
<1>7. CASE /\ ~(p.list < 2)
           /\ call' = [call EXCEPT ![t].pc = "done", ![t].result = "ok", ![t].found = UNION lists,
                                   ![t].pages.complete = complete]
           /\ UNCHANGED index
  <2> DEFINE found == UNION lists
             q == [p EXCEPT !.complete = complete]
             c == [old EXCEPT !.pc = "done", !.result = "ok", !.found = found, !.pages = q]
  <2>1. q \in PageRecords /\ q.complete = complete /\ found \subseteq Deposit
    BY <1>1, <1>2 DEF PageRecords
  <2>2. call' = [call EXCEPT ![t] = c]
    BY <1>1, <1>7, Zenon DEF ClientsInv, ClientsTypeOK, CallRecords
  <2>3. \A d : (\E list \in lists : d \in list) => d \in found
    OBVIOUS
  <2> HIDE DEF q, found
  <2>4. c \in CallRecords
    BY <1>1, <2>1, Zenon DEF CallRecords
  <2>5. /\ c.pc = "done" /\ c.result = "ok" /\ c.found = found /\ c.pages = q /\ c.op = old.op
        /\ c.held = old.held
    BY <1>1 DEF CallRecords
  <2> HIDE DEF c
  <2>6. ControlOK(c) /\ RingOK(c, index)
    BY <1>1, <2>5 DEF CallOK, ControlOK, RingOK
  <2>7. PagesOK(c, status)
    <3>1. \A d \in old.held : status[d] \in {"pending", "accepted"}
      BY <1>1 DEF CallOK, PagesOK
    <3>2. \A d \in old.held \ Corrupt : complete => d \in found
      BY <1>2, <1>4, <1>7, <2>3
    <3> QED
      BY <2>1, <2>5, <3>1, <3>2 DEF PagesOK
  <2> QED
    BY <1>7, <2>2, <2>4, <2>6, <2>7, OneCall, Zenon DEF CallOK
<1> QED
  BY <1>3, <1>5, <1>6, <1>7

\* A set of numbers has a least one.
LEMMA LeastDeposit ==
    ASSUME NEW rest \in SUBSET Deposit, rest # {}
    PROVE  \E d \in rest : \A e \in rest : d <= e
<1>1. rest \subseteq Nat
  BY DepositAssumption
<1>2. PICK d \in rest : \A e \in rest : ~(<<e, d>> \in OpToRel(<, Nat))
  BY <1>1, NatLessThanWellFounded, WFMin, Zenon
<1>3. \A e \in Nat : e < d => e \notin rest
  BY <1>1, <1>2, Zenon DEF OpToRel
<1> QED
  BY <1>1, <1>3

\* A page of the deposits.
LEMMA PageOK == ASSUME ClientsInv, NEW t \in Task, Page(t) PROVE ClientsInv'
<1> DEFINE old == call[t]
           p == old.pages
           rest == {d \in Deposit : d > p.token /\ status[d] = Lists[p.list]}
           least == CHOOSE d \in rest : \A e \in rest : d <= e
           got == p.got \cup ({least} \ Corrupt)
<1>1. /\ old \in CallRecords /\ CallOK(old, index, status) /\ p \in PageRecords /\ old.pc = "page"
      /\ UNCHANGED status
  BY ByCall DEF ClientsInv, ClientsTypeOK, CallRecords, Page
<1>2. \/ EndList(t, p.got, p.got # {}, FALSE)
      \/ rest = {} /\ EndList(t, p.got, TRUE, p.complete)
      \/ /\ rest # {}
         /\ \/ /\ call' = [call EXCEPT ![t].pages.token = least, ![t].pages.got = got]
               /\ UNCHANGED index
            \/ EndList(t, got, TRUE, FALSE)
  BY Zenon DEF Page
<1>3. p.list \in {1, 2} /\ p.token \in Nat /\ p.got \in SUBSET Deposit /\ p.complete \in BOOLEAN
  BY <1>1 DEF PageRecords
<1>4. \A d \in old.held : d \in Deposit /\ d \in Nat /\ status[d] \in {"pending", "accepted"}
  BY <1>1, DepositAssumption, Zenon DEF CallOK, PagesOK, CallRecords
<1>5. \A d \in old.held : /\ p.list = 1 /\ status[d] # "accepted" /\ ~(d <= p.token) => d \in rest
                          /\ p.list = 2 /\ status[d] = "accepted" /\ ~(d <= p.token) => d \in rest
  BY <1>3, <1>4 DEF Lists
<1>6. rest # {} => /\ least \in rest /\ least \in Deposit /\ least \in Nat
                   /\ \A e \in rest : e \in Nat /\ least <= e
  <2>1. rest \subseteq Deposit
    OBVIOUS
  <2> HIDE DEF rest
  <2> QED
    BY <2>1, LeastDeposit, DepositAssumption, Zenon
<1>7. rest # {} => /\ got \in SUBSET Deposit /\ p.got \subseteq got
                   /\ least \notin Corrupt => least \in got
  BY <1>3, <1>6
<1> HIDE DEF rest, least, got
<1>8. CASE EndList(t, p.got, p.got # {}, FALSE)
  BY <1>1, <1>3, <1>8, EndListOK, Zenon
<1>9. CASE rest = {} /\ EndList(t, p.got, TRUE, p.complete)
  <2>1. p.complete => \A d \in old.held \ Corrupt :
           /\ p.list = 1 => d \in p.got \/ status[d] = "accepted"
           /\ p.list = 2 => d \in p.got \/ \E list \in p.lists : d \in list
    BY <1>1, <1>5, <1>9 DEF CallOK, PagesOK
  <2> QED
    BY <1>1, <1>3, <1>9, <2>1, EndListOK, Zenon
<1>10. CASE rest # {} /\ EndList(t, got, TRUE, FALSE)
  BY <1>1, <1>7, <1>10, EndListOK, Zenon
<1>11. CASE /\ rest # {} /\ call' = [call EXCEPT ![t].pages.token = least, ![t].pages.got = got]
            /\ UNCHANGED index
  <2> DEFINE q == [p EXCEPT !.token = least, !.got = got]
             c == [old EXCEPT !.pages = q]
  <2>1. /\ q \in PageRecords /\ q.token = least /\ q.got = got /\ q.list = p.list
        /\ q.lists = p.lists /\ q.complete = p.complete
    BY <1>1, <1>6, <1>7, <1>11, Zenon DEF PageRecords
  <2>2. call' = [call EXCEPT ![t] = c]
    BY <1>1, <1>11, Zenon DEF ClientsInv, ClientsTypeOK, CallRecords, PageRecords
  <2> HIDE DEF q
  <2>3. c \in CallRecords
    BY <1>1, <2>1 DEF CallRecords
  <2>4. /\ c.pages = q /\ c.pc = old.pc /\ c.op = old.op /\ c.retry = old.retry
        /\ c.client = old.client /\ c.result = old.result
    BY <1>1 DEF CallRecords
  <2>5. c.failed = old.failed /\ c.disturbed = old.disturbed /\ c.held = old.held
    BY <1>1 DEF CallRecords
  <2> HIDE DEF c
  <2>6. ControlOK(c) /\ RingOK(c, index)
    BY <1>1, <2>4, <2>5 DEF CallOK, ControlOK, RingOK
  <2>7. old.result = "none"
    BY <1>1 DEF CallOK, ControlOK
  <2>8. ASSUME NEW d \in old.held, d \notin Corrupt
        PROVE  /\ p.list = 1 /\ d <= least => d \in got \/ status[d] = "accepted"
               /\ p.list = 2 /\ p.complete =>
                     \/ \E list \in p.lists : d \in list
                     \/ status[d] = "accepted" /\ (d <= least => d \in got)
    <3>1. d <= p.token /\ p.list = 1 => d \in p.got \/ status[d] = "accepted"
      BY <1>1, <2>8 DEF CallOK, PagesOK
    <3>2. p.list = 2 /\ p.complete =>
             \/ \E list \in p.lists : d \in list
             \/ status[d] = "accepted" /\ (d <= p.token => d \in p.got)
      BY <1>1, <2>8 DEF CallOK, PagesOK
    <3>3. d \in rest /\ d <= least => d = least
      BY <1>4, <1>6, <1>11
    <3>4. d \in rest /\ d <= least => d \in got
      BY <1>7, <1>11, <2>8, <3>3
    <3>5. p.got \subseteq got
      BY <1>7, <1>11
    <3>6. p.list = 1 /\ d <= least => d \in got \/ status[d] = "accepted"
      BY <1>5, <3>1, <3>4, <3>5
    <3>7. /\ status[d] = "accepted" /\ p.list = 2 /\ d <= least
          /\ d <= p.token => d \in p.got
          => d \in got
      BY <1>5, <3>4, <3>5
    <3> QED
      BY <3>2, <3>6, <3>7
  <2>9. PagesOK(c, status)
    BY <1>4, <2>1, <2>4, <2>5, <2>7, <2>8 DEF PagesOK
  <2> QED
    BY <1>1, <1>11, <2>2, <2>3, <2>6, <2>9, OneCall, Zenon DEF CallOK
<1> QED
  BY <1>2, <1>8, <1>9, <1>10, <1>11, Zenon

\* What the callers rely on follows.
LEMMA ClientsInvImplies == ASSUME ClientsInv PROVE ClientsAnswerTruly
<1>1. FailureMeansAllTried
  <2> SUFFICES ASSUME NEW t \in Task, call[t].result = "AllClientsFailed", ~call[t].disturbed,
                      N <= DEFAULT_MINIMUM_RETRY_COUNT + 1
               PROVE  call[t].failed = Client
    BY DEF FailureMeansAllTried
  <2>1. call[t].failed \subseteq Client
    BY DEF ClientsInv, ClientsTypeOK, CallRecords
  <2>2. PICK s \in Client : Run(s, retry_count + 1) \subseteq call[t].failed
    BY DEF ClientsInv, RingOK
  <2>3. Client \subseteq Run(s, retry_count + 1)
    BY RetryCount, RunIsAll
  <2> QED
    BY <2>1, <2>2, <2>3
<1>2. DepositsNotMissed
  BY DEF ClientsInv, PagesOK, DepositsNotMissed
<1> QED
  BY <1>1, <1>2 DEF ClientsAnswerTruly

\* What exec and get_deposits tell their callers is so, for any number of
\* endpoints, calls and deposits: "all the clients failed" comes from a call
\* that every endpoint refused, unless another call moved the shared index, and
\* complete pages miss no deposit, whatever a sweep accepts between them.
THEOREM ClientsTellTheTruth == ClientsSpec => []ClientsAnswerTruly
<1>1. ClientsInit => ClientsInv
  BY ClientsInitOK
<1>2. ASSUME ClientsInv, [ClientsNext]_clientVars PROVE ClientsInv'
  <2>1. CASE UNCHANGED clientVars
    BY <1>2, <2>1, EndpointChangesOK DEF clientVars
  <2>2. CASE EndpointChanges
    BY <1>2, <2>2, EndpointChangesOK DEF EndpointChanges
  <2>3. CASE DepositChanges
    BY <1>2, <2>3, DepositChangesOK
  <2>4. ASSUME NEW t \in Task, Step(t) PROVE ClientsInv'
    BY <1>2, <2>4, BeginOK, AnswerOK, PageOK, RetryOK, EndOK DEF Step
  <2> QED
    BY <1>2, <2>1, <2>2, <2>3, <2>4 DEF ClientsNext
<1>3. ClientsInv => ClientsAnswerTruly
  BY ClientsInvImplies
<1> QED
  BY <1>1, <1>2, <1>3, PTL DEF ClientsSpec
=============================================================================
