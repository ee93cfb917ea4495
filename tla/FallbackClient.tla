--------------------------- MODULE FallbackClient ---------------------------
(***************************************************************************)
(* The clients of a signer: ApiFallbackClient (signer/src/util.rs) over    *)
(* the bitcoin nodes (bitcoin/client.rs), the Stacks nodes (stacks/api.rs) *)
(* or the Emily endpoints (emily_client.rs).  The event loops of a signer  *)
(* share one fallback client for each service, and so the index of the     *)
(* endpoint to ask.                                                        *)
(*                                                                         *)
(* A task repeats one kind of call.  An endpoint answers, is down, or is   *)
(* behind: a Stacks node without the contracts.  What the answers say is   *)
(* left out but for the deposits of Emily, which are read page by page     *)
(* while their status changes.                                             *)
(***************************************************************************)
EXTENDS Integers, FiniteSets

CONSTANTS
    N,                              \* the number of endpoints
    Task,                           \* the calls that run at the same time
    Deposit,                        \* keys of the deposits at Emily, numbers from 1
    Corrupt,                        \* those that parse_deposit refuses
    DEFAULT_MINIMUM_RETRY_COUNT,
    MaxFlips                        \* bound: changes of endpoints and deposits

ASSUME CountsAssumption == N \in Nat \ {0} /\ DEFAULT_MINIMUM_RETRY_COUNT \in Nat
ASSUME DepositAssumption == Deposit \subseteq Nat \ {0}

VARIABLES
    service,        \* what the endpoints are
    endpoint,       \* client index |-> the state of its endpoint
    status,         \* deposit |-> its status at Emily
    index,          \* last_client_index
    call,           \* task |-> its call
    flips

clientVars == <<service, endpoint, status, index, call, flips>>

Client == 0..(N - 1)

\* The kinds of calls that the services take, by what may become of them.
BitcoinOps == {"plain"}
StacksOps == {"plain", "read", "withdrawal", "fees", "source"}
EmilyOps == {"plain", "deposits"}
Ops == [bitcoin |-> BitcoinOps, stacks |-> StacksOps, emily |-> EmilyOps]

\* mutant: the retries count the first attempt.
RetriesAsAttempts == IF DEFAULT_MINIMUM_RETRY_COUNT < N THEN DEFAULT_MINIMUM_RETRY_COUNT - 1 ELSE N

\* ApiFallbackClient::new.
retry_count == IF DEFAULT_MINIMUM_RETRY_COUNT < N THEN DEFAULT_MINIMUM_RETRY_COUNT ELSE N

\* What get_deposits has: the list it reads, the key of the last page, what
\* this list had, the lists it read before, and whether a page is missing.
NoPages == [list |-> 1, token |-> 0, got |-> {}, lists |-> {}, complete |-> TRUE]

\* failed, disturbed and held are for the properties: the endpoints that
\* failed, whether other calls changed the index, and the deposits that never
\* left the two lists or went back during the call.
IdleCall(op) == [pc |-> "idle", op |-> op, retry |-> 0, client |-> 0, pages |-> NoPages,
             result |-> "none", found |-> {}, failed |-> {}, disturbed |-> FALSE, held |-> {}]

\* Only the block observer reads the deposits.
ClientsInit ==
    /\ service \in DOMAIN Ops
    /\ endpoint \in [Client -> {"up", "down"}]
    /\ \E op \in [Task -> Ops[service]] :
         /\ \A t, u \in Task : op[t] = "deposits" /\ op[u] = "deposits" => t = u
         /\ call = [t \in Task |-> IdleCall(op[t])]
    /\ status \in [Deposit -> IF service = "emily" THEN {"pending", "accepted"} ELSE {"none"}]
    /\ index = 0 /\ flips = 0

-----------------------------------------------------------------------------
(* The endpoints. *)

Flip == flips < MaxFlips /\ flips' = flips + 1

EndpointChanges ==
    /\ Flip
    /\ \E c \in Client :
         \E state \in {"up", "down"} \cup (IF service = "stacks" THEN {"behind"} ELSE {}) :
            /\ state # endpoint[c]
            /\ endpoint' = [endpoint EXCEPT ![c] = state]
    /\ UNCHANGED <<service, status, index, call>>

\* A sweep accepts a deposit or confirms it, a reorganisation sets it back.
DepositChanges ==
    /\ Flip
    /\ \E d \in Deposit, new \in {"pending", "accepted", "confirmed"} :
         /\ status[d] \in {"pending", "accepted"} /\ status[d] # new
         /\ status' = [status EXCEPT ![d] = new]
         /\ call' = [t \in Task |-> IF new = "accepted" THEN call[t]
                                    ELSE [call[t] EXCEPT !.held = @ \ {d}]]
    /\ UNCHANGED <<service, endpoint, index>>

-----------------------------------------------------------------------------
(* The answers to one request. *)

\* A request that does not depend on the contracts, as get_account or get_block.
Request(c) == IF endpoint[c] = "down" THEN "error" ELSE "ok"

\* is_deposit_completed, the signer set and the supply.
call_read(c) == IF endpoint[c] = "up" THEN "ok" ELSE "error"

\* A 404 of a node that is behind is taken for an entry that is missing.
get_map_entry(c) ==
    CASE endpoint[c] = "up" -> "some" [] endpoint[c] = "behind" -> "none" [] OTHER -> "error"

is_withdrawal_completed(c) ==
    CASE get_map_entry(c) = "some" -> "ok" [] get_map_entry(c) = "none" -> "InvalidStacksResponse"
      [] OTHER -> "error"

\* When the node does not help, the fee comes from the size of the transaction.
estimate_fees(c) == IF Request(c) = "ok" THEN "estimate" ELSE "size"

get_contract_source(c) ==
    CASE endpoint[c] = "up" -> "ok" [] endpoint[c] = "behind" -> "NotFound"
      [] OTHER -> "StacksNodeRequest"

Outcome(op, c) ==
    CASE op = "read" -> call_read(c) [] op = "withdrawal" -> is_withdrawal_completed(c)
      [] op = "fees" -> estimate_fees(c) [] op = "source" -> get_contract_source(c)
      [] OTHER -> Request(c)

-----------------------------------------------------------------------------
(* ApiFallbackClient::exec. *)

\* The call starts: the index is loaded for the first attempt.
Begin(t) ==
    /\ call[t].pc = "idle"
    /\ call' = [call EXCEPT ![t] = [IdleCall(call[t].op) EXCEPT
                   !.pc = IF call[t].op = "deposits" THEN "page" ELSE "call", !.client = index,
                   !.held = IF call[t].op # "deposits" THEN {}
                            ELSE {d \in Deposit : status[d] \in {"pending", "accepted"}}]]
    /\ UNCHANGED <<service, endpoint, status, index, flips>>

Return(t, result) == call' = [call EXCEPT ![t].pc = "done", ![t].result = result]

\* exec gives the result back.
End(t) ==
    /\ call[t].pc = "done"
    /\ call' = [call EXCEPT ![t] = IdleCall(call[t].op)]
    /\ UNCHANGED <<service, endpoint, status, index, flips>>

\* The index after a failure.
StoreNext(c) == (c + 1) % N

\* After an error the next endpoint becomes the current one, for all the
\* calls.  Whether there is a retry depends on how many there were.
Fails(t) ==
    LET c == call[t].client
    IN  /\ index' = StoreNext(c)
        /\ call' = [u \in Task |->
              IF u # t THEN [call[u] EXCEPT !.disturbed = @ \/ call[u].pc \notin {"idle", "done"}]
              ELSE [call[t] EXCEPT
                      !.failed = @ \cup {c},
                      !.pc = IF call[t].retry = retry_count THEN "done" ELSE "retry",
                      !.result = IF call[t].retry = retry_count THEN "AllClientsFailed" ELSE "none"]]

\* The next attempt loads the index again.
Retry(t) ==
    /\ call[t].pc = "retry"
    /\ call' = [call EXCEPT ![t].pc = IF call[t].op = "deposits" THEN "page" ELSE "call",
                            ![t].retry = @ + 1, ![t].client = index, ![t].pages = NoPages]
    /\ UNCHANGED <<service, endpoint, status, index, flips>>

\* abort_if, and get_contract_source, which asks the current endpoint without
\* exec.
Aborts(outcome) == outcome \in {"InvalidStacksResponse", "NotFound", "StacksNodeRequest"}

\* The answer to an attempt.
Answer(t) ==
    /\ call[t].pc = "call"
    /\ LET outcome == Outcome(call[t].op, call[t].client)
       IN  CASE outcome \in {"ok", "estimate", "size"} -> Return(t, "ok") /\ UNCHANGED index
             [] Aborts(outcome) -> Return(t, "error") /\ UNCHANGED index
             [] OTHER -> Fails(t)
    /\ UNCHANGED <<service, endpoint, status, flips>>

-----------------------------------------------------------------------------
(* EmilyClient::get_deposits. *)

\* The pending deposits are read before the accepted ones.
Lists == <<"pending", "accepted">>

\* get_deposits_with_status ends with what it has; result is FALSE if its first
\* page failed.  The call fails if both lists did.
EndList(t, got, result, complete) ==
    LET p == call[t].pages
        lists == IF result THEN p.lists \cup {got} ELSE p.lists
    IN  IF p.list < 2
        THEN /\ call' = [call EXCEPT ![t].pages = [NoPages EXCEPT !.list = 2, !.lists = lists,
                                                                  !.complete = complete]]
             /\ UNCHANGED index
        ELSE IF lists = {} THEN Fails(t)
        ELSE /\ call' = [call EXCEPT ![t].pc = "done", ![t].result = "ok", ![t].found = UNION lists,
                                     ![t].pages.complete = complete]
             /\ UNCHANGED index

\* The next page, of one deposit.  The timeout for the pages ends the list
\* after a page.
Page(t) ==
    /\ call[t].pc = "page"
    /\ LET p == call[t].pages
           rest == {d \in Deposit : d > p.token /\ status[d] = Lists[p.list]}
       IN  IF Outcome("deposits", call[t].client) # "ok" THEN EndList(t, p.got, p.got # {}, FALSE)
           ELSE IF rest = {} THEN EndList(t, p.got, TRUE, p.complete)
           ELSE LET d == CHOOSE d \in rest : \A e \in rest : d <= e
                    got == p.got \cup ({d} \ Corrupt)
                IN  \/ /\ call' = [call EXCEPT ![t].pages.token = d, ![t].pages.got = got]
                       /\ UNCHANGED index
                    \/ EndList(t, got, TRUE, FALSE)
    /\ UNCHANGED <<service, endpoint, status, flips>>

-----------------------------------------------------------------------------

Step(t) == Begin(t) \/ Answer(t) \/ Page(t) \/ Retry(t) \/ End(t)

ClientsNext == EndpointChanges \/ DepositChanges \/ \E t \in Task : Step(t)

\* The event loops keep asking, and every request is answered or times out.
ClientsFairness == \A t \in Task : WF_clientVars(Step(t))

ClientsSpec == ClientsInit /\ [][ClientsNext]_clientVars /\ ClientsFairness

-----------------------------------------------------------------------------
(* What the callers rely on. *)

\* A call to which exec says that all the clients failed was refused by every
\* endpoint, as long as no other call moved the shared index meanwhile and
\* the attempts are as many as the endpoints.
FailureMeansAllTried ==
    \A t \in Task :
       /\ call[t].result = "AllClientsFailed" /\ ~call[t].disturbed
       /\ N <= DEFAULT_MINIMUM_RETRY_COUNT + 1
       => call[t].failed = Client

\* When one endpoint is left, the calls find it and stay with it, whatever the
\* calls under way make of the shared index; estimate_fees and
\* get_contract_source alone would not move it.
SettlesOnHealthy ==
    /\ <>[](Cardinality({c \in Client : endpoint[c] = "up"}) = 1
            /\ \A c \in Client : endpoint[c] # "behind")
    /\ \E t \in Task : call[t].op \notin {"fees", "source"}
    => <>[](endpoint[index] = "up")

\* get_deposits misses no deposit that was pending or accepted all the time and
\* did not go back to pending, if all its pages were answered: a sweep that
\* accepts deposits between two pages hides none of them.
DepositsNotMissed ==
    \A t \in Task :
       call[t].op = "deposits" /\ call[t].result = "ok" /\ call[t].pages.complete
       => call[t].held \ Corrupt \subseteq call[t].found

\* What exec and get_deposits tell their callers is so: a call to which exec
\* says that all the clients failed was refused by every endpoint, as long as
\* no other call moved the shared index meanwhile, and get_deposits misses no
\* deposit that was there for all of its pages.
ClientsAnswerTruly == FailureMeansAllTried /\ DepositsNotMissed
=============================================================================
