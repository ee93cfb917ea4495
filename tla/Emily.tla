------------------------------- MODULE Emily -------------------------------
(***************************************************************************)
(* Emily, the API that tells users and signers the status of deposits and  *)
(* withdrawals.  Its handlers keep no state of their own: all of it is in  *)
(* tables of a key-value store, and every call to the store is one step    *)
(* here, so that calls of several clients interleave between their steps.  *)
(* Any call to the store may fail, and the lambda that runs a handler is   *)
(* ended after five seconds, wherever it is.                               *)
(*                                                                         *)
(* The clients: a Stacks node that posts new_block for each block it       *)
(* processes, on any branch, and repeats the post until it is answered     *)
(* with success; the signers, whose updates are not trusted; the cron job, *)
(* whose updates are; and users, who create deposits.                      *)
(*                                                                         *)
(* A Stacks block is a path: the children of a block are numbered, so that *)
(* its height is its length and its ancestors are its prefixes.  A request *)
(* entry holds the history of its status; an event of a history names the  *)
(* block that was the chain tip when the event was recorded.               *)
(*                                                                         *)
(* A Stacks block has at most one sBTC event and a Bitcoin block of its    *)
(* own, so that Bitcoin heights are Stacks heights.  The API state exists. *)
(* Retries have no limit: the bounds allow fewer conflicts than the code   *)
(* retries.                                                                *)
(***************************************************************************)
EXTENDS Integers, SequencesExt

CONSTANTS
    Deposits,        \* outpoints of deposits
    RequestIds,      \* ids of withdrawal requests
    SignerCalls,     \* calls of the signers in progress together
    CronCalls,       \* calls of the cron job in progress together
    UserCalls,       \* calls of create_deposit in progress together
    NO_REORG_DEPTH,
    MaxPosts,        \* bound: calls of new_block in progress together
    Budgets,         \* bounds: what a behaviour may use, see left
    None

ASSUME BoundsAssumption ==
    /\ {NO_REORG_DEPTH, MaxPosts} \subseteq Nat
    /\ Budgets \subseteq [blocks : Nat, forks : Nat, resends : Nat,
                          updates : Nat, deposits : Nat, withdrawals : Nat,
                          failures : Nat]

VARIABLES
    content,   \* the event of each block the node has processed
    head,      \* the block that the node processed last
    answered,  \* new_block for head was answered with success
    api,       \* the API state: its version, whether it is Reorg, the tip
    rows,      \* the chainstate table
    table,     \* the deposit and withdrawal tables, by primary key
    call,      \* the calls in progress
    left,      \* what is left of blocks, of changes of the branch, of posts
               \* repeated without a failure, of updates by signers and by the
               \* cron job, of calls of create_deposit, of blocks that create
               \* withdrawals and of failures
    stale,     \* an event was recorded at a block that was not on the tip's chain
    deep,      \* a block was ignored because it was too old
    replaced,  \* the keys whose entry was put again by a create
    astray,    \* the tips from which the tip moved to a block whose parent was
               \* not on their chain
    forgotten, \* the blocks whose event a reorg rolled back, or a failed update
               \* left out, and that did not become the tip again
    dropped,   \* a call ended after it had claimed a reorg and before its end
    overtaken  \* the node went on while a call for an earlier block was running

node == <<content, head, answered>>
ghosts == <<stale, deep, replaced, astray, forgotten, dropped, overtaken>>
vars == <<content, head, answered, api, rows, table, call, left, ghosts>>

-----------------------------------------------------------------------------
(* Data.                                                                   *)

NodeCalls == 1 .. MaxPosts
Updaters == SignerCalls \cup CronCalls
Calls == NodeCalls \cup Updaters \cup UserCalls

Statuses == {"pending", "accepted", "confirmed", "failed"}

\* info: the expected Bitcoin height of a withdrawal is known.
Event(status, block, info) == [status |-> status, block |-> block, info |-> info]
NoEvent == Event("pending", <<>>, FALSE)

\* The key of a withdrawal is its id and the block that created it.
IsWithdrawal(key) == key \notin Deposits

\* A call: where it is, the new block, and what it has read from the tables.
Idle == [pc |-> "idle", block |-> <<>>, version |-> 0, tip |-> <<>>,
         request |-> None, key |-> None, entry |-> None, event |-> NoEvent,
         todo |-> {}, then |-> "idle", heard |-> FALSE]

\* What a block does to the sBTC requests.
Nothing == [kind |-> "none", request |-> None]

Entry(version, history) ==
    [version |-> version, status |-> Last(history).status,
     last |-> Last(history).block, history |-> history]

-----------------------------------------------------------------------------
(* Entries.                                                                *)

\* Mutant: events follow each other in any order.
EnsureFollowingAny(latest, next) == TRUE

ensure_following_event_is_valid(latest, next) ==
    \/ Len(latest.block) < Len(next.block)
    \/ latest.block = next.block

is_unnecessary(entry, event) ==
    \E i \in DOMAIN entry.history :
        /\ entry.history[i] = event
        /\ \A j \in i .. Len(entry.history) :
               Len(entry.history[j].block) >= Len(event.block)

\* The history is cut, then synchronize_with_history copies its last event.
reorganize_around(entry, block) ==
    LET kept == SelectSeq(entry.history,
                    LAMBDA e : Len(e.block) < Len(block) \/ e.block = block)
    IN  Entry(entry.version,
            IF kept = <<>> THEN <<Event("pending", block, FALSE)>> ELSE kept)

\* The update package: a withdrawal's event keeps the expected height known so
\* far.
try_from(key, entry, event) ==
    IF IsWithdrawal(key)
    THEN [event EXCEPT !.info = Last(entry.history).info]
    ELSE event

-----------------------------------------------------------------------------
(* Tables.                                                                 *)

get_chainstate_entries_at_height(h) == {b \in rows : Len(b) = h}

is_in_canonical_chain(key) ==
    get_chainstate_entries_at_height(Len(key[2])) = {key[2]}

\* The keys found: exactly one when the call succeeds.
get_withdrawal_entry(id) ==
    LET entries == {k \in DOMAIN table : IsWithdrawal(k) /\ k[1] = id}
        failed  == \E k \in entries :
            Cardinality(get_chainstate_entries_at_height(Len(k[2]))) # 1
    IN  CASE Cardinality(entries) = 1 -> entries
          [] failed -> {}
          [] OTHER -> {k \in entries : is_in_canonical_chain(k)}

Find(request) ==
    IF request \in Deposits THEN {request} \cap DOMAIN table
                            ELSE get_withdrawal_entry(request)

Known(request) ==
    \E k \in DOMAIN table : k = request \/ (IsWithdrawal(k) /\ k[1] = request)

\* The condition of put_entry_with_version and of update_deposit.
VersionOk(key, version) ==
    key \in DOMAIN table /\ table[key].version = version

Put(key, entry) == table' = (key :> entry) @@ table

\* add_deposit_entry and add_withdrawal_entry: put_entry, which replaces what is
\* there.
PutNew(key, event) ==
    /\ Put(key, Entry(0, <<event>>))
    /\ replaced' = replaced \cup ({key} \cap DOMAIN table)

get_all_deposit_entries_modified_from_height(h) ==
    {k \in DOMAIN table : ~IsWithdrawal(k) /\ Len(table[k].last) >= h}

\* Only the request ids are used.
get_all_withdrawal_entries_modified_from_height(h) ==
    {k[1] : k \in {w \in DOMAIN table :
                       IsWithdrawal(w) /\ Len(table[w].last) >= h}}

-----------------------------------------------------------------------------
(* The Stacks node.                                                        *)

Goto(p, pc) == call' = [call EXCEPT ![p].pc = pc]
Stop(p) == call' = [call EXCEPT ![p] = Idle]

\* A call ends; the node hears the answer unless it has given up waiting, and
\* an answer may be lost.
Answer(p, success) ==
    /\ Stop(p)
    /\ \/ /\ answered' = (answered \/ (success /\ call[p].heard))
          /\ left' = left
       \/ /\ success
          /\ call[p].heard
          /\ left.resends > 0
          /\ answered' = FALSE
          /\ left' = [left EXCEPT !.resends = @ - 1]
    /\ UNCHANGED <<content, head>>

On(block) == {b \in DOMAIN content : IsPrefix(b, block)}

\* What a child of this block can hold: a deposit is completed and a withdrawal
\* created and decided at most once on a chain.
Possible(block) ==
    LET done(kind, r) == \E b \in On(block) :
                             content[b] = [kind |-> kind, request |-> r]
    IN  {Nothing}
        \cup {[kind |-> "complete", request |-> d] : d \in
                 {x \in Deposits : x \in DOMAIN table /\ ~done("complete", x)}}
        \cup {[kind |-> "create", request |-> r] : r \in
                 {x \in RequestIds : ~done("create", x)}}
        \cup {[kind |-> k, request |-> r] : k \in {"accept", "reject"}, r \in
                 {x \in RequestIds : /\ done("create", x)
                                     /\ ~done("accept", x)
                                     /\ ~done("reject", x)}}

Children(parent) ==
    {b \in DOMAIN content : Len(b) = Len(parent) + 1 /\ IsPrefix(parent, b)}

\* Once the post of the last block was answered the node processes a new block,
\* on its tip or on any other block, or goes back to a block of another branch
\* and posts it again.
ProcessBlock ==
    /\ answered
    /\ left.blocks > 0
    /\ \/ \E parent \in {<<>>} \cup DOMAIN content : \E e \in Possible(parent) :
              LET block == Append(parent, Cardinality(Children(parent)) + 1) IN
              /\ parent # head => left.forks > 0
              /\ e.kind = "create" => left.withdrawals > 0
              /\ content' = (block :> e) @@ content
              /\ head' = block
              /\ left' = [left EXCEPT
                     !.blocks = @ - 1,
                     !.forks = IF parent = head THEN @ ELSE @ - 1,
                     !.withdrawals = IF e.kind = "create" THEN @ - 1 ELSE @]
       \/ \E block \in DOMAIN content :
              /\ ~IsPrefix(block, head)
              /\ left.forks > 0
              /\ head' = block
              /\ left' = [left EXCEPT !.blocks = @ - 1, !.forks = @ - 1]
              /\ UNCHANGED content
    /\ answered' = FALSE
    /\ overtaken' = (overtaken \/ \E p \in NodeCalls : call[p].pc # "idle")
    /\ UNCHANGED <<api, rows, table, call, stale, deep, replaced, astray, forgotten, dropped>>

-----------------------------------------------------------------------------
(* new_block: the chain state.                                             *)

TooOld(block) == Len(block) < Len(api.tip) - NO_REORG_DEPTH

\* The post of a block, first or repeated, which also happens when the node
\* gives up waiting for an answer.  A block that is too old is not added.
add_chainstate_entry_or_reorg(p) ==
    LET waiting == {q \in NodeCalls : call[q].pc # "idle"} IN
    /\ ~answered
    /\ p \notin waiting
    /\ \A q \in NodeCalls \ waiting : p <= q
    /\ waiting # {} => left.resends > 0
    /\ left' = IF waiting = {} THEN left ELSE [left EXCEPT !.resends = @ - 1]
    /\ call' = [q \in Calls |->
           IF q = p
           THEN [Idle EXCEPT !.block = head, !.heard = TRUE,
                             !.pc = IF TooOld(head) THEN "events" ELSE "add"]
           ELSE [call[q] EXCEPT !.heard = FALSE]]
    /\ deep' = (deep \/ TooOld(head))
    /\ UNCHANGED <<node, api, rows, table, stale, replaced, astray, forgotten, dropped, overtaken>>

\* add_chainstate_entry reads the API state ...
add_chainstate_entry(p) ==
    /\ call[p].pc = "add"
    /\ \/ /\ api.reorg
          /\ api.tip # call[p].block
          /\ Answer(p, FALSE)
       \/ /\ api.reorg => api.tip = call[p].block
          /\ call' = [call EXCEPT ![p].pc = "rows", ![p].tip = api.tip,
                                  ![p].version = api.version]
          /\ UNCHANGED <<node, left>>
    /\ UNCHANGED <<api, rows, table, ghosts>>

\* ... then the entries at the block's height, which decide how to go on.
get_chainstate_entry_at_height(p) ==
    LET block    == call[p].block
        existing == get_chainstate_entries_at_height(Len(block))
        behind   == Len(call[p].tip) < Len(block)
    IN
    /\ call[p].pc = "rows"
    /\ \/ /\ existing = {}
          /\ Goto(p, IF behind THEN "put" ELSE "reorg")
          /\ UNCHANGED <<node, left, rows>>
       \/ /\ existing = {block}
          /\ behind
          /\ Goto(p, "set")
          /\ UNCHANGED <<node, left, rows>>
       \/ /\ existing = {block}
          /\ ~behind
          /\ Goto(p, "events")
          /\ UNCHANGED <<node, left, rows>>
       \/ /\ existing \notin {{}, {block}}
          /\ behind
          /\ rows' = rows \ existing
          /\ Goto(p, "put")
          /\ UNCHANGED <<node, left>>
       \/ /\ existing \notin {{}, {block}}
          /\ ~behind
          /\ Goto(p, "reorg")
          /\ UNCHANGED <<node, left, rows>>
    /\ UNCHANGED <<api, table, ghosts>>

put_chainstate_entry(p) ==
    /\ call[p].pc = "put"
    /\ rows' = rows \cup {call[p].block}
    /\ Goto(p, "set")
    /\ UNCHANGED <<node, left, api, table, ghosts>>

SetApiState(p, reorg) ==
    api' = [version |-> api.version + 1, reorg |-> reorg, tip |-> call[p].block]

\* What the ghosts make of a new tip: whether its parent is on the chain of the
\* old one, which Emily does not look at.
MoveTip(block) ==
    astray' = IF IsPrefix(Front(block), api.tip) \/ IsPrefix(api.tip, block)
              THEN astray ELSE astray \cup {api.tip}

\* The version-locked write; a conflict starts add_chainstate_entry again.
set_api_state(p) ==
    /\ call[p].pc = "set"
    /\ IF api.version = call[p].version
       THEN /\ SetApiState(p, FALSE)
            /\ MoveTip(call[p].block)
            /\ forgotten' = forgotten \ {call[p].block}
            /\ Goto(p, "events")
       ELSE Goto(p, "add") /\ UNCHANGED <<api, astray, forgotten>>
    /\ UNCHANGED <<node, left, rows, table, stale, deep, replaced, dropped, overtaken>>

-----------------------------------------------------------------------------
(* new_block: the reorg.                                                   *)

\* set_api_state_status(Reorg) reads the API state; when this reorg is already
\* claimed there is nothing to do.
set_api_state_status(p) ==
    /\ call[p].pc = "reorg"
    /\ \/ /\ ~api.reorg
          /\ call' = [call EXCEPT ![p].pc = "claim",
                                  ![p].version = api.version]
          /\ UNCHANGED <<node, left>>
       \/ /\ api.reorg
          /\ api.tip = call[p].block
          /\ Goto(p, "events")
          /\ UNCHANGED <<node, left>>
       \/ /\ api.reorg
          /\ api.tip # call[p].block
          /\ Answer(p, FALSE)
    /\ UNCHANGED <<api, rows, table, ghosts>>

ClaimApi(p) ==
    /\ call[p].pc = "claim"
    /\ IF api.version = call[p].version
       THEN /\ SetApiState(p, TRUE)
            /\ MoveTip(call[p].block)
            /\ forgotten' =
                   (forgotten \cup {b \in DOMAIN content : Len(b) >= Len(call[p].block)})
                       \ {call[p].block}
            /\ Goto(p, "deposits")
       ELSE Goto(p, "reorg") /\ UNCHANGED <<api, astray, forgotten>>
    /\ UNCHANGED <<node, left, rows, table, stale, deep, replaced, dropped, overtaken>>

\* execute_reorg_handler: the deposits to roll back, then the withdrawals.
ListModified(p) ==
    /\ \/ /\ call[p].pc = "deposits"
          /\ call' = [call EXCEPT ![p].pc = "wipe", ![p].then = "withdrawals",
                 ![p].todo = get_all_deposit_entries_modified_from_height(
                                 Len(call[p].block))]
       \/ /\ call[p].pc = "withdrawals"
          /\ call' = [call EXCEPT ![p].pc = "wipe", ![p].then = "release",
                 ![p].todo = get_all_withdrawal_entries_modified_from_height(
                                 Len(call[p].block))]
    /\ UNCHANGED <<node, left, api, rows, table, ghosts>>

\* An entry is read, and written back with its history cut; a conflict reads it
\* again.  An entry that cannot be found ends the call with an error, as any
\* other failure does, see CallEnds.
execute_reorg_handler(p) ==
    /\ \/ /\ call[p].pc = "wipe"
          /\ call[p].todo = {}
          /\ call' = [call EXCEPT ![p].pc = call[p].then]
          /\ UNCHANGED <<node, left, table, dropped>>
       \/ /\ call[p].pc = "wipe"
          /\ \E request \in call[p].todo :
                 LET found == Find(request) IN
                 \/ /\ Cardinality(found) = 1
                    /\ \E key \in found :
                           call' = [call EXCEPT ![p].pc = "cut",
                                        ![p].request = request,
                                        ![p].key = key,
                                        ![p].entry = table[key]]
                    /\ UNCHANGED <<node, left>>
                    /\ UNCHANGED dropped
                 \/ /\ Cardinality(found) # 1
                    /\ Answer(p, FALSE)
                    /\ dropped' = TRUE
          /\ UNCHANGED table
       \/ /\ call[p].pc = "cut"
          /\ IF VersionOk(call[p].key, call[p].entry.version)
             THEN /\ Put(call[p].key,
                         [reorganize_around(call[p].entry, call[p].block)
                             EXCEPT !.version = @ + 1])
                  /\ call' = [call EXCEPT ![p].pc = "wipe", ![p].entry = None,
                                  ![p].todo = @ \ {call[p].request}]
             ELSE /\ call' = [call EXCEPT ![p].pc = "wipe", ![p].entry = None]
                  /\ UNCHANGED table
          /\ UNCHANGED <<node, left, dropped>>
    /\ UNCHANGED <<api, rows, stale, deep, replaced, astray, forgotten, overtaken>>

\* Mutant: the status is set to Stable only if there is something to roll back.
ReleaseApiSometimes(p) ==
    /\ call[p].pc = "release"
    /\ IF DOMAIN table # {} THEN SetApiState(p, FALSE) ELSE UNCHANGED api
    /\ Goto(p, "events")
    /\ UNCHANGED <<node, left, rows, table, ghosts>>

\* set_api_state_status(Stable).  No other call writes the API state while it is
\* Reorg, so its read and its write are one step.
ReleaseApi(p) ==
    /\ call[p].pc = "release"
    /\ SetApiState(p, FALSE)
    /\ Goto(p, "events")
    /\ UNCHANGED <<node, left, rows, table, ghosts>>

-----------------------------------------------------------------------------
(* new_block: the events.                                                  *)

Block(p) == content[call[p].block]

NoEvents(p) ==
    /\ call[p].pc = "events"
    /\ Block(p).kind = "none"
    /\ Answer(p, TRUE)
    /\ UNCHANGED <<api, rows, table, ghosts>>

Failure == left.failures > 0 /\ left' = [left EXCEPT !.failures = @ - 1]

\* The API state and the chain state are read; the entry is put without a look
\* at what is there.  When the chain state cannot be read, the expected height
\* is not known.
create_withdrawal(p) ==
    LET put(known) == call' = [call EXCEPT ![p].pc = "add_withdrawal",
                          ![p].event = Event("pending", call[p].block, known)]
        rowsAt == get_chainstate_entries_at_height(Len(call[p].block))
    IN
    /\ call[p].pc = "events"
    /\ Block(p).kind = "create"
    /\ \/ /\ api.reorg
          /\ Answer(p, FALSE)
       \/ /\ ~api.reorg
          /\ put(Cardinality(rowsAt) = 1)
          /\ UNCHANGED <<node, left>>
       \/ /\ ~api.reorg
          /\ put(FALSE)
          /\ Failure
          /\ UNCHANGED node
    /\ UNCHANGED <<api, rows, table, ghosts>>

add_withdrawal_entry(p) ==
    /\ call[p].pc = "add_withdrawal"
    /\ PutNew(<<Block(p).request, call[p].block>>, call[p].event)
    /\ Answer(p, TRUE)
    /\ UNCHANGED <<api, rows, stale, deep, astray, forgotten, dropped, overtaken>>

\* update_deposits_sidecar and update_withdrawals_sidecar.
update_sidecar(p) ==
    /\ call[p].pc = "events"
    /\ Block(p).kind \in {"complete", "accept", "reject"}
    /\ \/ /\ api.reorg
          /\ Answer(p, FALSE)
       \/ /\ ~api.reorg
          /\ call' = [call EXCEPT ![p].pc = "get",
                          ![p].request = Block(p).request,
                          ![p].event = Event(IF Block(p).kind = "reject"
                              THEN "failed" ELSE "confirmed", api.tip, FALSE)]
          /\ UNCHANGED <<node, left>>
    /\ UNCHANGED <<api, rows, table, ghosts>>

-----------------------------------------------------------------------------
(* Updates.                                                                *)

StartUpdate(p, request, status) ==
    /\ call[p].pc = "idle"
    /\ ~api.reorg
    /\ left.updates > 0
    /\ Known(request)
    /\ left' = [left EXCEPT !.updates = @ - 1]
    /\ call' = [call EXCEPT ![p].pc = "get", ![p].request = request,
                            ![p].event = Event(status, api.tip, FALSE)]
    /\ UNCHANGED <<node, api, rows, table, ghosts>>

\* update_deposits_signer and update_withdrawals_signer.
update_signer(p) ==
    \E request \in Deposits \cup RequestIds :
        StartUpdate(p, request, "accepted")

\* The cron job reports deposits as failed through update_deposits_sidecar.
update_cron(p) == \E request \in Deposits : StartUpdate(p, request, "failed")

\* An update that cannot be done is reported in the body of the answer.
EndUpdate(p) ==
    IF p \in NodeCalls THEN Answer(p, TRUE)
                       ELSE Stop(p) /\ UNCHANGED <<node, left>>

IsTrusted(p) == p \notin SignerCalls

IsAllowed(p, entry) ==
    \/ IsTrusted(p)
    \/ call[p].event.status = "accepted" /\ entry.status = "pending"

IsNeeded(p, entry) ==
    /\ ~is_unnecessary(entry, call[p].event)
    /\ ~(call[p].event.status = "accepted" /\ entry.status = "accepted")

\* pull_and_update_deposit_with_retry and its twin for withdrawals: the read.
pull_and_update_with_retry(p) ==
    LET found  == Find(call[p].request)
        passes == {k \in found :
                      /\ Cardinality(found) = 1
                      /\ IsNeeded(p, table[k])
                      /\ IsAllowed(p, table[k])
                      /\ ensure_following_event_is_valid(
                             Last(table[k].history), call[p].event)}
    IN
    /\ call[p].pc = "get"
    /\ \/ /\ passes = {}
          /\ EndUpdate(p)
       \/ /\ \E k \in passes :
                 call' = [call EXCEPT ![p].pc = "write", ![p].key = k,
                                      ![p].entry = table[k]]
          /\ UNCHANGED <<node, left>>
    /\ UNCHANGED <<api, rows, table, ghosts>>

Late(event) == ~IsPrefix(event.block, api.tip)

\* update_deposit and update_withdrawal: the conditional write; a conflict reads
\* the entry again.
update_entry(p) ==
    LET key   == call[p].key
        event == try_from(key, call[p].entry, call[p].event)
    IN
    /\ call[p].pc = "write"
    /\ \/ /\ VersionOk(key, call[p].entry.version)
          /\ Put(key, [version |-> table[key].version + 1,
                       status |-> event.status, last |-> event.block,
                       history |-> Append(table[key].history, event)])
          /\ stale' = (stale \/ Late(event))
          /\ EndUpdate(p)
       \/ /\ ~VersionOk(key, call[p].entry.version)
          /\ call' = [call EXCEPT ![p].pc = "get", ![p].entry = None]
          /\ UNCHANGED <<node, left, table, stale, overtaken>>
    /\ UNCHANGED <<api, rows, deep, replaced, astray, forgotten, dropped, overtaken>>

-----------------------------------------------------------------------------
(* create_deposit.                                                         *)

create_deposit(p) ==
    /\ call[p].pc = "idle"
    /\ ~api.reorg
    /\ left.deposits > 0
    /\ left' = [left EXCEPT !.deposits = @ - 1]
    /\ \E d \in Deposits :
           call' = [call EXCEPT ![p].pc = "exists", ![p].key = d,
                                ![p].event = Event("pending", api.tip, FALSE)]
    /\ UNCHANGED <<node, api, rows, table, ghosts>>

get_deposit_entry(p) ==
    /\ call[p].pc = "exists"
    /\ IF call[p].key \in DOMAIN table THEN Stop(p) ELSE Goto(p, "add_deposit")
    /\ UNCHANGED <<node, left, api, rows, table, ghosts>>

add_deposit_entry(p) ==
    /\ call[p].pc = "add_deposit"
    /\ PutNew(call[p].key, call[p].event)
    /\ stale' = (stale \/ Late(call[p].event))
    /\ Stop(p)
    /\ UNCHANGED <<node, left, api, rows, deep, astray, forgotten, dropped, overtaken>>

-----------------------------------------------------------------------------
(* Failures.                                                               *)

\* A call to the store fails and its error ends the handler, or the lambda runs
\* into its time limit.  What was written stays; the node hears no success.
CallEnds(p) ==
    /\ call[p].pc # "idle"
    /\ Failure
    /\ Stop(p)
    /\ dropped' = (dropped \/ call[p].pc \in
                      {"deposits", "withdrawals", "wipe", "cut", "release"})
    /\ UNCHANGED <<node, api, rows, table, stale, deep, replaced, astray, forgotten, overtaken>>

\* A call to the store fails while the event of a block is recorded: new_block
\* goes on without the deposit, or finds the error in the body of an answer
\* whose status it takes for success.
EventFails(p) ==
    /\ \/ call[p].pc \in {"get", "write"}
       \/ call[p].pc = "events" /\ Block(p).kind = "complete"
    /\ Failure
    /\ Stop(p)
    /\ answered' = (answered \/ call[p].heard)
    /\ forgotten' = forgotten \cup {call[p].block}
    /\ UNCHANGED <<content, head, api, rows, table, stale, deep, replaced, astray, dropped, overtaken>>

-----------------------------------------------------------------------------
Init ==
    /\ content = <<>>
    /\ head = <<>>
    /\ answered = TRUE
    /\ api = [version |-> 0, reorg |-> FALSE, tip |-> <<>>]
    /\ rows = {}
    /\ table = <<>>
    /\ call = [p \in Calls |-> Idle]
    /\ left \in Budgets
    /\ stale = FALSE
    /\ deep = FALSE
    /\ replaced = {}
    /\ astray = {}
    /\ forgotten = {}
    /\ dropped = FALSE
    /\ overtaken = FALSE

\* A step of new_block after its first.
NodeStep(p) ==
    \/ add_chainstate_entry(p)
    \/ get_chainstate_entry_at_height(p)
    \/ put_chainstate_entry(p)
    \/ set_api_state(p)
    \/ set_api_state_status(p)
    \/ ClaimApi(p)
    \/ ListModified(p)
    \/ execute_reorg_handler(p)
    \/ ReleaseApi(p)
    \/ NoEvents(p)
    \/ create_withdrawal(p)
    \/ add_withdrawal_entry(p)
    \/ update_sidecar(p)

\* A step of an update after its first.
UpdateStep(p) == pull_and_update_with_retry(p) \/ update_entry(p)

Next ==
    \/ ProcessBlock
    \/ \E p \in NodeCalls : add_chainstate_entry_or_reorg(p) \/ NodeStep(p)
    \/ \E p \in SignerCalls : update_signer(p)
    \/ \E p \in CronCalls : update_cron(p)
    \/ \E p \in NodeCalls \cup Updaters : UpdateStep(p)
    \/ \E p \in UserCalls :
           create_deposit(p) \/ get_deposit_entry(p) \/ add_deposit_entry(p)
    \/ \E p \in Calls : CallEnds(p)
    \/ \E p \in NodeCalls : EventFails(p)

\* A call of new_block that is under way takes its next step, unless it ends.
Spec ==
    /\ Init
    /\ [][Next]_vars
    /\ \A p \in NodeCalls : WF_vars(NodeStep(p) \/ UpdateStep(p))

-----------------------------------------------------------------------------
(* Properties.                                                             *)

\* DepositEntry::validate and WithdrawalEntry::validate never fail on what is
\* stored: the fields the indexes use are those of the latest event, through any
\* interleaving of updates and reorgs.
EntriesValid ==
    \A k \in DOMAIN table :
        /\ table[k].status = Last(table[k].history).status
        /\ table[k].last = Last(table[k].history).block

\* A history is in the order of the chain: no event is recorded at a lower block
\* than the one before it, nor at another block of the same height.  The reorg
\* relies on this when it selects the entries by their latest event only.
\* An entry that a repeated create put again is excepted: its version started
\* again, and an update that read the old entry may then pass for a new one.
HistoryInOrder ==
    \A k \in DOMAIN table \ replaced :
        \A i \in 2 .. Len(table[k].history) :
            LET before == table[k].history[i - 1].block
                after  == table[k].history[i].block
            IN  Len(before) < Len(after) \/ before = after

\* Nothing of new_block is left to do, and no call for an earlier block, given up
\* by the node, was still running when a later block was posted: such a call
\* takes the API back to its block.
Quiet ==
    /\ answered
    /\ ~api.reorg
    /\ ~overtaken
    /\ \A p \in NodeCalls : call[p].pc = "idle"

\* The tip is the block that the node processed last, on whatever branch, unless
\* the block was too old, or the node went back to a block that is still in the
\* chainstate table and not above the tip: then Emily takes it for a repeated
\* post and stays on the other branch.
TipFollowsTheNode ==
    Quiet /\ ~deep =>
        api.tip = head \/ (head \in rows /\ Len(head) <= Len(api.tip))

\* No deposit, and no withdrawal of the tip's chain, shows an event of an
\* abandoned block, unless an update that had read the chain tip before a reorg
\* was recorded after it, or a fork was too deep to be followed, or the tip moved
\* to a block whose parent is not on its chain, back to a branch that it had
\* left: then nothing above the fork is rolled back below the new tip's height,
\* and events of the chain of the tip of that moment may stay.
NoOrphanedEvents ==
    Quiet /\ ~stale /\ ~deep =>
        \A k \in DOMAIN table :
            (IsWithdrawal(k) => IsPrefix(k[2], api.tip)) =>
                \A i \in DOMAIN table[k].history :
                    \E tip \in {api.tip} \cup astray :
                        IsPrefix(table[k].history[i].block, tip)

\* A deposit that a block of the chain completed is recorded as confirmed in
\* that block once new_block was answered, whatever signers, the cron job,
\* repeated posts and failed calls did meanwhile.  Excepted are a create that put
\* the deposit again, a block whose update failed with an error that new_block
\* does not pass on, and a block that a reorg abandoned and that came back into
\* the chain under a later block without being the tip again.
CompletedIsConfirmed ==
    Quiet /\ ~stale /\ ~deep =>
        \A b \in On(api.tip) \ forgotten :
            content[b].kind = "complete" /\ content[b].request \notin replaced =>
                \E i \in DOMAIN table[content[b].request].history :
                    table[content[b].request].history[i] =
                        Event("confirmed", b, FALSE)

\* An update of a signer takes an entry from pending to accepted and does
\* nothing else, at the moment of the write and not only of the read.
UntrustedOnlyAccepts(p) ==
    /\ call[p].pc = "write"
    /\ call'[p].pc = "idle"
    /\ table' # table
    /\ call[p].key \notin replaced
    => /\ table[call[p].key].status = "pending"
       /\ table'[call[p].key].status = "accepted"

\* A reorg that was begun ends, so that the API accepts updates again, unless
\* the call that claimed it ended before: by an error, also when a withdrawal
\* with entries of two forks cannot be found, or at the lambda's time limit.
\* Nobody else ends it, because a repeated post finds the reorg claimed; until
\* it ends no other call changes the status or the tip.
ReorgEnds ==
    /\ api.reorg ~> ~api.reorg \/ dropped
    /\ [][api.reorg /\ api' # api =>
             \E p \in NodeCalls : call[p].pc = "release" /\ call[p].block = api.tip]_vars

\* The withdrawal served for an id is the one created on the chain of the tip.
ServesCanonicalWithdrawal ==
    Quiet /\ ~deep =>
        \A k \in DOMAIN table :
            IsWithdrawal(k) /\ IsPrefix(k[2], api.tip) =>
                get_withdrawal_entry(k[1]) = {k}

\* Emily follows the node, and the entries tell what happened on the chain of
\* the tip, each with a history in the order of that chain, whatever updates,
\* reorgs and failures interleave.
EntriesFollowTheChain ==
    /\ EntriesValid /\ HistoryInOrder
    /\ TipFollowsTheNode /\ NoOrphanedEvents /\ CompletedIsConfirmed
=============================================================================
