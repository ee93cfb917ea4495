---------------------------- MODULE EmilyLimits ----------------------------
(***************************************************************************)
(* The limits that Emily keeps for the signers, and the throttle mode.     *)
(*                                                                         *)
(* A limit is a row of a DynamoDB table under its account and the second   *)
(* it was set in; the row with the latest second counts, and a row put in  *)
(* the same second replaces the other.  Every handler is a series of store *)
(* calls with awaits between them, so the handlers of operators and of     *)
(* holders of a throttle key interleave at every call, and any call may    *)
(* fail.  The signers read the limits once per block.                      *)
(*                                                                         *)
(* A failed or refused call is an action that only ends the call.          *)
(***************************************************************************)
EXTENDS Integers, FiniteSets, FiniteSetsExt

CONSTANTS
    Calls,          \* calls of the API
    Accounts,       \* accounts with limits of their own
    Hashes,         \* hashes of the throttle keys
    Unlimited,      \* u64::MAX and Amount::MAX_MONEY
    MaxBlocks,      \* u16::MAX
    THROTTLE_MODE_ROLLING_WINDOW,
    THROTTLE_MODE_ROLLING_CAP,
    THROTTLE_MODE_PER_WITHDRAWAL_CAP,
    MaxTime,        \* bound: seconds
    Worlds,         \* what is asked of the API, and what its tables hold
    None

VARIABLES
    lworld,     \* chosen at the start: calls, tables
    now,        \* SystemTime::now() in seconds
    limits,     \* limit table
    keys,       \* throttle table
    calls,      \* the handlers under way
    signer,     \* SbtcLimits of a signer
    inForce,    \* ghost: timestamp of the throttle nobody has replaced, or 0
    touched,    \* ghost: calls during which another call wrote the limits
    revoked,    \* ghost: keys that were deactivated and not activated since
    raced       \* ghost: keys added in spite of a failed or stale lookup

lvars == << lworld, now, limits, keys, calls, signer, inForce, touched, revoked, raced >>

GLOBAL_CAP_ACCOUNT == "GLOBAL"

AccountLimits(peg_cap, minimum, deposit_cap, withdrawal_cap, blocks, cap, initiator) ==
    [peg_cap |-> peg_cap, per_deposit_minimum |-> minimum, per_deposit_cap |-> deposit_cap,
     per_withdrawal_cap |-> withdrawal_cap, rolling_withdrawal_blocks |-> blocks,
     rolling_withdrawal_cap |-> cap, throttle_mode_initiator |-> initiator]

NoLimits == AccountLimits(None, None, None, None, None, None, None)

LimitEntry(account, timestamp, account_limit) ==
    [account |-> account, timestamp |-> timestamp, limit |-> account_limit]

ThrottleKeyEntry(hash, created_at, is_active) ==
    [hash |-> hash, created_at |-> created_at, is_active |-> is_active]

OrElse(value, default) == IF value = None THEN default ELSE value

Saturating(n) == IF n < 0 THEN 0 ELSE n

Optional(S) == S \cup {None}

----------------------------------------------------------------------------
(* Reading the limits *)

\* Limits::validate
validate(limit) ==
    limit.rolling_withdrawal_blocks = None <=> limit.rolling_withdrawal_cap = None

\* LimitEntry::is_empty
is_empty(limit) ==
    /\ limit.peg_cap = None
    /\ limit.per_deposit_cap = None
    /\ limit.per_withdrawal_cap = None

\* The entry an account ends up with when get_limits goes through the table
LatestOf(entries) ==
    CHOOSE e \in entries : \A f \in entries : f.timestamp <= e.timestamp

EntriesOf(account) == { e \in limits : e.account = account }

get_limit_for_account(account) == LatestOf(EntriesOf(account))

\* mutant: the window ends one block late
WindowStartLate(tip, blocks) == Saturating(tip - Saturating(blocks - 1)) + 1

\* The first Bitcoin block of the window
WindowStart(tip, blocks) == Saturating(tip - Saturating(blocks - 1))

\* The Bitcoin blocks that anchor a Stacks block
Anchors == { lworld.books.chain[h] : h \in DOMAIN lworld.books.chain }

get_oldest_stacks_block_for_bitcoin_block(chain, bitcoin_height) ==
    { h \in DOMAIN chain : chain[h] = bitcoin_height }

\* The search goes on after any error, so a Bitcoin block whose query fails is
\* passed over like one without a Stacks block.  "unanswered" are the blocks
\* whose query fails.  The empty set where the code answers NotFound.
get_oldest_stacks_block_in_range(chain, first, last, unanswered) ==
    LET found == { b \in (first .. last) \ unanswered :
                     get_oldest_stacks_block_for_bitcoin_block(chain, b) # {} }
    IN  IF found = {} THEN {}
        ELSE { Min(get_oldest_stacks_block_for_bitcoin_block(chain, Min(found))) }

\* None if the window is not limited or cannot be computed; every error but
\* those of the search has that outcome too.
calculate_sbtc_left_for_withdrawals(limit, unanswered) ==
    LET books == lworld.books
        from == get_oldest_stacks_block_in_range(
                    books.chain,
                    WindowStart(books.tip, limit.rolling_withdrawal_blocks), books.tip,
                    unanswered)
        counted == { w \in books.withdrawals :
                       /\ w.status # "failed"
                       /\ \A h \in from : w.last_update_height >= h }
    IN  IF \/ limit.rolling_withdrawal_blocks = None
           \/ limit.rolling_withdrawal_cap = None
           \/ books.tip = None
        THEN None
        ELSE IF from = {} THEN None
        ELSE Saturating(limit.rolling_withdrawal_cap
                        - MapThenSumSet(LAMBDA w : w.amount, counted))

default_limits == lworld.default_limits

get_limits(unanswered) ==
    LET global == LatestOf(EntriesOf(GLOBAL_CAP_ACCOUNT)
                           \cup {LimitEntry(GLOBAL_CAP_ACCOUNT, 0, default_limits)}).limit
        known == { a \in Accounts :
                     EntriesOf(a) # {} /\ ~is_empty(get_limit_for_account(a).limit) }
    IN  [global |-> global,
         available_to_withdraw |-> calculate_sbtc_left_for_withdrawals(global, unanswered),
         account_caps |-> [a \in known |-> get_limit_for_account(a).limit]]

----------------------------------------------------------------------------
(* Handlers *)

Idle == [pc |-> "idle", op |-> None, hash |-> None, entry |-> None, body |-> None,
         entries |-> {}, read |-> None]

\* Call c goes on, or ends with its answer.
Continue(c, call) == calls' = [calls EXCEPT ![c] = call]
Respond(c) == calls' = [calls EXCEPT ![c] = [Idle EXCEPT !.pc = "done"]]

Is(c, op, pc) == calls[c].op = op /\ calls[c].pc = pc

\* The put replaces the entry of the same account and second.
put_entry(entry) ==
    { e \in limits : e.account # entry.account \/ e.timestamp # entry.timestamp } \cup {entry}

\* Begins set_limits with the given limits: the entry of the global account is
\* stamped, the ones of the accounts follow.
SetLimits(c, call, body) ==
    /\ validate(body.global)
    /\ Continue(c, [call EXCEPT !.pc = "put_global", !.body = body.account_caps,
                                !.entry = LimitEntry(GLOBAL_CAP_ACCOUNT, now, body.global)])

\* POST /limits
set_limits(c) ==
    /\ calls[c] = Idle
    /\ lworld.ops[c] = "set"
    /\ \E body \in lworld.bodies : SetLimits(c, [Idle EXCEPT !.op = "set"], body)
    /\ touched' = touched \ {c}
    /\ UNCHANGED << lworld, now, limits, keys, signer, inForce, revoked, raced >>

\* POST /limits/{account}; the account may be the global one, and nothing is
\* validated.
set_limits_for_account(c) ==
    /\ calls[c] = Idle
    /\ lworld.ops[c] = "set_account"
    /\ \E account \in Accounts \cup {GLOBAL_CAP_ACCOUNT}, limit \in lworld.account_bodies :
          Continue(c, [Idle EXCEPT !.op = "set_account", !.pc = "put_account",
                                   !.entries = {LimitEntry(account, now, limit)}])
    /\ UNCHANGED << lworld, now, limits, keys, signer, inForce, touched, revoked, raced >>

\* What the ghosts make of an entry: a throttle is in force from the moment its
\* entry is the latest one, until another entry takes its place.
Witness(c, entry) ==
    /\ touched' = touched \cup (Calls \ {c})
    /\ inForce' =
         IF entry.account # GLOBAL_CAP_ACCOUNT THEN inForce
         ELSE IF calls[c].op # "throttle"
         THEN IF entry.timestamp >= inForce THEN 0 ELSE inForce
         ELSE IF \A e \in EntriesOf(GLOBAL_CAP_ACCOUNT) : e.timestamp <= entry.timestamp
         THEN entry.timestamp ELSE inForce

\* The first put of set_limits
PutGlobal(c) ==
    /\ calls[c].pc = "put_global"
    /\ limits' = put_entry(calls[c].entry)
    /\ Witness(c, calls[c].entry)
    /\ IF calls[c].body = << >> THEN Respond(c)
       ELSE Continue(c, [calls[c] EXCEPT !.pc = "stamp"])
    /\ UNCHANGED << lworld, now, keys, signer, revoked, raced >>

\* The entries of the accounts are stamped together, after the first put.
StampAccounts(c) ==
    /\ calls[c].pc = "stamp"
    /\ Continue(c, [calls[c] EXCEPT
                      !.pc = "put_account",
                      !.entries = { LimitEntry(a, now, calls[c].body[a]) :
                                      a \in DOMAIN calls[c].body }])
    /\ UNCHANGED << lworld, now, limits, keys, signer, inForce, touched, revoked, raced >>

\* They are put one by one, in the order of a HashMap.
set_limit_for_account(c) ==
    /\ calls[c].pc = "put_account"
    /\ \E entry \in calls[c].entries :
          /\ limits' = put_entry(entry)
          /\ Witness(c, entry)
          /\ IF calls[c].entries = {entry} THEN Respond(c)
             ELSE Continue(c, [calls[c] EXCEPT !.entries = @ \ {entry}])
    /\ UNCHANGED << lworld, now, keys, signer, revoked, raced >>

----------------------------------------------------------------------------
(* Throttle keys *)

KeysOf(hash) == { k \in keys : k.hash = hash }

\* get_throttle_key answers the only entry of the hash; otherwise NotFound or
\* TooManyThrottleEntries
Found(hash) == Cardinality(KeysOf(hash)) = 1
get_throttle_key(hash) == CHOOSE k \in keys : k.hash = hash

\* KeyVerificationResult::Eligible
verify_throttle_key(hash) == Found(hash) /\ get_throttle_key(hash).is_active

\* mutant: the values of the throttle mode replace the limits
ThrottleModeValues(read, initiator) ==
    [read EXCEPT
       !.global.per_withdrawal_cap = THROTTLE_MODE_PER_WITHDRAWAL_CAP,
       !.global.rolling_withdrawal_blocks = THROTTLE_MODE_ROLLING_WINDOW,
       !.global.rolling_withdrawal_cap = THROTTLE_MODE_ROLLING_CAP,
       !.global.throttle_mode_initiator = initiator]

calculate_throttle_mode_limits(read, initiator) ==
    [read EXCEPT
       !.global.per_withdrawal_cap =
           Min({OrElse(@, THROTTLE_MODE_PER_WITHDRAWAL_CAP), THROTTLE_MODE_PER_WITHDRAWAL_CAP}),
       !.global.rolling_withdrawal_blocks =
           Max({OrElse(@, THROTTLE_MODE_ROLLING_WINDOW), THROTTLE_MODE_ROLLING_WINDOW}),
       !.global.rolling_withdrawal_cap =
           Min({OrElse(@, THROTTLE_MODE_ROLLING_CAP), THROTTLE_MODE_ROLLING_CAP}),
       !.global.throttle_mode_initiator = initiator]

\* POST /start_throttle: the key is verified,
start_throttle(c) ==
    /\ calls[c] = Idle
    /\ lworld.ops[c] = "throttle"
    /\ \E hash \in Hashes :
          /\ verify_throttle_key(hash)
          /\ Continue(c, [Idle EXCEPT !.op = "throttle", !.pc = "calculate", !.hash = hash])
    /\ UNCHANGED << lworld, now, limits, keys, signer, inForce, touched, revoked, raced >>

\* then the limits are read and set_limits is called with the tightened ones.
SetThrottleLimits(c) ==
    /\ Is(c, "throttle", "calculate")
    /\ \E unanswered \in SUBSET Anchors :
          LET read == get_limits(unanswered) IN
          SetLimits(c, [calls[c] EXCEPT !.read = read],
                    calculate_throttle_mode_limits(read, calls[c].hash))
    /\ touched' = touched \ {c}
    /\ UNCHANGED << lworld, now, limits, keys, signer, inForce, revoked, raced >>

\* POST /throttle: the entry is stamped before the lookup.
add_throttle_key(c) ==
    /\ calls[c] = Idle
    /\ lworld.ops[c] = "add"
    /\ \E hash \in Hashes :
          Continue(c, [Idle EXCEPT !.op = "add", !.pc = "lookup", !.hash = hash,
                                   !.entry = ThrottleKeyEntry(hash, now, TRUE)])
    /\ UNCHANGED << lworld, now, limits, keys, signer, inForce, touched, revoked, raced >>

\* Only an entry that was found is a conflict: after any error, also of the
\* query itself, the entry is put.
LookupKey(c) ==
    /\ Is(c, "add", "lookup")
    /\ \/ /\ Found(calls[c].hash)
          /\ Respond(c)
       \/ /\ ~Found(calls[c].hash)
          /\ Continue(c, [calls[c] EXCEPT !.pc = "put_key", !.read = KeysOf(calls[c].hash)])
       \/ /\ lworld.failures
          /\ Continue(c, [calls[c] EXCEPT !.pc = "put_key", !.read = None])
    /\ UNCHANGED << lworld, now, limits, keys, signer, inForce, touched, revoked, raced >>

PutKey(c) ==
    /\ Is(c, "add", "put_key")
    /\ LET entry == calls[c].entry IN
       /\ keys' = (keys \ { k \in KeysOf(entry.hash) : k.created_at = entry.created_at })
                  \cup {entry}
       /\ raced' = IF calls[c].read = None \/ calls[c].read # KeysOf(entry.hash)
                   THEN raced \cup {entry.hash} ELSE raced
    /\ Respond(c)
    /\ UNCHANGED << lworld, now, limits, signer, inForce, touched, revoked >>

\* PATCH /throttle/activate and /throttle/deactivate look the key up
FindKey(c) ==
    /\ calls[c] = Idle
    /\ lworld.ops[c] \in {"activate", "deactivate"}
    /\ \E hash \in Hashes :
          /\ Found(hash)
          /\ Continue(c, [Idle EXCEPT !.op = lworld.ops[c], !.pc = "update", !.hash = hash,
                                      !.read = get_throttle_key(hash).created_at])
    /\ UNCHANGED << lworld, now, limits, keys, signer, inForce, touched, revoked, raced >>

\* and update the entry by hash and time of creation.
set_throttle_key_activity(c) ==
    /\ calls[c].pc = "update"
    /\ LET call == calls[c]
           active == call.op = "activate" IN
       /\ keys' = { IF k.hash = call.hash /\ k.created_at = call.read
                    THEN [k EXCEPT !.is_active = active] ELSE k : k \in keys }
       /\ revoked' = IF active THEN revoked \ {call.hash} ELSE revoked \cup {call.hash}
    /\ Respond(c)
    /\ UNCHANGED << lworld, now, limits, signer, inForce, touched, raced >>

\* A store call fails, or the call is refused; what was put stays.
Fails(c) ==
    /\ calls[c].pc # "done"
    /\ Respond(c)
    /\ UNCHANGED << lworld, now, limits, keys, signer, inForce, touched, revoked, raced >>

----------------------------------------------------------------------------
(* The signer *)

\* SbtcLimits::rolling_withdrawal_limits
rolling_withdrawal_limits(blocks, cap) ==
    IF blocks # None /\ cap # None THEN [blocks |-> blocks, cap |-> cap]
    ELSE IF blocks = None /\ cap = None THEN [blocks |-> 0, cap |-> Unlimited]
    ELSE [blocks |-> 0, cap |-> 0]

\* The window EmilyClient::get_limits takes over
WindowOf(limit) ==
    IF limit.rolling_withdrawal_blocks = None THEN None
    ELSE Min({limit.rolling_withdrawal_blocks, MaxBlocks})

\* What the signers may still mint: the cap less the supply
max_mintable(limit, supply) ==
    IF limit.peg_cap # None THEN Saturating(limit.peg_cap - supply) ELSE Unlimited

\* SbtcLimits::zero
zero ==
    [per_deposit_minimum |-> Unlimited, per_deposit_cap |-> 0, per_withdrawal_cap |-> 0,
     rolling |-> [blocks |-> 0, cap |-> 0], max_mintable_cap |-> 0,
     throttled |-> FALSE, served |-> NoLimits]

\* A signer's block observer takes the limits over.  "throttled" and "served"
\* are ghosts.
update_sbtc_limits ==
    \E unanswered \in SUBSET Anchors :
    LET limit == get_limits(unanswered).global IN
    /\ signer' =
         [per_deposit_minimum |-> OrElse(limit.per_deposit_minimum, 0),
          per_deposit_cap |-> OrElse(limit.per_deposit_cap, Unlimited),
          per_withdrawal_cap |-> OrElse(limit.per_withdrawal_cap, Unlimited),
          rolling |-> rolling_withdrawal_limits(WindowOf(limit), limit.rolling_withdrawal_cap),
          max_mintable_cap |-> max_mintable(limit, lworld.supply),
          throttled |-> inForce > 0, served |-> limit]
    /\ UNCHANGED << lworld, now, limits, keys, calls, inForce, touched, revoked, raced >>

----------------------------------------------------------------------------

Tick ==
    /\ now < MaxTime
    /\ now' = now + 1
    /\ UNCHANGED << lworld, limits, keys, calls, signer, inForce, touched, revoked, raced >>

Init ==
    /\ lworld \in Worlds
    /\ now = 1
    /\ limits = {}
    /\ keys = { ThrottleKeyEntry(h, 0, TRUE) : h \in lworld.keys }
    /\ calls = [c \in Calls |-> Idle]
    /\ signer = zero
    /\ inForce = 0
    /\ touched = {}
    /\ revoked = {}
    /\ raced = {}

CallStep(c) ==
    \/ set_limits(c) \/ set_limits_for_account(c)
    \/ PutGlobal(c) \/ StampAccounts(c) \/ set_limit_for_account(c)
    \/ start_throttle(c) \/ SetThrottleLimits(c)
    \/ add_throttle_key(c) \/ LookupKey(c) \/ PutKey(c)
    \/ FindKey(c) \/ set_throttle_key_activity(c)
    \/ Fails(c)

Next ==
    \/ \E c \in DOMAIN lworld.ops : CallStep(c)
    \/ update_sbtc_limits
    \/ Tick

Spec == Init /\ [][Next]_lvars

----------------------------------------------------------------------------
(* Properties *)

\* A limit is at least as tight as another: None is no limit.
NoLooserCap(cap, than) == OrElse(cap, Unlimited) <= OrElse(than, Unlimited)

\* After start_throttle has put its limits, Emily serves limits no looser than
\* the ones of the throttle mode until an operator sets others, and a signer
\* that refreshes in that time works with them; whatever else is put meanwhile
\* under an older second does not count.
ThrottleHolds ==
    /\ inForce > 0 =>
         LET limit == get_limits({}).global IN
         /\ NoLooserCap(limit.per_withdrawal_cap, THROTTLE_MODE_PER_WITHDRAWAL_CAP)
         /\ OrElse(limit.rolling_withdrawal_blocks, 0) >= THROTTLE_MODE_ROLLING_WINDOW
         /\ NoLooserCap(limit.rolling_withdrawal_cap, THROTTLE_MODE_ROLLING_CAP)
    /\ signer.throttled =>
         /\ signer.per_withdrawal_cap <= THROTTLE_MODE_PER_WITHDRAWAL_CAP
         /\ signer.rolling.blocks >= Min({MaxBlocks, THROTTLE_MODE_ROLLING_WINDOW})
         /\ signer.rolling.cap <= THROTTLE_MODE_ROLLING_CAP

\* A start_throttle during which nobody else wrote limits tightens what the
\* limits were and changes nothing else: the limits of deposits and of the
\* accounts, which it puts again one by one, are served as before.
TightensAlone(c) ==
    LET before == calls[c].read
        after == get_limits({})'
    IN  (/\ calls[c].op = "throttle"
         /\ calls[c].pc \in {"put_global", "put_account"}
         /\ calls'[c].pc = "done"
         /\ limits' # limits
         /\ c \notin touched) =>
           /\ NoLooserCap(after.global.per_withdrawal_cap, before.global.per_withdrawal_cap)
           /\ NoLooserCap(after.global.rolling_withdrawal_cap,
                          before.global.rolling_withdrawal_cap)
           /\ OrElse(after.global.rolling_withdrawal_blocks, 0)
                >= OrElse(before.global.rolling_withdrawal_blocks, 0)
           /\ after.global.peg_cap = before.global.peg_cap
           /\ after.global.per_deposit_minimum = before.global.per_deposit_minimum
           /\ after.global.per_deposit_cap = before.global.per_deposit_cap
           /\ after.account_caps = before.account_caps

\* When the window or its cap is missing, because the global account was set
\* without validation or by the environment, no signer accepts a withdrawal.
HalfSetMeansNone ==
    (signer.served.rolling_withdrawal_blocks = None)
        # (signer.served.rolling_withdrawal_cap = None) => signer.rolling.cap = 0

\* A hash has one entry in the throttle table, so that its key can be used and
\* revoked, unless two calls added it together or the lookup failed.
OneEntryPerKey ==
    \A h \in Hashes \ raced : Cardinality(KeysOf(h)) <= 1

\* A key that was deactivated cannot start the throttle mode, unless the key
\* was added by two calls together.
RevokedStaysRevoked ==
    \A h \in revoked \ raced : ~verify_throttle_key(h)

\* What Emily reports as available never exceeds what the cap leaves over
\* after the withdrawals that have not failed and were requested in blocks of
\* the window, whichever queries fail while the window is computed.  The one
\* thing that failed queries can hide is what was requested before the first
\* block of the window whose query was answered.
AvailableIsCovered ==
    \A unanswered \in SUBSET Anchors :
        LET served == get_limits(unanswered)
            limit == served.global
            books == lworld.books
            answered == { b \in Anchors \ unanswered :
                            b > books.tip - limit.rolling_withdrawal_blocks }
            inWindow == { w \in books.withdrawals :
                            /\ w.status # "failed"
                            /\ \E b \in answered : books.chain[w.created] >= b }
        IN  served.available_to_withdraw # None =>
              served.available_to_withdraw
                <= Saturating(limit.rolling_withdrawal_cap
                              - MapThenSumSet(LAMBDA w : w.amount, inWindow))

\* What limits withdrawals stays in force until the one who may lift it does,
\* through racing calls and failed lookups.
LimitsHold ==
    /\ ThrottleHolds /\ HalfSetMeansNone /\ AvailableIsCovered
    /\ OneEntryPerKey /\ RevokedStaysRevoked
=============================================================================
