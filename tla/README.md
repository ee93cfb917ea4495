# sBTC: TLA+ models and proofs

sBTC is a two-way peg between Bitcoin and Stacks. Users lock BTC in an output
that the signers can spend (a deposit); the signers sweep it into their UTXO and
mint sBTC on Stacks. A user who wants BTC back locks sBTC in a withdrawal
request; the signers pay it from their UTXO in a sweep transaction and burn the
locked sBTC, or reject the request and unlock it. The signers hold one aggregate
key, made by distributed key generation (DKG) and registered on Stacks.

## Parts of the system and how they interact

| Part | Modules | Proofs |
|---|---|---|
| Smart contracts (contracts/contracts) | SbtcContracts | SbtcContractsProofs |
| Deposits, from the vote to the mint | DepositSweeps | DepositSweepsProofs |
| Withdrawals, from the request to the payment or the rejection | WithdrawalSweeps | WithdrawalSweepsInvariant, WithdrawalSweepsProofs |
| Packages of sweeps: building, fees, validation | SweepPackage, SweepValidation, Idpack, SequenceFolds | |
| DKG and key rotation across tenures | KeyRotation | KeyAndSwarmProofs |
| One DKG round | DkgRound, DkgRounds | DkgProofs |
| One verification round | DkgVerification, UnanimousRound | DkgProofs |
| Signing rounds of a sweep | SigningRound | SignerProofs |
| Stacks transactions of a tenure, wallet | Tenure | TenureProofs |
| Contract calls and registry events | ContractCalls, RegistryEvents | |
| Block observer, webhook, poller | BlockObserver | |
| Postgres and the in-memory store | SignerDb, SignerDbReads, MemoryStore, MemoryTransactions | |
| Event loops, signalling, shutdown | SignerRuntime | |
| libp2p swarm | P2pSwarm | KeyAndSwarmProofs |
| Clients of nodes and of Emily | FallbackClient | SignerProofs |
| Messages between signers | Messages | |
| Emily: entries and chain; limits and throttle | Emily, EmilyLimits | |

Per Bitcoin block, every signer's block observer reads the chain, updates its
tables and its cached view of the registry. The request decider votes on new
requests and sends its votes to the other signers. The coordinator of that block
runs a tenure: DKG if due, verification and rotation of the key, sweeps, and the
Stacks calls that report sweeps or reject requests. Each other signer validates
what it is asked to sign against its own tables. Emily stores requests for users
and signers and the limits for the signers. What makes this hard: tips that move
in the middle of a tenure, lost messages, processes that fail between two writes,
and Bitcoin reorgs, which also take Stacks back.

## Modules

**SbtcContracts.** The five Clarity contracts. `st` is the committed state (data
variables and maps of sbtc-registry, the two fungible tokens of sbtc-token), `tx`
a batch in progress, `history` the states a Bitcoin reorg can return Stacks to. A
public function is a pair of operators, `FooOk` for its asserts and `Foo` for its
writes. `RequestsBacked` and `SupplyBacked` sum over users and records.

**WithdrawalSweeps.** `chain` is the sequence of block states of the canonical
chain; `txs` the sweeps that were ever proposed; `sighashes` and `outputs` the two
tables that a signer writes in `handle_bitcoin_pre_sign_request`, one after the
other, so that it can have the first row without the second; `world` the faults
that the behaviour may meet. `is_withdrawal_inflight` and `is_withdrawal_active`
are the queries that a rejection depends on. Every signer accepts every request,
and amounts, fees and limits are left out (SweepPackage and SweepValidation have
them); a signer on another tip is one that misses the proposal; a signed sweep
can be mined at any later time while its input is unspent. Over a sweep of which
a signer has no row, `is_withdrawal_inflight` cannot link a payment to the
signers' UTXO, so no world has both lost proposals and reorgs: there
`RejectsOnlyTheUnpayable` fails. (In a chain of three sweeps, a signer that missed
the second one has the third; a reorg takes the first two out of the chain; the
first is mined again and buried, and the signer takes it for the conflict that
makes the third impossible.) `PaidOrRejected` says that no rejected request is
paid without reorgs, nor with them by a sweep that spent a confirmed output when
it was proposed; for the others (`AheadOfItsInput`) the run sweeps_package shows
what a reorg of one block can do.

**DepositSweeps.** Every signer has a database (SignerDb), on which the queries of
SignerDbReads run; packages and their validation are those of SweepValidation.
Bitcoin and Stacks are external: a tree of blocks, one mempool per node, and a
contract that executes submitted calls. Worlds choose which votes are lost or
late, who is on a blocklist, which tenures are cut short, and where the chain
forks. A signer that once stored `will_sign = FALSE` for a sighash keeps the row
(`ON CONFLICT DO NOTHING`, write.rs:818), so it refuses the same sweep for good;
`Refused` names this exception.

**SweepPackage, SweepValidation, Idpack.** From pending requests to transactions
and back to a signer's judgement of them, and the codec for the withdrawal ids in
the OP_RETURN output. Sizes are the real ones, in weight units.
`decode_bitmap` adds without a check near `u64::MAX` (decoder.rs:188, where the
comment at :169 expects an error); builds with overflow checks panic there.
SequenceFolds has the few operators of SequencesExt that these modules use: in the
scope of the whole library the prover is too slow for the proofs about deposits.

**KeyRotation.** A key is named by the tip its DKG round started at.
`shares[s][k]` is the status of a row of `dkg_shares`, `info[s]` the cached
registry key, and per tenure `seen`, `key` and `last_dkg` are the values that the
coordinator read and holds on to while the block observers move on. A round is
one joint step (`DkgBegin`, `VerificationBegin`) and then one step per signer that
completes it; lost messages are steps never taken. A tenure whose tip all signers
have left cannot sweep: its last answer comes from a signer still at the tip.

**DkgRound.** One DKG round, message by message. A polynomial is a number: public
shares name it, private shares fit them if they carry the same number. `log`
holds what was published and `seen[s]` what has arrived, so a message can
overtake any other; gossipsub delivers the same bytes once. `Restart` empties a
signer's memory but not its tables; the coordinator's restart begins anew.
DkgRounds puts this round and the verification side by side.

**DkgVerification, UnanimousRound.** The round that signs a mock transaction with
a new key. Every signer follows it in a FROST coordinator of its own behind a
queue that holds back messages that come too early (dkg/verification.rs). `Turn`
is one turn of the loop over the queue. UnanimousRound is the abstract
specification: a signer finishes only after all have joined. KeyRotation takes
the round in these steps.

**SigningRound.** The FIRE rounds that sign the inputs of a tenure's sweeps one
after the other. `rows[s][i]` is what `bitcoin_tx_sighashes` of s says of sighash
i. A signature is valid if its shares are over the same message and nonces and
each uses the nonce that its signer sent. The sign id depends on the sighash and
the block only, so after a restart the messages of two attempts cannot be told
apart.

**Tenure.** The coordinator deploys the contracts or answers swept requests, one
Stacks transaction after the other, each with a nonce of the signers' wallet. The
node is external: it keeps one transaction per nonce, replaces it by one with a
higher fee, accepts the same one again, and refuses a nonce below the account's
(`BadNonce`) or one that is taken (`ConflictingNonceInMempool`). Stacks reorgs and
eviction from the mempool are not modelled. When an answer of the node is lost
and the transaction mined, the later transactions of this tenure fail with
BadNonce; the next tenure does them. Blocks are numbered anew once all work is
done, so that a behaviour has any number of tenures in finitely many states.

**ContractCalls, RegistryEvents.** What a coordinator constructs, what a signer
requires of it, the Clarity arguments, the print events and the rows that they
become. All requests of a sweep weigh the same. Noted while modelling: the key
count of the multisig script is right for up to 16 keys only; events.rs calls the
status "one of four values"; the doc of the accept event says "bitcoin-index"
where the contract prints "output-index".

**BlockObserver, SignerDb, SignerDbReads, MemoryStore, MemoryTransactions.** `db`
is Postgres and `mem` an in-memory store that gets the same calls. A step is one
committed write; a call to a node, to Emily or to the database may fail, and the
process may crash between any two. A query is an operator from a database to a set of
rows; where the SQL says LIMIT 1 without an order it is the set of rows that
Postgres may return. `write_withdrawal_tx_output` of the in-memory store is
`unimplemented!()` (memory/write.rs:278): the call panics, its transaction is
dropped, and `StoresAgree` is about the store until then (`panicked`).
MemoryTransactions is the versioned clone and commit, with clients that write in
transactions and beside them. `update_peer_connection` does not count in the
version (memory/write.rs:361), so a commit can undo a peer that was written while
the transaction was open; `CommitsLoseNothing` compares the whole store and
excepts exactly such peers (`exposed`).

**SignerRuntime.** The components that `main` joins, the broadcast channel, the
filtered streams, the outbox of the p2p loop and the termination watch. What is
broadcast before the p2p loop subscribes is lost; a termination handle created
after `signal_shutdown` never fires (termination.rs:53), which can only concern
the API server and the p2p loop (`armed`). A stream keeps up unless the channel
is full.

**P2pSwarm.** The bootstrap behaviour, the connections and their limits, and the
event loop; libp2p itself is external. The bootstrap counts a connection that
`connection_limits` denies afterwards; the ghost variable `denied` excepts it.
`Picked` takes the entries of a sequence that a filter of the code keeps.

**FallbackClient.** ApiFallbackClient over several endpoints, called by tasks that
share one index. `retry_count` is the smaller of the default minimum and the
number of clients, which makes the documented minimum a maximum; two tasks that
move the index can give up without having asked the endpoint that is up
(util.rs:229, against util.rs:79), so `FailureMeansAllTried` is about calls whose
index nobody else moved. A node that is behind answers a map entry with 404,
which is an error that does not move the index; get_contract_source asks the
current endpoint only; estimate_fees hides the errors of the node.

**Messages.** Conversions of every message to protobuf and back and the signature
over the bytes as received. Two equal hash maps may be encoded in different
orders, so only the received bytes may be verified.

**Emily.** The handlers are lambdas that share nothing but DynamoDB tables.
`call[p]` is a call in progress with what it has read so far, and every call of
the store is a step. The node processes a new block on any branch or goes back to
a block of another one. It posts a block until it is answered with success, and may
give up waiting and post again, or go on, while the first call runs. Any call of the
store may fail, and a call may end at any step at the lambda's limit of five
seconds (`CallEnds`); an update for an event of the block that fails is logged and
the block answered with success all the same (`EventFails`). Ghost variables record
what the properties except, each at the place in the code that allows it:

* `stale`: an update was recorded with a chain tip that a reorg had abandoned
  meanwhile;
* `deep`: a fork too deep to be followed;
* `replaced`: an entry that a repeated create put over the old one (with version 0,
  so that a write of an older version can pass: accessors.rs:309, against the
  comment at :477);
* `astray`: tips from which the API went to a block whose parent is not on their
  chain. `set_api_state` and the claim of a reorg only move the tip
  (accessors.rs:643, :674), so that events of the branch that is left may stay;
* `forgotten`: blocks whose event was rolled back, and that came back into the chain
  below a later block, or whose event failed to be recorded;
* `dropped`: a call that ended between the claim of a reorg and its end. The API
  then stays in Reorg: the repeated post finds the reorg claimed, "so there's no
  action required" (internal.rs:26-35), and is answered with success;
* `overtaken`: a call that the node gave up was still running when the node posted
  a later block, and can take the API back to its own.

One event per block and one Stacks block per Bitcoin block; indexes are up to date;
conflicts are fewer than the retries.

**EmilyLimits.** Limits, throttle keys and the throttle mode, again one store call
at a time. A throttle that races an operator's update can loosen what the
operator tightened (`touched`), and "DynamoDB should only contain one entry per
key name" (error.rs:194) fails when two adds race (`raced`); the properties except
both. The start of the withdrawal window is searched with one query per Bitcoin
block, and a query that fails is passed over like a block without Stacks blocks
(accessors.rs:802), so that the window starts late and room is reported that was
taken. The set of failing queries is chosen freely; `AvailableIsCovered` says that
only what was requested before the first block whose query was answered is hidden.
`is_empty` looks at fewer fields than its doc says. Clock skew is not modelled.

## Runs

A composite MC module extends the modules of two parts that share no state: the
variable `part` says which of the two a behaviour is about, and a property of one
part says nothing of the other. So a run and a theorem are about the same
definitions. MCAlgorithms, MCMessages and MCContractCalls enumerate inputs of pure
operators; a behaviour picks an input and computes its output.

| Run | Module | Expect | Properties |
|---|---|---|---|
| peg | MCPeg | pass | contracts: `SbtcIsBacked`, `RegistryConsistent`, `DecisionsAreFinal`; deposits: `SweepsHaveConsent`, `MintsAreSwept`, `MintsAreBacked`, `AcceptedDepositsAreMinted`, `SweptInTime` |
| sweeps | MCWithdrawalSweeps | pass | withdrawals: `PaymentsMatchDecisions`, `RejectsOnlyTheUnpayable`; keys: `RegistryKeyIsUsable`, `SweepsUseRegistryKeys`, `OnePendingRound` |
| sweeps_package | MCWithdrawalSweeps | violation | `NeverPaidAndRejected` |
| key_stuck | MCWithdrawalSweeps | violation | `ResumesDkg` |
| dkg | MCDkg | pass | verification: `VerifiedIsSigned`, `RoundSpec`; DKG: `SameKey`; both: `NoMessageLost`, `RoundsComplete` |
| signing | MCSigning | pass | rounds: `NonceUsedOnce`, `SignsTheInput`, `AllSigned`; algorithms: `IdsAreCarried`, `PackagesAreSigned`, `MessagesAndCallsAreCarried` |
| short_version | MCAlgorithms | violation | `ShortVersionsAreRecorded` |
| emily | MCEmily | pass | entries: `EntriesFollowTheChain`, `ReorgEnds`; limits: `LimitsHold`; both: `LesserKeysOnlyRestrict` |
| emily_forks | MCEmily | violation | `ServesCanonicalWithdrawal` |
| storage | MCStorage | pass | `ChainIsStored`, `AnswersFollowTheChain`, `MemoryStoreIsFaithful`, `BestBlockAnnounced` |
| signer | MCSigner | pass | event loops: `SignalsKeepOrder`, `ComponentsMoveOn`; swarm: `ConnectionsAreTracked`, `OnlySignersStay` |
| tenure | MCTenure | pass | tenures: `TransactionsInOrder`, `OncePerTenure`; clients: `ClientsAnswerTruly`; both: `WorkGetsDone` |

What they show, in short. **peg**: with batches, a rotation, an upgrade and forks,
locked tokens are what pending requests put aside and the supply is backed;
deposits are swept with the consent of a quorum, in time, and minted once for what
was swept. **sweeps**: no request is paid twice, paid without existing, or rejected
while a signed sweep can pay it; rotations go to keys that all signers hold.
**dkg**: messages in any order, a restart, a coordinator that gives up. **signing**:
late nonces, refusals and a restart; and every enumerated package, id list, message
and call survives its way from one signer to another. **emily**: handlers
interleaved at every store call, failing calls and branches that the node leaves and
comes back to. **storage**: crashes and failures between any two writes; what is
stored is a chain without holes, the two stores agree, and commits that race lose
no acknowledged write but those of peers.
**signer**: a channel of one place, lagging receivers, shutdown; connections that
open, close and are denied. **tenure**: lost answers, timeouts, restarts and blocks
in the middle of a tenure.

Bounds. The contracts have two users, amounts 0 and 1, two outputs and requests,
batches of two and one fork; deposits three signers of which two must agree, two
deposits and a fork of the chain that has the sweep. Withdrawals use two
confirmations, an expiry of four blocks and a buffer of one instead of 6, 24 and 6,
keeping their order, so that a request matures, expires and is rejected within nine
blocks; reorgs are at most as deep as the required confirmations, which is what the
code defends against. A behaviour of several modules runs in one of its `Worlds`
(or `Budgets`), each with its own faults and bounds, so that one run covers several
kinds of trouble without their product. Key rotation has two signers, one of whom is
a quorum without the other, and three blocks: DKG, expiry of its window, and a second
DKG. DKG has two signers, the fewest with which messages of a peer and of the
coordinator overtake each other and a restart meets both; verification has three.
Signing has three with a threshold of two, so that one is in excess of the quorum
and its nonces come late. Emily has up to four moves of the node after the first
block, up to two of them to another branch, so that it can come back to the one it
left, and NO_REORG_DEPTH of 1, so that there are forks that are followed and one that
is too deep; at most one failure, which can strike at any call of the store. The
throttle mode has a window of two blocks. The block observer has a fork of six
blocks, two sweeps in one block, and a chain of sweeps that both branches confirm.
The in-memory store has two clients, whose transactions make up to two writes of
three kinds of rows. The event loops have one to three blocks. A tenure has
two signers, two contracts, two requests and one fault at a time. Larger instances
were checked once: tenures with three signers of which two sign (15.3 million
states) and with two faults (5.2 million), clients whose endpoints change twice
(7.5 million), keys over four blocks (1.7 million), reorgs with packages over eight
blocks (0.6 million), Emily with five blocks and three forks, and with four blocks,
two forks, a repeated post and a failure (0.9 million), and the shutdown of the event
loops over two blocks (4.6 million), where streams are stuck on a full channel when
the shutdown is signalled; with the one block of the run they are not.

Deadlock is checked in peg, signer and tenure. In the others rounds end and chains
are bounded, so a state without a successor is the end of the work.

Fairness. Safety properties assume none. `RoundsComplete` and `AllSigned` assume
weak fairness of every event loop: tokio keeps polling each of them, and a message
that was not lost is delivered. A timeout, a restart or a new tip is never required
to happen, and each property says which of them excuses it. `ReorgEnds` assumes
that a call of new_block under way takes its next step or ends, which the lambda's
time limit guarantees; a call that ends during a reorg excuses it. `BestBlockAnnounced` assumes that
the poller, the observer and the webhook keep running. `OnlySignersStay` assumes
that the swarm is polled (every 5 ms), that time passes and that a dial ends, by its
timeout if need be. `WorkGetsDone` assumes that signers and coordinators go on, that
the node mines what waits, and that a call to an endpoint returns; faults are
finitely many. `AcceptedDepositsAreMinted` and `ComponentsMoveOn` need no fairness:
they say what must have happened when nothing is left to be done.

## Findings

* sweeps_package, `NeverPaidAndRejected`: `is_withdrawal_active` counts the
  confirmations of an ancestor of the conflicting sweep, and a one-block reorg
  leaves a request both rejected and paid (read.rs:2219, against mod.rs:420).
* key_stuck, `ResumesDkg`: one signer that verified the shares blocks the DKG that
  the others want; only a new `dkg_min_bitcoin_block_height` helps
  (transaction_coordinator.rs:2544, against the comment above it).
* emily_forks, `ServesCanonicalWithdrawal`: a reorg does not put its own block into
  the chainstate table, so the entry of the abandoned block is served
  (accessors.rs:324). When a withdrawal has entries of two forks and neither block
  is in that table, execute_reorg_handler returns an error and leaves the API in
  Reorg, like any other failure in the middle of a reorg (`dropped` above).
* short_version, `ShortVersionsAreRecorded`: the contract accepts a recipient with
  an empty version, whose event the signer cannot parse and skips (events.rs:601).

The other places where a comment and the code differ are named with their modules
above.

## Proofs

The theorems hold for every value of the constants that the named assumptions
allow, and for behaviours of any length. Each is an invariant argument: an
inductive invariant stronger than the property, one lemma per action, and a last
step that combines them. TLC checked each inductive invariant on an instance
before it was proved.

**SbtcContractsProofs** (users are finitely many; amounts, depths and batches any
natural numbers; `None` is no other value). `EverySbtcIsBacked`,
`RegistryStaysConsistent`, `TypeCorrect` and the action property
`DecisionsStayFinal`. `IInv` says that `st`, the work of a batch in progress and
every state of `history` are sound (`Consistent` and `Backed`), because a batch
commits the second and a reorg brings back the third, and that a batch only extends
the records of `st` (`Keeps`), which is what makes decisions final also across a
batch. Each call is first reduced to its effect on balances, escrow and records
(`DepositEffect`, `AcceptEffect`, ...); then the sums are shown to move together.
The module begins with the facts about sums that this needs: that
`SumFunctionOnSet` of the community modules, a fold, does not depend on the order,
and what it is after one value changes or one element is added. They rest on
well-founded induction with concrete predicates over `IsFiniteSet`.

**DepositSweepsProofs** (any finite set of signers, any positive threshold, any
tree of blocks in which a block is one higher than its parent; no two deposits have
the same outpoint; any worlds). `MintsNeedSweeps` is `MintsAreSwept`, from
`MintsInv`: a call that enough signers signed names a block that has its sweep and
an amount that they computed themselves (`CallsOK`); a mint is on top of the block
of its sweep, and no mint of the same deposit is below it (`MintsOK`). Where a
reorg abandons the block between the signatures and the execution, the contract's
check of the burn block turns the call down; two mints of one deposit on one chain
would be one above the other (`LinesAreChains`), and the upper one would have found
the lower one. The chain of a block is a recursive function, so that what is proved
of it goes through a least block of which it fails (`BlockInduction`).
`SweepsNeedConsent` is `SweepsHaveConsent`, from `ConsentInv`: a signer has one vote
per deposit, in accordance with its blocklist (`VotesOK`); whoever decides to sign
the input of a deposit has voted for it (`DecisionsOK`), because validation looks
up its own vote (`ViewsShowVotes`, `RowsNeedVotes`) whatever the coordinator
counted; and votes and decisions are never overwritten. What a package looks like
plays no part: the proof holds for every list of requests that a coordinator could
propose.

**KeyAndSwarmProofs** has two components that share no state. Key rotation
(`KeyRotationConstants`: any finite set of signers, any threshold, window and
heights): `RegistryKeyStaysUsable`,
`SweepsStayWithRegistryKeys`, `PendingRoundIsSingle`. A usable key must have been
verified by a quorum while all hold it, so the invariant says how the rows of one
signer lie (`RowsInv`), how they relate to tips and rounds (`TipsInv`), that what
one signer verifies all hold (`HeldInv`), and which key a tenure works with in each
phase, including tenures whose tip everybody has left (`TenureInv`). The swarm
(`SwarmAssumption`: any signers, strangers, seeds and bounds; nobody reaches the
local signer through a dial): `ConnectionsStayTracked` is `ConnectionsAreTracked`,
from `SwarmInv`. That the bootstrap's book agrees with the connections is inductive
only together with `IdsOK`: no two dials or connections share an id, also not with
one that waits in the queue of dials, is denied, or is closed while its event is
still to be handled. `Picked` is a recursive function; that its entries are those of
the sequence, and that it repeats none that the sequence has once (`PickedEntries`),
is proved through a least place at which it fails.

**DkgProofs** has the two rounds that make a key and try it. The round of key
generation (any signers, any number of restarts): `OneKeyPerRound`, from `KInv`:
the generator of a polynomial is seeded with the block (`create_rng`), so whatever
is published, held or stored in the round is of one polynomial per signer; and
`NoEndIsIgnored`, from `EInv`, for rounds without restarts. The round that verifies
the key (finitely many signers, at least one): `VerifiedRoundsAreSigned`,
`NoMessageRefused` and the refinement `RoundIsUnanimous`. `VInv` follows the
signature shares: what a signer's FROST coordinator has counted or queued are
shares that were sent to it, so it succeeds only with all of them, and by then none
is on its way. `NoMessageIsLost` puts the two together: it is `NoMessageLost`,
for a behaviour of both rounds. For the refinement every step of a signer or the coordinator is a
step of UnanimousRound or leaves `joined` and `done` alone; the fairness of the
round is not part of `RoundSpec`.

**SignerProofs** has the signing rounds and the clients. The rounds
(`SigningConstants`): `NoncesAreUsedOnce` and `InputsAreSigned`, from `RoundInv`: a nonce that waits in a machine was drawn
for this machine only and has not been used, and nonces that the coordinator holds
for a sighash are from signers that sign it. The clients (`CountsAssumption`, any
number of endpoints, at least one, and of retries; `DepositAssumption`, deposits are
numbered from one; any number of tasks): `ClientsTellTheTruth` is
`ClientsAnswerTruly`, from `ClientsInv`. A call whose index nobody else moved has
been refused by as many endpoints as it made attempts, one after the other around
the ring (`RingOK`), so that it has been to all of them when it gives up, if the
attempts are as many as the endpoints. A deposit that was pending or accepted all along is in the pages
read so far, or was accepted after the pending ones had passed it and is still to
be read with the accepted ones (`PagesOK`); this needs `get_deposits` to ask for
the pending ones first.

**TenureProofs** (`TenureConstants`; contracts are a sequence without repetition).
`NonceGapFree`, from `NonceInv`: no wallet is ahead of the mempool but for the
transaction at hand. `SignedOnce`, from `OnceInv`: a signer that did not restart
remembers what it signed for its tip, and so no two transactions for one job get
its signature. `MinedInOrder`, from `OrderInv`: while contracts are missing, all
coordinators walk the same list, and what one submits for a nonce that waits in
the mempool already is the same contract again.

**WithdrawalSweepsInvariant, WithdrawalSweepsProofs** (any finite set of signers and
a threshold of which two meet, `SignersAssumption`; any bounds, `BoundsAssumption`;
and `ReorgsAssumption`: no reorg is deeper than the confirmations that a sweep
waits for, and a request expires no earlier than that). `SweepsMatchDecisions`
is `PaymentsMatchDecisions` in every state; `QuorumsRejectTheUnpayable` is
`RejectsOnlyTheUnpayable`, under the further hypothesis that no world has both
reorgs and lost proposals, without which it does not hold (see WithdrawalSweeps
above). Neither property is inductive, because a reorg takes back blocks that the
signers have acted upon. The invariant `IInv` of `SweepsInvariant` therefore says
what is out of its reach, counting from `FinalHeight`, the height that the chain has
once the fork is complete: a request that a sweep pays is `Settled` under the
confirmations it waited for, a rejected one under its expiry, and a signed sweep
that pays a rejected request is `Conflicted`, another sweep being confirmed after
some signer recorded it and buried just as deep. `Grows` is what every step keeps,
a reorg included, and `SettledStays` and `ConflictedStays` follow from it. That
nothing is paid twice comes from `LinesAreLinear` and `LinesPayOnce`: the chain
confirms one line of descendants, and a package pays no number that its line has
paid. That a rejection finds the conflict comes from two quorums that meet
(`QuorumsMeet`): one holds both rows of the signed sweep (`SignedAreHeld`), the
other found it neither in flight nor active; `RowsAreLinked` says why a signer that
has the rows of a sweep also has those on the way to it. The first of the two
modules has the steps of signers and of Bitcoin, the second those of Stacks and the
proposal of a package, where the numbers and the lines grow.

Model-checked only:

* Liveness, which is out of the prover's reach: `RoundsComplete`, `AllSigned`,
  `ReorgEnds`, `BestBlockAnnounced`, `OnlySignersStay`, `WorkGetsDone`.
* Algorithms on recursive data, for which the prover has no induction:
  `IdsAreCarried`, `PackagesAreSigned`, `MessagesAndCallsAreCarried`.
* `MintsAreBacked`: it adds up shares of fees, which are rounded, over packages
  that are built by folds, so it is again about recursive data. The half of it that
  is about single mints is `MintsAreSwept`, which is proved.
* `SweptInTime` and `AcceptedDepositsAreMinted`. The decision on a sighash stays
  in the table when the tip moves, and the same sighash may be proposed again; that
  the old decision still suits the new tip depends on how the packages of
  different tips differ. The second is about what has happened once nothing is
  left to be done, and needs the whole course of a tenure.
* `EntriesFollowTheChain`, `LimitsHold`, `LesserKeysOnlyRestrict` (Emily);
  `ChainIsStored`, `AnswersFollowTheChain`, `MemoryStoreIsFaithful` (the stores);
  `SignalsKeepOrder`, `ComponentsMoveOn` (event loops). No proof was attempted.

## Not modelled

The cryptography of WSTS (arithmetic on curve points), the parsing of Bitcoin
scripts and of settings, the DKG of the FROST coordinator (unused), the blocklist
service, metrics, generated clients and deployment; the lists of Emily and the
choice of deposits in its cron job; votes on withdrawals. PROJECT.json lists all
parts and what of each is covered.
