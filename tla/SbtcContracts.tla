--------------------------- MODULE SbtcContracts ---------------------------
(***************************************************************************)
(* The sBTC smart contracts on Stacks: sbtc-registry (the protocol state), *)
(* sbtc-token (the fungible token and its locked twin), sbtc-deposit,      *)
(* sbtc-withdrawal and sbtc-bootstrap-signers.                             *)
(*                                                                         *)
(* A public function is a pair of operators on the contract state s: its   *)
(* asserts (FooOk) and its writes (Foo).  A Clarity transaction whose call *)
(* returns an error is rolled back, so a call whose asserts fail changes   *)
(* nothing.  The batch functions fold over a list, and each item sees the  *)
(* writes of the items before it; a batch in progress is held in tx, works *)
(* on a copy of the state, and is committed only when every item passed.   *)
(*                                                                         *)
(* The Stacks chain follows Bitcoin forks: history holds the contract      *)
(* state as it was when each Bitcoin block arrived, and a reorg returns to *)
(* one of these.  A Bitcoin block hash commits to all of its ancestors, so *)
(* a hash is the path of fork choices from the genesis block.              *)
(***************************************************************************)
EXTENDS Integers, Sequences, FiniteSets, Functions

CONSTANTS
    Users,          \* principals that are neither signers nor contracts
    Deployer,       \* the principal that deployed the contracts
    Contracts,      \* contract principals, the three below included
    Upgrades,       \* contracts that an update of a protocol contract may name
    SignerKeys,     \* public keys of signers
    AggregateKeys,  \* aggregate public keys
    Txids,          \* values of type (buff 32), of any length
    FullTxids,      \* those whose length is 32
    Forks,          \* the choices for the next Bitcoin block at a fork
    Versions,       \* address versions a recipient may carry
    Amounts,        \* sats, for deposits, withdrawals, fees and transfers
    DUST_LIMIT,
    MaxSigners,     \* bound: keys of a signer set
    MaxOutputs,     \* bound: vout-index is below it
    MaxRequests,    \* bound: withdrawal requests created
    MaxHeight,      \* bound: Bitcoin blocks on a fork
    MaxBatch        \* bound: items of a batch call

CONSTANTS
    BootstrapSigners, SbtcDeposit, SbtcWithdrawal,
    None            \* the value of a Clarity optional that holds nothing

ASSUME ContractsAssumption ==
    /\ Upgrades \subseteq Contracts
    /\ {BootstrapSigners, SbtcDeposit, SbtcWithdrawal} \subseteq Contracts
    /\ BootstrapSigners # SbtcDeposit
    /\ BootstrapSigners # SbtcWithdrawal
    /\ SbtcDeposit # SbtcWithdrawal

ASSUME UsersAssumption == IsFiniteSet(Users)

ASSUME NumbersAssumption ==
    /\ DUST_LIMIT \in Nat
    /\ Amounts \subseteq Nat
    /\ MaxSigners \in Nat
    /\ MaxOutputs \in Nat
    /\ MaxRequests \in Nat
    /\ MaxHeight \in Nat
    /\ MaxBatch \in Nat
    /\ FullTxids \subseteq Txids

VARIABLES
    st,       \* the committed contract state
    tx,       \* the batch transaction in progress, or NoTx
    history   \* history[h]: st just before the Bitcoin block of height h

vars == <<st, tx, history>>

-----------------------------------------------------------------------------
(* Data.                                                                   *)

GovernanceRole == "governance"
DepositRole == "deposit"
WithdrawalRole == "withdrawal"
Roles == {GovernanceRole, DepositRole, WithdrawalRole}

Outpoints == [txid : Txids, vout : 0 .. MaxOutputs - 1]

\* A version byte and the length of the hash bytes.
Recipients == [version : Versions, len : {20, 32}]

RequestIds == 1 .. MaxRequests

NoTx == [kind |-> "none"]

\* The hash of a Bitcoin block is its path from the genesis block.
BlockHashes == Seq(Forks)

\* A Clarity map has None where it has no entry; map-insert leaves an existing
\* entry alone.
MapInsert(m, k, v) == IF m[k] = None THEN [m EXCEPT ![k] = v] ELSE m
Keys(m) == {k \in DOMAIN m : m[k] # None}

-----------------------------------------------------------------------------
(* sbtc-registry.                                                          *)

IsProtocolCaller(s, role, contract) ==
    /\ s.activeProtocolContracts[role] = contract
    /\ s.activeProtocolRoles[contract] = role

\* get-withdrawal-request has status none.
IsPending(s, id) == s.withdrawalStatus[id] = None

\* Mutant: the number of the last request is used again if it was rejected.
CreateWithdrawalOverRejected(s, amount, maxFee, sender, recipient) ==
    LET last == s.lastWithdrawalRequestId
        id   == IF last > 0 /\ s.withdrawalStatus[last] = "rejected"
                THEN last ELSE last + 1
    IN
    [s EXCEPT
        !.lastWithdrawalRequestId = id,
        !.withdrawalStatus[id] = None,
        !.withdrawalRequests[id] =
            [amount |-> amount, maxFee |-> maxFee, sender |-> sender,
             recipient |-> recipient, height |-> Len(s.burnChain)]]

RegistryCreateWithdrawal(s, amount, maxFee, sender, recipient) ==
    LET id == s.lastWithdrawalRequestId + 1 IN
    [s EXCEPT
        !.lastWithdrawalRequestId = id,
        !.withdrawalRequests = MapInsert(@, id,
            [amount |-> amount, maxFee |-> maxFee, sender |-> sender,
             recipient |-> recipient, height |-> Len(s.burnChain)])]

RegistryAcceptWithdrawal(s, id, burnHash, burnHeight, sweepTxid) ==
    [s EXCEPT
        !.withdrawalStatus = MapInsert(@, id, "accepted"),
        !.completedWithdrawalSweep = MapInsert(@, id,
            [sweepTxid |-> sweepTxid, burnHash |-> burnHash,
             burnHeight |-> burnHeight])]

RegistryRejectWithdrawal(s, id) ==
    [s EXCEPT !.withdrawalStatus = MapInsert(@, id, "rejected")]

RegistryCompleteDeposit(s, d) ==
    [s EXCEPT
        !.depositStatus = @ \cup {d.outpoint},
        !.completedDeposits = MapInsert(@, d.outpoint,
            [amount |-> d.amount, recipient |-> d.recipient,
             sweepTxid |-> d.sweepTxid, burnHash |-> d.burnHash,
             burnHeight |-> d.burnHeight])]

RegistryRotateKeys(s, keys, principal, aggregateKey, threshold) ==
    [s EXCEPT
        !.aggregatePubkeys = @ \cup {aggregateKey},
        !.currentSignerSet = keys,
        !.currentSignerPrincipal = principal,
        !.currentSignatureThreshold = threshold,
        !.currentAggregatePubkey = aggregateKey]

\* The role entry of the contract that is replaced stays behind.
RegistryUpdateProtocolContract(s, role, contract) ==
    [s EXCEPT
        !.activeProtocolContracts[role] = contract,
        !.activeProtocolRoles[contract] = role]

-----------------------------------------------------------------------------
(* sbtc-token.  ft-mint?, ft-burn? and ft-transfer? refuse an amount of 0, *)
(* ft-burn? and ft-transfer? refuse more than the balance.                 *)

ProtocolLock(s, amount, owner) ==
    [s EXCEPT !.balance = [s.balance EXCEPT ![owner] = @ - amount],
              !.locked = [s.locked EXCEPT ![owner] = @ + amount]]

ProtocolUnlock(s, amount, owner) ==
    [s EXCEPT !.balance = [s.balance EXCEPT ![owner] = @ + amount],
              !.locked = [s.locked EXCEPT ![owner] = @ - amount]]

ProtocolMint(s, amount, owner) ==
    [s EXCEPT !.balance = [s.balance EXCEPT ![owner] = @ + amount]]

ProtocolBurnLocked(s, amount, owner) ==
    [s EXCEPT !.locked = [s.locked EXCEPT ![owner] = @ - amount]]

TransferOk(s, t) ==
    /\ t.caller = t.sender
    /\ t.sender # t.to
    /\ t.amount > 0
    /\ t.amount <= s.balance[t.sender]

Transfer(s, t) ==
    [s EXCEPT !.balance = [s.balance EXCEPT ![t.sender] = @ - t.amount,
                                            ![t.to] = @ + t.amount]]

-----------------------------------------------------------------------------
(* sbtc-deposit.                                                           *)

\* get-burn-header: the hash at a height of the fork Stacks is on.
GetBurnHeader(s, height) == SubSeq(s.burnChain, 1, height)

\* Mutant: a known height is enough, whatever its hash.
BurnHashOkByHeight(s, hash, height) == height \in 1 .. Len(s.burnChain)

BurnHashOk(s, hash, height) ==
    /\ height \in 1 .. Len(s.burnChain)
    /\ hash = GetBurnHeader(s, height)

CompleteDepositOk(s, d) ==
    /\ s.currentSignerPrincipal = d.caller
    /\ d.amount >= DUST_LIMIT
    /\ d.outpoint.txid \in FullTxids
    /\ d.sweepTxid \in FullTxids
    /\ d.outpoint \notin s.depositStatus
    /\ BurnHashOk(s, d.burnHash, d.burnHeight)
    /\ IsProtocolCaller(s, DepositRole, SbtcDeposit)
    /\ d.amount > 0

CompleteDeposit(s, d) ==
    RegistryCompleteDeposit(ProtocolMint(s, d.amount, d.recipient), d)

-----------------------------------------------------------------------------
(* sbtc-withdrawal.                                                        *)

ValidateRecipient(r) ==
    /\ r.version <= 6
    /\ r.len = IF r.version <= 4 THEN 20 ELSE 32

InitiateWithdrawalOk(s, w) ==
    /\ IsProtocolCaller(s, WithdrawalRole, SbtcWithdrawal)
    /\ w.amount + w.maxFee > 0
    /\ w.amount + w.maxFee <= s.balance[w.caller]
    /\ w.amount > DUST_LIMIT
    /\ ValidateRecipient(w.recipient)

InitiateWithdrawal(s, w) ==
    RegistryCreateWithdrawal(ProtocolLock(s, w.amount + w.maxFee, w.caller),
                             w.amount, w.maxFee, w.caller, w.recipient)

\* What accepting and rejecting have in common: a known request, the signers
\* as caller, no decision so far, and funds to take from the requester's
\* locked balance.
CompleteWithdrawalOk(s, c) ==
    /\ s.withdrawalRequests[c.id] # None
    /\ s.currentSignerPrincipal = c.caller
    /\ IsPending(s, c.id)
    /\ IsProtocolCaller(s, WithdrawalRole, SbtcWithdrawal)
    /\ LET r == s.withdrawalRequests[c.id] IN
       /\ r.amount + r.maxFee > 0
       /\ r.amount + r.maxFee <= s.locked[r.sender]

AcceptWithdrawalOk(s, c) ==
    /\ CompleteWithdrawalOk(s, c)
    /\ BurnHashOk(s, c.burnHash, c.burnHeight)
    /\ c.fee <= s.withdrawalRequests[c.id].maxFee

AcceptWithdrawal(s, c) ==
    LET r == s.withdrawalRequests[c.id]
        burned == ProtocolBurnLocked(s, r.amount + r.maxFee, r.sender)
        minted == IF r.maxFee - c.fee = 0 THEN burned
                  ELSE ProtocolMint(burned, r.maxFee - c.fee, r.sender)
    IN [RegistryAcceptWithdrawal(minted, c.id, c.burnHash, c.burnHeight,
                                 c.sweepTxid)
            EXCEPT !.feesPaid = MapInsert(@, c.id, c.fee)]

\* Mutant: the reserve for the fee stays locked.
RejectWithdrawalKeepsFee(s, c) ==
    LET r == s.withdrawalRequests[c.id] IN
    RegistryRejectWithdrawal(ProtocolUnlock(s, r.amount, r.sender), c.id)

RejectWithdrawal(s, c) ==
    LET r == s.withdrawalRequests[c.id] IN
    RegistryRejectWithdrawal(
        ProtocolUnlock(s, r.amount + r.maxFee, r.sender), c.id)

-----------------------------------------------------------------------------
(* sbtc-bootstrap-signers.                                                 *)

\* pubkeys-to-principal hashes the multisig script of the keys and the
\* threshold: distinct scripts have distinct principals.
PubkeysToPrincipal(keys, threshold) == <<keys, threshold>>

RotateKeysOk(s, r) ==
    /\ Len(r.keys) > 1
    /\ r.threshold > Len(r.keys) \div 2
    /\ r.threshold <= Len(r.keys)
    /\ s.currentSignerPrincipal = r.caller
    /\ IsProtocolCaller(s, GovernanceRole, BootstrapSigners)
    /\ r.aggregateKey \notin s.aggregatePubkeys

RotateKeys(s, r) ==
    RegistryRotateKeys(s, r.keys, PubkeysToPrincipal(r.keys, r.threshold),
                       r.aggregateKey, r.threshold)

UpdateProtocolContractOk(s, c) ==
    /\ s.currentSignerPrincipal = c.caller
    /\ IsProtocolCaller(s, GovernanceRole, BootstrapSigners)

UpdateProtocolContract(s, c) ==
    RegistryUpdateProtocolContract(s, c.role, c.contract)

-----------------------------------------------------------------------------
(* The inputs of the calls.                                                *)

SignerSets == UNION {[1 .. n -> SignerKeys] : n \in 0 .. MaxSigners}
SignerPrincipals ==
    {PubkeysToPrincipal(k, n) : k \in SignerSets, n \in 1 .. MaxSigners}
        \cup {Deployer}
HeaderHashes == UNION {[1 .. h -> Forks] : h \in 1 .. MaxHeight}
Callers == Users \cup {st.currentSignerPrincipal}

Transfers(caller) ==
    [caller : {caller}, sender : Users, to : Users, amount : Amounts]
Deposits(caller) ==
    [caller : {caller}, outpoint : Outpoints, amount : Amounts,
     recipient : Users, sweepTxid : Txids,
     burnHeight : 1 .. MaxHeight, burnHash : HeaderHashes]
Withdrawals(caller) ==
    [caller : {caller}, amount : Amounts, maxFee : Amounts,
     recipient : Recipients]
Completions(caller) ==
    [caller : {caller}, id : 1 .. MaxRequests, fee : Amounts,
     sweepTxid : Txids, burnHeight : 1 .. MaxHeight, burnHash : HeaderHashes]
Rotations(caller) ==
    [caller : {caller}, keys : SignerSets, threshold : 0 .. MaxSigners + 1,
     aggregateKey : AggregateKeys]
Updates(caller) ==
    [caller : {caller}, role : Roles, contract : Upgrades]

-----------------------------------------------------------------------------
(* Transactions with one call.                                             *)

Commit(s) == st' = s /\ UNCHANGED <<tx, history>>

CallTransfer(t) == TransferOk(st, t) /\ Commit(Transfer(st, t))
CallInitiateWithdrawal(w) ==
    /\ st.lastWithdrawalRequestId < MaxRequests
    /\ InitiateWithdrawalOk(st, w)
    /\ Commit(InitiateWithdrawal(st, w))
CallCompleteDeposit(d) ==
    CompleteDepositOk(st, d) /\ Commit(CompleteDeposit(st, d))
CallAcceptWithdrawal(c) ==
    AcceptWithdrawalOk(st, c) /\ Commit(AcceptWithdrawal(st, c))
CallRejectWithdrawal(c) ==
    CompleteWithdrawalOk(st, c) /\ Commit(RejectWithdrawal(st, c))
CallRotateKeys(r) == RotateKeysOk(st, r) /\ Commit(RotateKeys(st, r))
CallUpdateProtocolContract(c) ==
    UpdateProtocolContractOk(st, c) /\ Commit(UpdateProtocolContract(st, c))

SingleCall ==
    /\ tx = NoTx
    /\ \E caller \in Callers :
        \/ \E t \in Transfers(caller) : CallTransfer(t)
        \/ \E w \in Withdrawals(caller) : caller \in Users /\ CallInitiateWithdrawal(w)
        \/ \E d \in Deposits(caller) : CallCompleteDeposit(d)
        \/ \E c \in Completions(caller) : CallAcceptWithdrawal(c)
        \/ \E c \in Completions(caller) : CallRejectWithdrawal(c)
        \/ \E r \in Rotations(caller) : CallRotateKeys(r)
        \/ \E c \in Updates(caller) : CallUpdateProtocolContract(c)

-----------------------------------------------------------------------------
(* Batch transactions: transfer-many, complete-deposits-wrapper and        *)
(* complete-withdrawals.  The list of items is chosen as the fold proceeds.*)

BatchBegin(kind, caller) ==
    /\ tx = NoTx
    /\ kind # "transfers" => caller = st.currentSignerPrincipal
    /\ tx' = [kind |-> kind, caller |-> caller, work |-> st, index |-> 0]
    /\ UNCHANGED <<st, history>>

\* One iteration of the fold: an item that fails fails the transaction.
BatchItem(ok, work) ==
    /\ tx.index < MaxBatch
    /\ tx' = IF ok THEN [tx EXCEPT !.work = work, !.index = @ + 1] ELSE NoTx
    /\ UNCHANGED <<st, history>>

BatchTransfer ==
    /\ tx.kind = "transfers"
    /\ \E t \in Transfers(tx.caller) :
        BatchItem(TransferOk(tx.work, t), Transfer(tx.work, t))

BatchDeposit ==
    /\ tx.kind = "deposits"
    /\ \E d \in Deposits(tx.caller) :
        BatchItem(CompleteDepositOk(tx.work, d), CompleteDeposit(tx.work, d))

BatchWithdrawal ==
    /\ tx.kind = "withdrawals"
    /\ \E c \in Completions(tx.caller) :
        \/ BatchItem(AcceptWithdrawalOk(tx.work, c), AcceptWithdrawal(tx.work, c))
        \/ BatchItem(CompleteWithdrawalOk(tx.work, c), RejectWithdrawal(tx.work, c))

BatchCommit ==
    /\ tx # NoTx
    /\ st' = tx.work
    /\ tx' = NoTx
    /\ UNCHANGED history

-----------------------------------------------------------------------------
(* The chains.                                                             *)

NewBurnBlock(f) ==
    /\ tx = NoTx
    /\ Len(st.burnChain) < MaxHeight
    /\ history' = Append(history, st)
    /\ st' = [st EXCEPT !.burnChain = Append(@, f)]
    /\ UNCHANGED tx

\* Bitcoin drops the blocks from height h on, and Stacks what it built on them.
Reorg(h) ==
    /\ tx = NoTx
    /\ h \in 1 .. Len(history)
    /\ st' = history[h]
    /\ history' = SubSeq(history, 1, h - 1)
    /\ UNCHANGED tx

-----------------------------------------------------------------------------
InitialState ==
    [balance |-> [u \in Users |-> 0],
     locked |-> [u \in Users |-> 0],
     lastWithdrawalRequestId |-> 0,
     withdrawalRequests |-> [id \in RequestIds |-> None],
     withdrawalStatus |-> [id \in RequestIds |-> None],
     completedWithdrawalSweep |-> [id \in RequestIds |-> None],
     feesPaid |-> [id \in RequestIds |-> None],
     depositStatus |-> {},
     completedDeposits |-> [o \in Outpoints |-> None],
     aggregatePubkeys |-> {},
     currentSignerSet |-> << >>,
     currentSignatureThreshold |-> 0,
     currentSignerPrincipal |-> Deployer,
     currentAggregatePubkey |-> None,
     activeProtocolContracts |->
        [r \in Roles |-> CASE r = GovernanceRole -> BootstrapSigners
                           [] r = DepositRole -> SbtcDeposit
                           [] r = WithdrawalRole -> SbtcWithdrawal],
     activeProtocolRoles |->
        [c \in Contracts |-> CASE c = BootstrapSigners -> GovernanceRole
                               [] c = SbtcDeposit -> DepositRole
                               [] c = SbtcWithdrawal -> WithdrawalRole
                               [] OTHER -> None],
     burnChain |-> << >>]

Init == st = InitialState /\ tx = NoTx /\ history = << >>

Next ==
    \/ SingleCall
    \/ \E kind \in {"transfers", "deposits", "withdrawals"}, caller \in Callers :
        BatchBegin(kind, caller)
    \/ BatchTransfer
    \/ BatchDeposit
    \/ BatchWithdrawal
    \/ BatchCommit
    \/ \E f \in Forks : NewBurnBlock(f)
    \/ \E h \in 1 .. MaxHeight : Reorg(h)

Spec == Init /\ [][Next]_vars

-----------------------------------------------------------------------------
(* Properties.                                                             *)

Requests == [amount : Nat, maxFee : Nat, sender : Users,
             recipient : Recipients, height : Nat]
Sweeps == [sweepTxid : Txids, burnHash : BlockHashes, burnHeight : Nat]
CompletedDeposits == [amount : Nat, recipient : Users, sweepTxid : Txids,
                      burnHash : BlockHashes, burnHeight : Nat]

ASSUME NoneAssumption ==
    None \notin Requests \cup Sweeps \cup CompletedDeposits \cup Nat \cup Roles
                    \cup {"accepted", "rejected"}

StateType ==
    [balance : [Users -> Nat],
     locked : [Users -> Nat],
     lastWithdrawalRequestId : 0 .. MaxRequests,
     withdrawalRequests : [RequestIds -> Requests \cup {None}],
     withdrawalStatus : [RequestIds -> {"accepted", "rejected", None}],
     completedWithdrawalSweep : [RequestIds -> Sweeps \cup {None}],
     feesPaid : [RequestIds -> Nat \cup {None}],
     depositStatus : SUBSET Outpoints,
     completedDeposits : [Outpoints -> CompletedDeposits \cup {None}],
     aggregatePubkeys : SUBSET AggregateKeys,
     currentSignerSet : Seq(SignerKeys),
     currentSignatureThreshold : Nat,
     currentSignerPrincipal : SignerPrincipals,
     currentAggregatePubkey : AggregateKeys \cup {None},
     activeProtocolContracts : [Roles -> Contracts],
     activeProtocolRoles : [Contracts -> Roles \cup {None}],
     burnChain : BlockHashes]

\* The type invariant.
TypeOK ==
    /\ st \in StateType
    /\ tx = NoTx \/ tx \in [kind : {"transfers", "deposits", "withdrawals"},
                            caller : Users \cup SignerPrincipals,
                            work : StateType, index : 0 .. MaxBatch]
    /\ history \in Seq(StateType)

\* The requests a user made that the signers have not decided on.
PendingOf(s, u) ==
    {id \in Keys(s.withdrawalRequests) :
        IsPending(s, id) /\ s.withdrawalRequests[id].sender = u}

Accepted(s) == {id \in RequestIds : s.withdrawalStatus[id] = "accepted"}

\* What a request puts aside, what a user has, what a deposit brought in, and
\* what a withdrawal took out on Bitcoin.
Reserve(s) == [id \in Keys(s.withdrawalRequests) |->
                  s.withdrawalRequests[id].amount + s.withdrawalRequests[id].maxFee]
Holding(s) == [u \in Users |-> s.balance[u] + s.locked[u]]
Deposited(s) == [o \in Keys(s.completedDeposits) |-> s.completedDeposits[o].amount]
Withdrawn(s) == [id \in Accepted(s) |-> s.withdrawalRequests[id].amount + s.feesPaid[id]]

RequestsBacked(s) ==
    \A u \in Users : s.locked[u] = SumFunctionOnSet(Reserve(s), PendingOf(s, u))
SupplyBacked(s) ==
    SumFunctionOnSet(Holding(s), Users)
        = SumFunctionOnSet(Deposited(s), Keys(s.completedDeposits))
          - SumFunctionOnSet(Withdrawn(s), Accepted(s))

\* A user's locked balance is exactly what the user's undecided withdrawal
\* requests have put aside (amount and max-fee): protocol-lock,
\* protocol-unlock and protocol-burn-locked never leave a pending request
\* unbacked, nor locked sBTC that no request can ever release.
EscrowBacksRequests == RequestsBacked(st)

\* get-total-supply is what the completed deposits brought in, less what the
\* accepted withdrawals took out on Bitcoin: the amount and the fee paid,
\* never the fee reserve that accept-withdrawal-request returns.
SupplyBackedByBitcoin == SupplyBacked(st)

\* A block of the fork that s has seen.
OnFork(s, hash, height) ==
    height \in 1 .. Len(s.burnChain) /\ hash = GetBurnHeader(s, height)

SweepsOnFork(s) ==
    /\ \A o \in Keys(s.completedDeposits) :
        OnFork(s, s.completedDeposits[o].burnHash, s.completedDeposits[o].burnHeight)
    /\ \A id \in Keys(s.completedWithdrawalSweep) :
        OnFork(s, s.completedWithdrawalSweep[id].burnHash,
               s.completedWithdrawalSweep[id].burnHeight)

\* Every sweep the registry records is a block of the Bitcoin fork Stacks is
\* on: the burn-hash asserts, with the rollback of the Stacks fork, keep a
\* deposit or a withdrawal completed on a fork from being recorded on another.
SweepsOnCanonicalFork == SweepsOnFork(st)

MapsAgree(s) ==
    /\ Keys(s.withdrawalRequests) = 1 .. s.lastWithdrawalRequestId
    /\ Keys(s.withdrawalStatus) \subseteq Keys(s.withdrawalRequests)
    /\ Keys(s.completedWithdrawalSweep) = Accepted(s)
    /\ Keys(s.feesPaid) = Accepted(s)
    /\ Keys(s.completedDeposits) = s.depositStatus

\* The maps of the registry agree: requests are numbered without gaps, only
\* existing requests are decided, a sweep is recorded for exactly the accepted
\* ones, and the two deposit maps have the same keys.
RegistryMapsAgree == MapsAgree(st)

Extends(new, old) ==
    Keys(old) \subseteq Keys(new) /\ \A k \in Keys(old) : new[k] = old[k]

\* Short of a reorg, a decision is final: no transaction changes a request,
\* turns an accepted withdrawal into a rejected one or back, or completes a
\* deposit again (map-insert, ERR_ALREADY_PROCESSED, ERR_DEPOSIT_REPLAY).
DecisionsAreFinal ==
    [][Len(history') >= Len(history) =>
        /\ Extends(st'.withdrawalRequests, st.withdrawalRequests)
        /\ Extends(st'.withdrawalStatus, st.withdrawalStatus)
        /\ Extends(st'.completedDeposits, st.completedDeposits)
        /\ st.aggregatePubkeys \subseteq st'.aggregatePubkeys]_vars

\* Every sBTC is accounted for, locked ones by the request that locked them and
\* all of them by what the signers hold on Bitcoin.
SbtcIsBacked == EscrowBacksRequests /\ SupplyBackedByBitcoin

\* What the registry records is one history: its maps agree with each other, and
\* its sweeps are on the Bitcoin fork that Stacks is on.
RegistryConsistent == RegistryMapsAgree /\ SweepsOnCanonicalFork
=============================================================================
