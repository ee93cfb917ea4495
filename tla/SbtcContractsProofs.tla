------------------------ MODULE SbtcContractsProofs -------------------------
(***************************************************************************)
(* Proofs about SbtcContracts.                                             *)
(*                                                                         *)
(* Sums over finite sets come first.  SumFunctionOnSet folds a set in an   *)
(* order that CHOOSE picks; these lemmas take any of its elements out of   *)
(* the sum, for every finite set and every function to the integers.  The  *)
(* induction is on the size of the set: of the sizes for which a statement *)
(* fails there would be a least one (WFMin).                               *)
(*                                                                         *)
(* Each public function gets two lemmas.  The first says what the call     *)
(* writes and that the maps of the registry still agree; the second, from  *)
(* these writes alone, that every sBTC is still accounted for.             *)
(***************************************************************************)
EXTENDS SbtcContracts, FiniteSetTheorems, WellFoundedInduction, TLAPS

-----------------------------------------------------------------------------
(* Sums over finite sets.                                                  *)

\* The element that the fold takes next.
Pick(s) == CHOOSE x \in s : TRUE

\* h adds up f over each set of D.
Adds(h, f, D) == h = [s \in D |-> IF s = {} THEN 0 ELSE f[Pick(s)] + h[s \ {Pick(s)}]]

\* h adds up f over all the subsets of S.
AddsAll(h, f, S) == Adds(h, f, SUBSET S)

\* The sum of the community module is this recursion.
LEMMA SumIsFold ==
    ASSUME NEW f, NEW S
    PROVE  SumFunctionOnSet(f, S) = (CHOOSE h : AddsAll(h, f, S))[S]
BY Zenon DEF AddsAll, SumFunctionOnSet, FoldFunctionOnSet, MapThenFoldSet, Adds, Pick

\* An element of a set that is not empty.
LEMMA PickIn == ASSUME NEW s, s # {} PROVE Pick(s) \in s
BY DEF Pick

\* The subsets of S with at most n elements.
Upto(S, n) == {s \in SUBSET S : Cardinality(s) <= n}

\* The recursion of the fold has a solution on all the subsets of a finite set:
\* by induction on the size of the subsets.
LEMMA AddsExists ==
    ASSUME NEW f, NEW S, IsFiniteSet(S)
    PROVE  \E h : AddsAll(h, f, S)
<1> DEFINE Bad == {n \in Nat : ~ \E h : Adds(h, f, Upto(S, n))}
<1>0. \A s \in SUBSET S : IsFiniteSet(s) /\ Cardinality(s) \in Nat /\ Cardinality(s) <= Cardinality(S)
  BY FS_Subset, FS_CardinalityType
<1>1. Bad = {}
  <2> SUFFICES ASSUME Bad # {} PROVE FALSE
    OBVIOUS
  <2>1. PICK n \in Bad : \A k \in Bad : ~(<<k, n>> \in OpToRel(<, Nat))
    BY NatLessThanWellFounded, WFMin, Zenon
  <2>2. \A k \in Nat : k < n => \E h : Adds(h, f, Upto(S, k))
    BY <2>1, Zenon DEF OpToRel
  <2>3. CASE n = 0
    <3>1. Upto(S, 0) = {{}}
      BY <1>0, FS_EmptySet DEF Upto
    <3>2. Adds([s \in {{}} |-> 0], f, {{}})
      BY DEF Adds
    <3> QED
      BY <2>1, <2>3, <3>1, <3>2, Zenon
  <2>4. CASE n # 0
    <3>1. n - 1 \in Nat /\ n - 1 < n
      BY <2>4
    <3>2. PICK h : Adds(h, f, Upto(S, n - 1))
      BY <2>2, <3>1
    <3> DEFINE g == [s \in Upto(S, n) |-> IF s = {} THEN 0 ELSE f[Pick(s)] + h[s \ {Pick(s)}]]
    <3>3. \A s \in Upto(S, n) : s # {} => s \ {Pick(s)} \in Upto(S, n - 1)
      BY <1>0, <2>4, PickIn, FS_RemoveElement DEF Upto
    <3>4. Upto(S, n - 1) \subseteq Upto(S, n)
      BY <1>0 DEF Upto
    <3>5. \A s \in Upto(S, n - 1) : g[s] = h[s]
      BY <3>2, <3>4, Zenon DEF Adds
    <3>6. Adds(g, f, Upto(S, n))
      BY <3>3, <3>5, Zenon DEF Adds
    <3> QED
      BY <2>1, <3>6, Zenon
  <2> QED
    BY <2>3, <2>4
<1>2. Cardinality(S) \in Nat
  BY FS_CardinalityType
<1>3. Upto(S, Cardinality(S)) = SUBSET S
  BY <1>0 DEF Upto
<1>4. \E h : Adds(h, f, Upto(S, Cardinality(S)))
  BY <1>1, <1>2
<1> QED
  BY <1>3, <1>4, Zenon DEF AddsAll

\* Two solutions agree.
LEMMA AddsUnique ==
    ASSUME NEW f, NEW S, IsFiniteSet(S), NEW T, T \subseteq S, NEW g, NEW h,
           AddsAll(g, f, S), AddsAll(h, f, T)
    PROVE  g[T] = h[T]
<1> DEFINE Bad == {n \in Nat : \E s \in SUBSET T : Cardinality(s) = n /\ g[s] # h[s]}
<1>0. \A s \in SUBSET T : IsFiniteSet(s) /\ Cardinality(s) \in Nat
  BY FS_Subset, FS_CardinalityType
<1>1. Bad = {}
  <2> SUFFICES ASSUME Bad # {} PROVE FALSE
    OBVIOUS
  <2>1. PICK n \in Bad : \A k \in Bad : ~(<<k, n>> \in OpToRel(<, Nat))
    BY NatLessThanWellFounded, WFMin, Zenon
  <2>2. PICK s \in SUBSET T : Cardinality(s) = n /\ g[s] # h[s]
    BY <2>1, Zenon
  <2>3. CASE s = {}
    BY <2>2, <2>3 DEF Adds, AddsAll
  <2>4. CASE s # {}
    <3> DEFINE r == s \ {Pick(s)}
    <3>1. r \in SUBSET T /\ Cardinality(r) \in Nat /\ Cardinality(r) < n
      BY <1>0, <2>2, <2>4, PickIn, FS_RemoveElement
    <3>2. g[r] = h[r]
      BY <2>1, <3>1, Zenon DEF OpToRel
    <3>3. g[s] = f[Pick(s)] + g[r] /\ h[s] = f[Pick(s)] + h[r]
      BY <2>4, Zenon DEF Adds, AddsAll
    <3> QED
      BY <2>2, <3>2, <3>3
  <2> QED
    BY <2>3, <2>4
<1> QED
  BY <1>0, <1>1

\* The sum over a set that is not empty, taken apart as the fold does.
LEMMA SumUnfold ==
    ASSUME NEW f, NEW S, IsFiniteSet(S)
    PROVE  /\ SumFunctionOnSet(f, {}) = 0
           /\ S # {} => SumFunctionOnSet(f, S) =
                            f[Pick(S)] + SumFunctionOnSet(f, S \ {Pick(S)})
<1> DEFINE fold(T) == CHOOSE h : AddsAll(h, f, T)
<1>1. \A T \in SUBSET S : IsFiniteSet(T) /\ AddsAll(fold(T), f, T)
  BY AddsExists, FS_Subset, Zenon
<1> HIDE DEF fold
<1>2. \A T \in SUBSET S : SumFunctionOnSet(f, T) = fold(T)[T]
  BY SumIsFold DEF fold
<1>3. SumFunctionOnSet(f, {}) = 0
  <2>1. fold({})[{}] = 0
    BY <1>1, Zenon DEF Adds, AddsAll
  <2> QED
    BY <1>2, <2>1
<1>4. ASSUME S # {} PROVE SumFunctionOnSet(f, S) = f[Pick(S)] + SumFunctionOnSet(f, S \ {Pick(S)})
  <2>1. fold(S)[S] = f[Pick(S)] + fold(S)[S \ {Pick(S)}]
    <3>1. S \in SUBSET S /\ AddsAll(fold(S), f, S)
      BY <1>1
    <3> QED
      BY <1>4, <3>1, Zenon DEF Adds, AddsAll
  <2>2. S \ {Pick(S)} \in SUBSET S
    OBVIOUS
  <2>3. fold(S)[S \ {Pick(S)}] = fold(S \ {Pick(S)})[S \ {Pick(S)}]
    <3> DEFINE r == S \ {Pick(S)}
    <3>1. r \in SUBSET S
      BY <2>2
    <3> HIDE DEF r
    <3>2. AddsAll(fold(S), f, S) /\ AddsAll(fold(r), f, r)
      <4>1. S \in SUBSET S
        OBVIOUS
      <4> QED
        BY <1>1, <3>1, <4>1, Zenon
    <3>3. r \subseteq S
      BY <3>1
    <3>4. fold(S)[r] = fold(r)[r]
      BY <3>2, <3>3, AddsUnique
    <3> QED
      BY <3>4 DEF r
  <2> QED
    BY <1>2, <2>1, <2>2, <2>3
<1> QED
  BY <1>3, <1>4

\* A sum of integers is one, and the order of the elements does not matter.
LEMMA SumRemove ==
    ASSUME NEW f, NEW S, IsFiniteSet(S), \A x \in S : f[x] \in Int
    PROVE  /\ SumFunctionOnSet(f, S) \in Int
           /\ \A x \in S : SumFunctionOnSet(f, S) = f[x] + SumFunctionOnSet(f, S \ {x})
<1> DEFINE sum(T) == SumFunctionOnSet(f, T)
           Good(T) == sum(T) \in Int /\ \A x \in T : sum(T) = f[x] + sum(T \ {x})
           Bad == {n \in Nat : \E T \in SUBSET S : Cardinality(T) = n /\ ~Good(T)}
<1>0. \A T \in SUBSET S : IsFiniteSet(T) /\ Cardinality(T) \in Nat
  BY FS_Subset, FS_CardinalityType
<1>1. \A T \in SUBSET S : T # {} => Pick(T) \in T /\ sum(T) = f[Pick(T)] + sum(T \ {Pick(T)})
  BY <1>0, SumUnfold, PickIn
<1>2. sum({}) = 0
  BY <1>0, SumUnfold
<1> HIDE DEF sum
<1>3. \A T \in SUBSET S, x \in S :
         x \in T => Cardinality(T \ {x}) \in Nat /\ Cardinality(T \ {x}) = Cardinality(T) - 1
  BY <1>0, FS_RemoveElement
<1>4. Bad = {}
  <2> SUFFICES ASSUME Bad # {} PROVE FALSE
    OBVIOUS
  <2>1. PICK n \in Bad : \A k \in Bad : ~(<<k, n>> \in OpToRel(<, Nat))
    BY NatLessThanWellFounded, WFMin, Zenon
  <2>2. PICK T \in SUBSET S : Cardinality(T) = n /\ ~Good(T)
    BY <2>1, Zenon
  <2>3. ASSUME NEW U \in SUBSET S, Cardinality(U) < n PROVE Good(U)
    <3>1. Cardinality(U) \in Nat
      BY <1>0
    <3>2. Cardinality(U) \notin Bad
      BY <2>1, <2>3, <3>1, Zenon DEF OpToRel
    <3> QED
      BY <3>1, <3>2
  <2>4. T # {} /\ n \in Nat
    <3>1. T # {}
      BY <1>2, <2>2
    <3>2. n \in Nat
      BY <2>1, Zenon
    <3> QED
      BY <3>1, <3>2
  <2> DEFINE c == Pick(T)
  <2>5. c \in T /\ sum(T) = f[c] + sum(T \ {c})
    BY <1>1, <2>4
  <2> HIDE DEF c
  <2>6. ASSUME NEW x \in T PROVE Good(T \ {x}) /\ Cardinality(T \ {x}) = n - 1
    <3>1. Cardinality(T \ {x}) = n - 1 /\ n - 1 < n
      BY <1>3, <2>2, <2>4
    <3> QED
      BY <2>3, <3>1, Zenon
  <2>7. sum(T) \in Int
    <3>1. Good(T \ {c}) /\ f[c] \in Int
      BY <2>5, <2>6
    <3> QED
      BY <2>5, <3>1
  <2>8. ASSUME NEW x \in T PROVE sum(T) = f[x] + sum(T \ {x})
    <3>1. CASE x = c
      BY <2>5, <3>1
    <3>2. CASE x # c
      <4>1. Good(T \ {x}) /\ Good(T \ {c})
        BY <2>5, <2>6, Zenon
      <4>2. Good((T \ {x}) \ {c})
        <5>1. c \in T \ {x} /\ T \ {x} \in SUBSET S /\ Cardinality(T \ {x}) = n - 1
          BY <2>5, <2>6, <3>2, Zenon
        <5>2. Cardinality((T \ {x}) \ {c}) = (n - 1) - 1
          BY <1>3, <5>1
        <5>3. (n - 1) - 1 < n
          BY <2>4
        <5>4. (T \ {x}) \ {c} \in SUBSET S
          OBVIOUS
        <5> QED
          BY <2>3, <5>2, <5>3, <5>4, Zenon
      <4>3. sum(T \ {c}) = f[x] + sum((T \ {c}) \ {x})
        BY <3>2, <4>1, Zenon
      <4>4. sum(T \ {x}) = f[c] + sum((T \ {x}) \ {c})
        BY <2>5, <3>2, <4>1, Zenon
      <4>5. (T \ {c}) \ {x} = (T \ {x}) \ {c}
        OBVIOUS
      <4>6. f[c] \in Int /\ f[x] \in Int
        BY <2>5
      <4>7. sum((T \ {x}) \ {c}) \in Int
        BY <4>2
      <4> HIDE DEF Good, Bad
      <4>8. sum(T) = f[c] + (f[x] + sum((T \ {x}) \ {c}))
        BY <2>5, <4>3, <4>5
      <4> QED
        BY <4>4, <4>6, <4>7, <4>8
    <3> QED
      BY <3>1, <3>2
  <2> QED
    BY <2>2, <2>7, <2>8
<1>5. Cardinality(S) \in Nat
  BY <1>0
<1>6. Good(S)
  BY <1>4, <1>5
<1> QED
  BY <1>6 DEF sum

\* The sum depends only on the values that are added.
LEMMA SumSame ==
    ASSUME NEW f, NEW g, NEW S, IsFiniteSet(S), \A x \in S : f[x] = g[x]
    PROVE  SumFunctionOnSet(f, S) = SumFunctionOnSet(g, S)
<1> DEFINE sumf(T) == SumFunctionOnSet(f, T)
           sumg(T) == SumFunctionOnSet(g, T)
           Bad == {n \in Nat : \E T \in SUBSET S : Cardinality(T) = n /\ sumf(T) # sumg(T)}
<1>0. \A T \in SUBSET S : IsFiniteSet(T) /\ Cardinality(T) \in Nat
  BY FS_Subset, FS_CardinalityType
<1>1. \A T \in SUBSET S : T # {} =>
          /\ Pick(T) \in T
          /\ sumf(T) = f[Pick(T)] + sumf(T \ {Pick(T)})
          /\ sumg(T) = g[Pick(T)] + sumg(T \ {Pick(T)})
  BY <1>0, SumUnfold, PickIn
<1>2. sumf({}) = sumg({})
  BY <1>0, SumUnfold
<1> HIDE DEF sumf, sumg
<1>3. Bad = {}
  <2> SUFFICES ASSUME Bad # {} PROVE FALSE
    OBVIOUS
  <2>1. PICK n \in Bad : \A k \in Bad : ~(<<k, n>> \in OpToRel(<, Nat))
    BY NatLessThanWellFounded, WFMin, Zenon
  <2>2. PICK T \in SUBSET S : Cardinality(T) = n /\ sumf(T) # sumg(T)
    BY <2>1, Zenon
  <2>3. T # {}
    BY <1>2, <2>2
  <2> DEFINE r == T \ {Pick(T)}
  <2>4. r \in SUBSET S /\ Cardinality(r) \in Nat /\ Cardinality(r) < n
    BY <1>0, <1>1, <2>2, <2>3, FS_RemoveElement
  <2>5. sumf(r) = sumg(r)
    BY <2>1, <2>4, Zenon DEF OpToRel
  <2> QED
    BY <1>1, <2>2, <2>3, <2>5
<1>4. Cardinality(S) \in Nat
  BY <1>0
<1>5. sumf(S) = sumg(S)
  BY <1>3, <1>4
<1> QED
  BY <1>5 DEF sumf, sumg

\* One more element, and otherwise the same values.
LEMMA SumAdd ==
    ASSUME NEW f, NEW g, NEW S, IsFiniteSet(S), NEW x, x \notin S,
           \A y \in S : f[y] = g[y] /\ g[y] \in Int, g[x] \in Int
    PROVE  SumFunctionOnSet(g, S \cup {x}) = SumFunctionOnSet(f, S) + g[x]
<1>1. IsFiniteSet(S \cup {x}) /\ (S \cup {x}) \ {x} = S
  BY FS_AddElement
<1>2. SumFunctionOnSet(g, S \cup {x}) = g[x] + SumFunctionOnSet(g, S)
  BY <1>1, SumRemove
<1>3. SumFunctionOnSet(f, S) = SumFunctionOnSet(g, S)
  BY SumSame
<1>4. SumFunctionOnSet(g, S) \in Int
  BY SumRemove
<1> QED
  BY <1>2, <1>3, <1>4

\* Another value for one element.
LEMMA SumChange ==
    ASSUME NEW f, NEW g, NEW S, IsFiniteSet(S), NEW x \in S,
           \A y \in S : f[y] \in Int /\ g[y] \in Int,
           \A y \in S \ {x} : f[y] = g[y]
    PROVE  SumFunctionOnSet(g, S) = SumFunctionOnSet(f, S) - f[x] + g[x]
<1> DEFINE rest == S \ {x}
<1>1. IsFiniteSet(rest)
  BY FS_RemoveElement
<1>2. /\ SumFunctionOnSet(f, S) = f[x] + SumFunctionOnSet(f, rest)
      /\ SumFunctionOnSet(g, S) = g[x] + SumFunctionOnSet(g, rest)
  BY SumRemove
<1>3. SumFunctionOnSet(f, rest) = SumFunctionOnSet(g, rest)
  BY <1>1, SumSame
<1>4. SumFunctionOnSet(f, rest) \in Int
  BY <1>1, SumRemove
<1> HIDE DEF rest
<1> QED
  BY <1>2, <1>3, <1>4

\* The sum over nothing.
LEMMA SumEmpty == \A f : SumFunctionOnSet(f, {}) = 0
<1> SUFFICES ASSUME NEW f PROVE SumFunctionOnSet(f, {}) = 0
  OBVIOUS
<1> QED
  BY SumUnfold, FS_EmptySet, Zenon

\* A sum of zeros.
LEMMA SumZero ==
    ASSUME NEW f, NEW S, IsFiniteSet(S), \A x \in S : f[x] = 0
    PROVE  SumFunctionOnSet(f, S) = 0
<1> DEFINE sum(T) == SumFunctionOnSet(f, T)
           Bad == {n \in Nat : \E T \in SUBSET S : Cardinality(T) = n /\ sum(T) # 0}
<1>0. \A T \in SUBSET S : IsFiniteSet(T) /\ Cardinality(T) \in Nat
  BY FS_Subset, FS_CardinalityType
<1>1. \A T \in SUBSET S : T # {} =>
          Pick(T) \in T /\ sum(T) = f[Pick(T)] + sum(T \ {Pick(T)})
  BY <1>0, SumUnfold, PickIn
<1>2. sum({}) = 0
  BY SumEmpty
<1> HIDE DEF sum
<1>3. Bad = {}
  <2> SUFFICES ASSUME Bad # {} PROVE FALSE
    OBVIOUS
  <2>1. PICK n \in Bad : \A k \in Bad : ~(<<k, n>> \in OpToRel(<, Nat))
    BY NatLessThanWellFounded, WFMin, Zenon
  <2>2. PICK T \in SUBSET S : Cardinality(T) = n /\ sum(T) # 0
    BY <2>1, Zenon
  <2>3. T # {}
    BY <1>2, <2>2
  <2> DEFINE r == T \ {Pick(T)}
  <2>4. r \in SUBSET S /\ Cardinality(r) \in Nat /\ Cardinality(r) < n
    BY <1>0, <1>1, <2>2, <2>3, FS_RemoveElement
  <2>5. sum(r) = 0
    BY <2>1, <2>4, Zenon DEF OpToRel
  <2>6. f[Pick(T)] = 0
    BY <1>1, <2>3, Zenon
  <2> QED
    BY <1>1, <2>2, <2>3, <2>5, <2>6
<1>4. Cardinality(S) \in Nat
  BY <1>0
<1>5. sum(S) = 0
  BY <1>3, <1>4
<1> QED
  BY <1>5 DEF sum

-----------------------------------------------------------------------------
(* The contracts.                                                          *)

\* The maps of a contract state agree, and its sweeps are on its own fork.
Consistent(s) == s \in StateType /\ MapsAgree(s) /\ SweepsOnFork(s)

\* Every sBTC of a contract state is accounted for.
Backed(s) ==
    IsFiniteSet(s.depositStatus) /\ RequestsBacked(s) /\ SupplyBacked(s)

\* n remembers what s has recorded and decided.
Keeps(s, n) ==
    /\ Extends(n.withdrawalRequests, s.withdrawalRequests)
    /\ Extends(n.withdrawalStatus, s.withdrawalStatus)
    /\ Extends(n.completedDeposits, s.completedDeposits)
    /\ s.aggregatePubkeys \subseteq n.aggregatePubkeys

\* A state of the contracts whose records agree and whose tokens are backed.
Sound(s) == Consistent(s) /\ Backed(s)

\* A batch in progress.
BatchTypes == [kind : {"transfers", "deposits", "withdrawals"},
               caller : Users \cup SignerPrincipals,
               work : StateType, index : 0 .. MaxBatch]

\* The inductive invariant: the committed state, the working copy of a batch
\* and every state a reorg can return to are sound, and the working copy has
\* forgotten nothing of the committed state.
IInv ==
    /\ TypeOK
    /\ Sound(st)
    /\ tx # NoTx => Sound(tx.work) /\ Keeps(st, tx.work)
    /\ \A h \in 1 .. Len(history) : Sound(history[h])

-----------------------------------------------------------------------------
(* What the calls write, in the fields that the accounts are made of.      *)

\* The call writes no withdrawal request.
SameRequests(s, n) == n.withdrawalRequests = s.withdrawalRequests
\* The call decides no withdrawal request.
SameDecisions(s, n) ==
    n.withdrawalStatus = s.withdrawalStatus /\ n.feesPaid = s.feesPaid
\* The call completes no deposit.
SameDeposits(s, n) ==
    n.completedDeposits = s.completedDeposits /\ n.depositStatus = s.depositStatus
\* The call registers no aggregate key.
SameKeys(s, n) == n.aggregatePubkeys = s.aggregatePubkeys
\* The call writes neither requests nor decisions nor deposits.
SameRecords(s, n) ==
    SameRequests(s, n) /\ SameDecisions(s, n) /\ SameDeposits(s, n)

\* sbtc-token transfer: tokens move between two users.
TransferEffect(s, t, n) ==
    /\ n.balance = [s.balance EXCEPT ![t.sender] = @ - t.amount,
                                     ![t.to] = @ + t.amount]
    /\ n.locked = s.locked
    /\ SameRecords(s, n) /\ SameKeys(s, n)

\* complete-deposit: the recipient gets what the record says.
DepositEffect(s, d, n) ==
    /\ n.balance = [s.balance EXCEPT ![d.recipient] = @ + d.amount]
    /\ n.locked = s.locked
    /\ \E e \in CompletedDeposits :
        /\ e.amount = d.amount
        /\ n.completedDeposits = [s.completedDeposits EXCEPT ![d.outpoint] = e]
    /\ n.depositStatus = s.depositStatus \cup {d.outpoint}
    /\ SameRequests(s, n) /\ SameDecisions(s, n) /\ SameKeys(s, n)

\* initiate-withdrawal: amount and maximal fee move into the escrow.
WithdrawalEffect(s, w, n) ==
    /\ n.balance = [s.balance EXCEPT ![w.caller] = @ - (w.amount + w.maxFee)]
    /\ n.locked = [s.locked EXCEPT ![w.caller] = @ + (w.amount + w.maxFee)]
    /\ \E q \in Requests :
        /\ q.amount = w.amount /\ q.maxFee = w.maxFee /\ q.sender = w.caller
        /\ n.withdrawalRequests =
               [s.withdrawalRequests EXCEPT ![s.lastWithdrawalRequestId + 1] = q]
    /\ SameDecisions(s, n) /\ SameDeposits(s, n) /\ SameKeys(s, n)

\* reject-withdrawal: the escrow goes back to the sender.
RejectEffect(s, w, n) ==
    LET r == s.withdrawalRequests[w.id] IN
    /\ n.balance = [s.balance EXCEPT ![r.sender] = @ + (r.amount + r.maxFee)]
    /\ n.locked = [s.locked EXCEPT ![r.sender] = @ - (r.amount + r.maxFee)]
    /\ n.withdrawalStatus = [s.withdrawalStatus EXCEPT ![w.id] = "rejected"]
    /\ n.feesPaid = s.feesPaid
    /\ SameRequests(s, n) /\ SameDeposits(s, n) /\ SameKeys(s, n)

\* accept-withdrawal: the escrow is burned but for the part of the fee not used.
AcceptEffect(s, w, n) ==
    LET r == s.withdrawalRequests[w.id] IN
    /\ n.balance = [s.balance EXCEPT ![r.sender] = @ + (r.maxFee - w.fee)]
    /\ n.locked = [s.locked EXCEPT ![r.sender] = @ - (r.amount + r.maxFee)]
    /\ n.withdrawalStatus = [s.withdrawalStatus EXCEPT ![w.id] = "accepted"]
    /\ n.feesPaid = [s.feesPaid EXCEPT ![w.id] = w.fee]
    /\ SameRequests(s, n) /\ SameDeposits(s, n) /\ SameKeys(s, n)

\* What rotating keys, updating a contract and a new block leave alone.
NoEffect(s, n) ==
    /\ n.balance = s.balance /\ n.locked = s.locked
    /\ SameRecords(s, n) /\ s.aggregatePubkeys \subseteq n.aggregatePubkeys

-----------------------------------------------------------------------------
(* Every call keeps the maps in agreement.                                 *)

\* The state the contracts are deployed in.
LEMMA InitialConsistent == Consistent(InitialState)
<1>. DEFINE s == InitialState
<1>1. s \in StateType
  BY ContractsAssumption, NumbersAssumption DEF InitialState, StateType, Roles,
     GovernanceRole, DepositRole, WithdrawalRole, BlockHashes, SignerPrincipals
<1>2. MapsAgree(s)
  BY NoneAssumption, NumbersAssumption DEF InitialState, MapsAgree, Keys, Accepted, RequestIds
<1>3. SweepsOnFork(s)
  BY DEF InitialState, SweepsOnFork, Keys
<1>. QED  BY <1>1, <1>2, <1>3 DEF Consistent

\* transfer only moves balances.
LEMMA TransferConsistent ==
  ASSUME NEW s, Consistent(s), NEW c, NEW t \in Transfers(c), TransferOk(s, t)
  PROVE  Consistent(Transfer(s, t)) /\ TransferEffect(s, t, Transfer(s, t))
<1>. DEFINE n == Transfer(s, t)
            b == [s.balance EXCEPT ![t.sender] = @ - t.amount,
                                   ![t.to] = @ + t.amount]
<1>0. /\ s.balance \in [Users -> Nat]
      /\ t.amount \in Nat /\ t.sender \in Users /\ t.to \in Users
      /\ t.amount <= s.balance[t.sender] /\ t.sender # t.to
  BY NumbersAssumption, Zenon DEF Consistent, StateType, Transfers, TransferOk
<1>1. b \in [Users -> Nat]
  BY <1>0
<1>2. n = [s EXCEPT !.balance = b]
  BY DEF Transfer
<1>e. TransferEffect(s, t, n)
  BY <1>2 DEF TransferEffect, Consistent, StateType, SameRecords, SameRequests,
     SameDecisions, SameDeposits, SameKeys
<1>. HIDE DEF b, n
<1>3. n \in StateType
  BY <1>1, <1>2, Zenon DEF Consistent, StateType
<1>4. MapsAgree(n)
  BY <1>2 DEF Consistent, StateType, MapsAgree, Keys, Accepted
<1>5. SweepsOnFork(n)
  BY <1>2 DEF Consistent, StateType, SweepsOnFork, OnFork, GetBurnHeader, Keys
<1>. QED  BY <1>e, <1>3, <1>4, <1>5 DEF Consistent, n

\* complete-deposit-wrapper adds one outpoint to both deposit maps, with a
\* block of the fork.
LEMMA CompleteDepositConsistent ==
  ASSUME NEW s, Consistent(s), NEW c, NEW d \in Deposits(c), CompleteDepositOk(s, d)
  PROVE  Consistent(CompleteDeposit(s, d)) /\ DepositEffect(s, d, CompleteDeposit(s, d))
<1>0. /\ d.amount \in Nat /\ d.recipient \in Users /\ d.sweepTxid \in Txids
      /\ d.burnHeight \in Nat /\ d.burnHash \in HeaderHashes
      /\ d.outpoint \in Outpoints /\ s.balance \in [Users -> Nat]
  <2>1. /\ d.amount \in Amounts /\ d.recipient \in Users /\ d.sweepTxid \in Txids
        /\ d.burnHeight \in 1 .. MaxHeight /\ d.burnHash \in HeaderHashes
        /\ d.outpoint \in Outpoints
    BY DEF Deposits
  <2>2. s.balance \in [Users -> Nat]
    BY DEF Consistent, StateType
  <2>3. d.amount \in Nat
    BY <2>1, NumbersAssumption, Zenon
  <2>4. d.burnHeight \in Nat
    BY <2>1, NumbersAssumption
  <2>. QED  BY <2>1, <2>2, <2>3, <2>4
<1>. DEFINE n == CompleteDeposit(s, d)
            b == [s.balance EXCEPT ![d.recipient] = @ + d.amount]
            e == [amount |-> d.amount, recipient |-> d.recipient,
                  sweepTxid |-> d.sweepTxid, burnHash |-> d.burnHash,
                  burnHeight |-> d.burnHeight]
            m == [s.completedDeposits EXCEPT ![d.outpoint] = e]
<1>1. e \in CompletedDeposits /\ e # None
  <2>1. d.burnHash \in BlockHashes
    BY <1>0, NumbersAssumption DEF HeaderHashes, BlockHashes
  <2>. QED  BY <1>0, <2>1, NoneAssumption DEF CompletedDeposits
<1>2. b \in [Users -> Nat]
  BY <1>0
<1>3. s.completedDeposits[d.outpoint] = None
  BY <1>0 DEF Consistent, StateType, MapsAgree, Keys, CompleteDepositOk
<1>4. n = [s EXCEPT !.balance = b, !.completedDeposits = m,
                    !.depositStatus = @ \cup {d.outpoint}]
  <2>. DEFINE s1 == [s EXCEPT !.balance = b]
  <2>1. n = RegistryCompleteDeposit(s1, d)
    BY DEF CompleteDeposit, ProtocolMint
  <2>2. /\ s1.completedDeposits = s.completedDeposits
        /\ s1.depositStatus = s.depositStatus
    BY DEF Consistent, StateType
  <2>3. n = [s1 EXCEPT !.depositStatus = s.depositStatus \cup {d.outpoint},
                       !.completedDeposits = m]
    BY <1>3, <2>1, <2>2, Zenon DEF RegistryCompleteDeposit, MapInsert, Consistent, StateType
  <2>. QED  BY <2>3, Zenon DEF Consistent, StateType
<1>5. OnFork(s, e.burnHash, e.burnHeight)
  BY DEF CompleteDepositOk, BurnHashOk, OnFork
<1>e. DepositEffect(s, d, n)
  BY <1>1, <1>4, Zenon DEF DepositEffect, Consistent, StateType, SameRecords, SameRequests,
     SameDecisions, SameDeposits, SameKeys
<1>. HIDE DEF b, n, e
<1>6. n \in StateType
  BY <1>0, <1>1, <1>2, <1>4, Zenon DEF Consistent, StateType
<1>7. MapsAgree(n)
  BY <1>0, <1>1, <1>4 DEF Consistent, StateType, MapsAgree, Keys, Accepted
<1>8. SweepsOnFork(n)
  BY <1>0, <1>1, <1>4, <1>5 DEF Consistent, StateType, SweepsOnFork, OnFork, GetBurnHeader, Keys
<1>. QED  BY <1>e, <1>6, <1>7, <1>8 DEF Consistent, n

\* initiate-withdrawal-request takes the next number for its request.
LEMMA InitiateWithdrawalConsistent ==
  ASSUME NEW s, Consistent(s), NEW c \in Users, NEW w \in Withdrawals(c),
         s.lastWithdrawalRequestId < MaxRequests, InitiateWithdrawalOk(s, w)
  PROVE  Consistent(InitiateWithdrawal(s, w)) /\ WithdrawalEffect(s, w, InitiateWithdrawal(s, w))
<1>1. /\ w.amount \in Nat /\ w.maxFee \in Nat /\ w.caller \in Users
      /\ w.recipient \in Recipients
  BY NumbersAssumption, Zenon DEF Withdrawals
<1>2. /\ s.balance \in [Users -> Nat] /\ s.locked \in [Users -> Nat]
      /\ s.lastWithdrawalRequestId + 1 \in RequestIds /\ Len(s.burnChain) \in Nat
  BY NumbersAssumption DEF Consistent, StateType, RequestIds, BlockHashes
<1>. DEFINE n == InitiateWithdrawal(s, w)
            id == s.lastWithdrawalRequestId + 1
            f == w.amount + w.maxFee
            b == [s.balance EXCEPT ![w.caller] = @ - f]
            l == [s.locked EXCEPT ![w.caller] = @ + f]
            q == [amount |-> w.amount, maxFee |-> w.maxFee, sender |-> w.caller,
                  recipient |-> w.recipient, height |-> Len(s.burnChain)]
            m == [s.withdrawalRequests EXCEPT ![id] = q]
<1>3. f \in Nat /\ f <= s.balance[w.caller]
  BY <1>1, <1>2 DEF InitiateWithdrawalOk
<1>4. b \in [Users -> Nat] /\ l \in [Users -> Nat]
  BY <1>1, <1>2, <1>3
<1>5. q \in Requests /\ q # None
  BY <1>1, <1>2, NoneAssumption DEF Requests
<1>6. s.withdrawalRequests[id] = None
  BY <1>2 DEF Consistent, StateType, MapsAgree, Keys
<1>7. n = [s EXCEPT !.balance = b, !.locked = l, !.lastWithdrawalRequestId = id,
                    !.withdrawalRequests = m]
  <2>. DEFINE s1 == [s EXCEPT !.balance = b, !.locked = l]
  <2>1. n = RegistryCreateWithdrawal(s1, w.amount, w.maxFee, w.caller, w.recipient)
    BY DEF InitiateWithdrawal, ProtocolLock
  <2>2. /\ s1.withdrawalRequests = s.withdrawalRequests
        /\ s1.lastWithdrawalRequestId = s.lastWithdrawalRequestId
        /\ s1.burnChain = s.burnChain
    BY DEF Consistent, StateType
  <2>3. n = [s1 EXCEPT !.lastWithdrawalRequestId = id, !.withdrawalRequests = m]
    BY <1>6, <2>1, <2>2, Zenon DEF RegistryCreateWithdrawal, MapInsert, Consistent, StateType
  <2>. QED  BY <2>3 DEF Consistent, StateType
<1>e. WithdrawalEffect(s, w, n)
  BY <1>5, <1>7, Zenon DEF WithdrawalEffect, Consistent, StateType, SameRecords, SameRequests,
     SameDecisions, SameDeposits, SameKeys
<1>. HIDE DEF b, n, q, l, f
<1>8. n \in StateType
  <2>1. m \in [RequestIds -> Requests \cup {None}]
    BY <1>2, <1>5 DEF Consistent, StateType
  <2>2. id \in 0 .. MaxRequests
    BY <1>2, NumbersAssumption DEF RequestIds
  <2>. HIDE DEF m, id
  <2>. QED  BY <1>4, <1>7, <2>1, <2>2, Zenon DEF Consistent, StateType
<1>9. MapsAgree(n)
  <2>1. /\ n.withdrawalRequests = m /\ n.lastWithdrawalRequestId = id
        /\ n.withdrawalStatus = s.withdrawalStatus
        /\ n.completedWithdrawalSweep = s.completedWithdrawalSweep
        /\ n.feesPaid = s.feesPaid /\ n.completedDeposits = s.completedDeposits
        /\ n.depositStatus = s.depositStatus
    BY <1>7 DEF Consistent, StateType
  <2>2. Accepted(n) = Accepted(s)
    BY <2>1 DEF Accepted
  <2>3. Keys(m) = Keys(s.withdrawalRequests) \cup {id}
    BY <1>2, <1>5 DEF Keys, Consistent, StateType
  <2>4. 1 .. id = (1 .. s.lastWithdrawalRequestId) \cup {id}
    <3>1. s.lastWithdrawalRequestId \in Nat
      BY NumbersAssumption DEF Consistent, StateType
    <3>. QED  BY <3>1
  <2>. HIDE DEF m, id
  <2>. QED  BY <2>1, <2>2, <2>3, <2>4 DEF MapsAgree, Consistent
<1>10. SweepsOnFork(n)
  BY <1>7 DEF Consistent, StateType, SweepsOnFork, OnFork, GetBurnHeader, Keys
<1>. QED  BY <1>e, <1>8, <1>9, <1>10 DEF Consistent, n

\* What a decision on a withdrawal request knows of the request.
LEMMA PendingRequest ==
  ASSUME NEW s, Consistent(s), NEW c, NEW w \in Completions(c),
         CompleteWithdrawalOk(s, w)
  PROVE  /\ w.id \in RequestIds
         /\ s.withdrawalRequests[w.id] \in Requests
         /\ s.withdrawalStatus[w.id] = None
         /\ s.completedWithdrawalSweep[w.id] = None
         /\ s.feesPaid[w.id] = None
         /\ s.balance \in [Users -> Nat] /\ s.locked \in [Users -> Nat]
<1>1. w.id \in RequestIds
  BY DEF Completions, RequestIds
<1>2. s.withdrawalStatus[w.id] = None
  BY DEF CompleteWithdrawalOk, IsPending
<1>3. w.id \notin Accepted(s)
  BY <1>2, NoneAssumption DEF Accepted
<1>. QED  BY <1>1, <1>2, <1>3
          DEF Consistent, StateType, MapsAgree, Keys, CompleteWithdrawalOk

\* reject-withdrawal-request decides on a pending request.
LEMMA RejectWithdrawalConsistent ==
  ASSUME NEW s, Consistent(s), NEW c, NEW w \in Completions(c),
         CompleteWithdrawalOk(s, w)
  PROVE  Consistent(RejectWithdrawal(s, w)) /\ RejectEffect(s, w, RejectWithdrawal(s, w))
<1>. DEFINE r == s.withdrawalRequests[w.id]
            f == r.amount + r.maxFee
            b == [s.balance EXCEPT ![r.sender] = @ + f]
            l == [s.locked EXCEPT ![r.sender] = @ - f]
            m == [s.withdrawalStatus EXCEPT ![w.id] = "rejected"]
            n == RejectWithdrawal(s, w)
<1>1. /\ w.id \in RequestIds /\ r \in Requests /\ s.withdrawalStatus[w.id] = None
      /\ s.balance \in [Users -> Nat] /\ s.locked \in [Users -> Nat]
  BY PendingRequest
<1>2. r.sender \in Users /\ f \in Nat /\ f <= s.locked[r.sender]
  BY <1>1 DEF Requests, CompleteWithdrawalOk
<1>3. b \in [Users -> Nat] /\ l \in [Users -> Nat]
  BY <1>1, <1>2
<1>4. n = [s EXCEPT !.balance = b, !.locked = l, !.withdrawalStatus = m]
  <2>. DEFINE s1 == [s EXCEPT !.balance = b, !.locked = l]
  <2>1. n = RegistryRejectWithdrawal(s1, w.id)
    BY DEF RejectWithdrawal, ProtocolUnlock
  <2>2. s1.withdrawalStatus = s.withdrawalStatus
    BY DEF Consistent, StateType
  <2>3. n = [s1 EXCEPT !.withdrawalStatus = m]
    BY <1>1, <2>1, <2>2, Zenon DEF RegistryRejectWithdrawal, MapInsert, Consistent, StateType
  <2>. QED  BY <2>3 DEF Consistent, StateType
<1>5. w.id \in Keys(s.withdrawalRequests)
  BY <1>1 DEF CompleteWithdrawalOk, Keys, Consistent, StateType
<1>e. RejectEffect(s, w, n)
  BY <1>4 DEF RejectEffect, Consistent, StateType, SameRecords, SameRequests,
     SameDecisions, SameDeposits, SameKeys
<1>. HIDE DEF b, n, l, f, r
<1>6. n \in StateType
  BY <1>1, <1>3, <1>4, ZenonT(30) DEF Consistent, StateType
<1>7. MapsAgree(n)
  BY <1>1, <1>4, <1>5, NoneAssumption DEF Consistent, StateType, MapsAgree, Keys, Accepted
<1>8. SweepsOnFork(n)
  BY <1>4 DEF Consistent, StateType, SweepsOnFork, OnFork, GetBurnHeader, Keys
<1>. QED  BY <1>e, <1>6, <1>7, <1>8 DEF Consistent, n

\* accept-withdrawal-request decides on a pending request, and records the
\* fee and a sweep on the fork.
LEMMA AcceptWithdrawalConsistent ==
  ASSUME NEW s, Consistent(s), NEW c, NEW w \in Completions(c),
         AcceptWithdrawalOk(s, w)
  PROVE  Consistent(AcceptWithdrawal(s, w)) /\ AcceptEffect(s, w, AcceptWithdrawal(s, w))
<1>. DEFINE r == s.withdrawalRequests[w.id]
            f == r.amount + r.maxFee
            b == IF r.maxFee - w.fee = 0 THEN s.balance
                 ELSE [s.balance EXCEPT ![r.sender] = @ + (r.maxFee - w.fee)]
            l == [s.locked EXCEPT ![r.sender] = @ - f]
            e == [sweepTxid |-> w.sweepTxid, burnHash |-> w.burnHash,
                  burnHeight |-> w.burnHeight]
            m == [s.withdrawalStatus EXCEPT ![w.id] = "accepted"]
            p == [s.completedWithdrawalSweep EXCEPT ![w.id] = e]
            g == [s.feesPaid EXCEPT ![w.id] = w.fee]
            n == AcceptWithdrawal(s, w)
<1>0. CompleteWithdrawalOk(s, w)
  BY DEF AcceptWithdrawalOk
<1>1. /\ w.id \in RequestIds /\ r \in Requests /\ s.withdrawalStatus[w.id] = None
      /\ s.completedWithdrawalSweep[w.id] = None /\ s.feesPaid[w.id] = None
      /\ s.balance \in [Users -> Nat] /\ s.locked \in [Users -> Nat]
  BY <1>0, PendingRequest
<1>2. /\ r.sender \in Users /\ f \in Nat /\ f <= s.locked[r.sender]
      /\ r.maxFee \in Nat
  BY <1>0, <1>1 DEF Requests, CompleteWithdrawalOk
<1>3. w.fee \in Nat /\ w.fee <= r.maxFee
  <2>1. w.fee \in Amounts
    BY DEF Completions
  <2>2. w.fee \in Nat
    BY <2>1, NumbersAssumption, Zenon
  <2>. QED  BY <2>2 DEF AcceptWithdrawalOk
<1>4. b \in [Users -> Nat] /\ l \in [Users -> Nat]
  BY <1>1, <1>2, <1>3
<1>5. e \in Sweeps
  <2>1. w.sweepTxid \in Txids /\ w.burnHeight \in 1 .. MaxHeight /\ w.burnHash \in HeaderHashes
    BY DEF Completions
  <2>2. w.burnHash \in BlockHashes
    BY <2>1, NumbersAssumption DEF HeaderHashes, BlockHashes
  <2>3. w.burnHeight \in Nat
    BY <2>1, NumbersAssumption
  <2>. QED  BY <2>1, <2>2, <2>3 DEF Sweeps
<1>6. n = [s EXCEPT !.balance = b, !.locked = l, !.withdrawalStatus = m,
                    !.completedWithdrawalSweep = p, !.feesPaid = g]
  <2>. DEFINE s1 == [s EXCEPT !.locked = l]
              s2 == [s EXCEPT !.locked = l, !.balance = b]
              s3 == RegistryAcceptWithdrawal(s2, w.id, w.burnHash, w.burnHeight, w.sweepTxid)
  <2>1. s1.balance = s.balance /\ s2.balance = b
    BY DEF Consistent, StateType
  <2>2. (IF r.maxFee - w.fee = 0 THEN s1
         ELSE ProtocolMint(s1, r.maxFee - w.fee, r.sender)) = s2
    BY <2>1, Zenon DEF ProtocolMint, Consistent, StateType
  <2>3. n = [s3 EXCEPT !.feesPaid = MapInsert(@, w.id, w.fee)]
    BY <2>2, Zenon DEF AcceptWithdrawal, ProtocolBurnLocked
  <2>4. /\ s2.withdrawalStatus = s.withdrawalStatus /\ s2.feesPaid = s.feesPaid
        /\ s2.completedWithdrawalSweep = s.completedWithdrawalSweep
    BY DEF Consistent, StateType
  <2>5. s3 = [s2 EXCEPT !.withdrawalStatus = m, !.completedWithdrawalSweep = p]
    BY <1>1, <2>4, Zenon DEF RegistryAcceptWithdrawal, MapInsert, Consistent, StateType
  <2>. HIDE DEF s3, m, p, g, b, l
  <2>6. s3.feesPaid = s.feesPaid
    BY <2>5 DEF Consistent, StateType
  <2>7. n = [s3 EXCEPT !.feesPaid = g]
    BY <1>1, <2>3, <2>6 DEF MapInsert, g
  <2>. QED  BY <2>5, <2>7, Zenon DEF Consistent, StateType
<1>7. w.id \in Keys(s.withdrawalRequests)
  BY <1>0, <1>1 DEF CompleteWithdrawalOk, Keys, Consistent, StateType
<1>8. OnFork(s, e.burnHash, e.burnHeight)
  BY DEF AcceptWithdrawalOk, BurnHashOk, OnFork
<1>9. /\ m \in [RequestIds -> {"accepted", "rejected", None}]
      /\ p \in [RequestIds -> Sweeps \cup {None}]
      /\ g \in [RequestIds -> Nat \cup {None}]
  BY <1>1, <1>3, <1>5, Zenon DEF Consistent, StateType
<1>e. AcceptEffect(s, w, n)
  BY <1>1, <1>2, <1>3, <1>6 DEF AcceptEffect, Consistent, StateType, SameRecords, SameRequests,
     SameDecisions, SameDeposits, SameKeys
<1>. HIDE DEF b, n, l, f, r, e
<1>10. n \in StateType
  <2>. HIDE DEF m, p, g
  <2>. QED  BY <1>4, <1>6, <1>9, Zenon DEF Consistent, StateType
<1>11. MapsAgree(n)
  <2>1. /\ n.withdrawalStatus = m /\ n.completedWithdrawalSweep = p /\ n.feesPaid = g
        /\ n.withdrawalRequests = s.withdrawalRequests
        /\ n.lastWithdrawalRequestId = s.lastWithdrawalRequestId
        /\ n.completedDeposits = s.completedDeposits
        /\ n.depositStatus = s.depositStatus
    BY <1>6 DEF Consistent, StateType
  <2>2. e # None /\ w.fee # None
    BY <1>3, <1>5, NoneAssumption
  <2>3. Accepted(n) = Accepted(s) \cup {w.id}
    BY <1>1, <2>1, NoneAssumption DEF Accepted, Consistent, StateType
  <2>4. Keys(p) = Keys(s.completedWithdrawalSweep) \cup {w.id}
    BY <1>1, <2>2 DEF Keys, Consistent, StateType
  <2>5. Keys(g) = Keys(s.feesPaid) \cup {w.id}
    BY <1>1, <2>2 DEF Keys, Consistent, StateType
  <2>6. Keys(m) = Keys(s.withdrawalStatus) \cup {w.id}
    BY <1>1, NoneAssumption DEF Keys, Consistent, StateType
  <2>. QED  BY <1>7, <2>1, <2>3, <2>4, <2>5, <2>6, Zenon DEF MapsAgree, Consistent
<1>12. SweepsOnFork(n)
  BY <1>1, <1>5, <1>6, <1>8 DEF Consistent, StateType, SweepsOnFork, OnFork, GetBurnHeader, Keys
<1>. QED  BY <1>e, <1>10, <1>11, <1>12 DEF Consistent, n

\* rotate-keys-wrapper writes none of the maps.
LEMMA RotateKeysConsistent ==
  ASSUME NEW s, Consistent(s), NEW c, NEW r \in Rotations(c), RotateKeysOk(s, r)
  PROVE  Consistent(RotateKeys(s, r)) /\ NoEffect(s, RotateKeys(s, r))
<1>. DEFINE n == RotateKeys(s, r)
            p == PubkeysToPrincipal(r.keys, r.threshold)
<1>1. r.keys \in SignerSets /\ r.threshold \in 0 .. MaxSigners + 1 /\ r.aggregateKey \in AggregateKeys
  BY DEF Rotations
<1>2. PICK k \in 0 .. MaxSigners : r.keys \in [1 .. k -> SignerKeys]
  BY <1>1 DEF SignerSets
<1>3. r.keys \in Seq(SignerKeys) /\ Len(r.keys) = k
  BY <1>2, NumbersAssumption
<1>4. r.threshold \in 1 .. MaxSigners
  BY <1>1, <1>3, NumbersAssumption DEF RotateKeysOk
<1>5. p \in SignerPrincipals
  BY <1>1, <1>4 DEF SignerPrincipals
<1>6. n = [s EXCEPT !.aggregatePubkeys = @ \cup {r.aggregateKey},
                    !.currentSignerSet = r.keys, !.currentSignerPrincipal = p,
                    !.currentSignatureThreshold = r.threshold,
                    !.currentAggregatePubkey = r.aggregateKey]
  BY DEF RotateKeys, RegistryRotateKeys
<1>e. NoEffect(s, n)
  BY <1>6 DEF NoEffect, Consistent, StateType, SameRecords, SameRequests,
     SameDecisions, SameDeposits, SameKeys
<1>. HIDE DEF n, p
<1>7. n \in StateType
  <2>1. /\ r.threshold \in Nat /\ r.aggregateKey \in AggregateKeys \cup {None}
        /\ s.aggregatePubkeys \cup {r.aggregateKey} \in SUBSET AggregateKeys
    BY <1>1, NumbersAssumption DEF Consistent, StateType
  <2>. QED  BY <1>3, <1>5, <1>6, <2>1, Zenon DEF Consistent, StateType
<1>8. MapsAgree(n)
  BY <1>6 DEF Consistent, StateType, MapsAgree, Keys, Accepted
<1>9. SweepsOnFork(n)
  BY <1>6 DEF Consistent, StateType, SweepsOnFork, OnFork, GetBurnHeader, Keys
<1>. QED  BY <1>e, <1>7, <1>8, <1>9 DEF Consistent, n

\* update-protocol-contract-wrapper writes none of the maps.
LEMMA UpdateProtocolContractConsistent ==
  ASSUME NEW s, Consistent(s), NEW c, NEW u \in Updates(c)
  PROVE  /\ Consistent(UpdateProtocolContract(s, u))
         /\ NoEffect(s, UpdateProtocolContract(s, u))
<1>. DEFINE n == UpdateProtocolContract(s, u)
<1>1. u.role \in Roles /\ u.contract \in Contracts
  BY ContractsAssumption DEF Updates
<1>. DEFINE a == [s.activeProtocolContracts EXCEPT ![u.role] = u.contract]
            b == [s.activeProtocolRoles EXCEPT ![u.contract] = u.role]
<1>2. n = [s EXCEPT !.activeProtocolContracts = a, !.activeProtocolRoles = b]
  BY DEF UpdateProtocolContract, RegistryUpdateProtocolContract, Consistent, StateType
<1>e. NoEffect(s, n)
  BY <1>2 DEF NoEffect, Consistent, StateType, SameRecords, SameRequests,
     SameDecisions, SameDeposits, SameKeys
<1>. HIDE DEF n
<1>3. n \in StateType
  BY <1>1, <1>2, Zenon DEF Consistent, StateType
<1>4. MapsAgree(n)
  BY <1>2 DEF Consistent, StateType, MapsAgree, Keys, Accepted
<1>5. SweepsOnFork(n)
  BY <1>2 DEF Consistent, StateType, SweepsOnFork, OnFork, GetBurnHeader, Keys
<1>. QED  BY <1>e, <1>3, <1>4, <1>5 DEF Consistent, n

\* A new block changes the hash of no earlier block.
LEMMA BurnBlockConsistent ==
  ASSUME NEW s, Consistent(s), NEW f \in Forks
  PROVE  /\ Consistent([s EXCEPT !.burnChain = Append(@, f)])
         /\ NoEffect(s, [s EXCEPT !.burnChain = Append(@, f)])
<1>. DEFINE n == [s EXCEPT !.burnChain = Append(@, f)]
<1>e. NoEffect(s, n)
  BY DEF NoEffect, Consistent, StateType, SameRecords, SameRequests,
     SameDecisions, SameDeposits, SameKeys
<1>1. s.burnChain \in Seq(Forks)
  BY DEF Consistent, StateType, BlockHashes
<1>2. /\ Append(s.burnChain, f) \in Seq(Forks)
      /\ Len(Append(s.burnChain, f)) = Len(s.burnChain) + 1
      /\ Len(s.burnChain) \in Nat
  BY <1>1
<1>3. \A h \in 1 .. Len(s.burnChain) :
        SubSeq(Append(s.burnChain, f), 1, h) = SubSeq(s.burnChain, 1, h)
  BY <1>1, <1>2
<1>4. n \in StateType
  BY <1>2, Zenon DEF Consistent, StateType, BlockHashes
<1>5. MapsAgree(n)
  BY DEF Consistent, StateType, MapsAgree, Keys, Accepted
<1>6. \A h, i : OnFork(s, h, i) => OnFork(n, h, i)
  BY <1>2, <1>3 DEF OnFork, GetBurnHeader, Consistent, StateType
<1>7. SweepsOnFork(n)
  BY <1>6, Zenon DEF Consistent, StateType, SweepsOnFork, Keys
<1>. QED  BY <1>e, <1>4, <1>5, <1>7 DEF Consistent

-----------------------------------------------------------------------------
(* Every call keeps the accounts: what each user has locked, and the sum   *)
(* of all balances.                                                        *)

\* The sets the accounts are summed over are finite, and what is summed are
\* integers.
LEMMA Summable ==
  ASSUME NEW s, Consistent(s)
  PROVE  /\ \A u \in Users : IsFiniteSet(PendingOf(s, u))
         /\ IsFiniteSet(Accepted(s))
         /\ \A id \in Keys(s.withdrawalRequests) :
              id \in RequestIds /\ s.withdrawalRequests[id] \in Requests
         /\ \A id \in Keys(s.withdrawalRequests) : Reserve(s)[id] \in Int
         /\ \A u \in Users : Holding(s)[u] \in Int
         /\ \A o \in Keys(s.completedDeposits) : Deposited(s)[o] \in Int
         /\ Accepted(s) \subseteq Keys(s.withdrawalRequests)
         /\ \A id \in Accepted(s) : s.feesPaid[id] \in Nat
         /\ \A id \in Accepted(s) : Withdrawn(s)[id] \in Int
<1>1. \A id \in Keys(s.withdrawalRequests) :
        id \in RequestIds /\ s.withdrawalRequests[id] \in Requests
  BY DEF Consistent, StateType, Keys
<1>2. IsFiniteSet(RequestIds)
  BY FS_Interval, NumbersAssumption DEF RequestIds
<1>3. \A u \in Users : IsFiniteSet(PendingOf(s, u))
  <2>1. \A u \in Users : PendingOf(s, u) \subseteq RequestIds
    BY <1>1 DEF PendingOf
  <2>. QED  BY <1>2, <2>1, FS_Subset
<1>4. IsFiniteSet(Accepted(s))
  <2>1. Accepted(s) \subseteq RequestIds
    BY DEF Accepted
  <2>. QED  BY <1>2, <2>1, FS_Subset
<1>5. \A id \in Keys(s.withdrawalRequests) : Reserve(s)[id] \in Int
  BY <1>1 DEF Reserve, Requests
<1>6. \A u \in Users : Holding(s)[u] \in Int
  BY DEF Holding, Consistent, StateType
<1>7. \A o \in Keys(s.completedDeposits) : Deposited(s)[o] \in Int
  <2>1. \A o \in Keys(s.completedDeposits) : s.completedDeposits[o] \in CompletedDeposits
    BY DEF Consistent, StateType, Keys
  <2>. QED  BY <2>1 DEF Deposited, CompletedDeposits
<1>8. Accepted(s) \subseteq Keys(s.withdrawalRequests)
  <2>1. Accepted(s) \subseteq Keys(s.withdrawalStatus)
    BY NoneAssumption DEF Consistent, StateType, Accepted, Keys
  <2>. QED  BY <2>1 DEF Consistent, MapsAgree
<1>9. \A id \in Accepted(s) : s.feesPaid[id] \in Nat
  <2>1. Accepted(s) = Keys(s.feesPaid)
    BY DEF Consistent, MapsAgree
  <2>2. \A id \in Keys(s.feesPaid) : s.feesPaid[id] \in Nat
    BY DEF Consistent, StateType, Keys
  <2>. QED  BY <2>1, <2>2
<1>10. \A id \in Accepted(s) : Withdrawn(s)[id] \in Int
  BY <1>1, <1>8, <1>9 DEF Withdrawn, Requests
<1>. QED  BY <1>1, <1>3, <1>4, <1>5, <1>6, <1>7, <1>8, <1>9, <1>10

\* The four sums as integers.
LEMMA SumsAreIntegers ==
  ASSUME NEW s, Sound(s)
  PROVE  /\ SumFunctionOnSet(Holding(s), Users) \in Int
         /\ SumFunctionOnSet(Deposited(s), Keys(s.completedDeposits)) \in Int
         /\ SumFunctionOnSet(Withdrawn(s), Accepted(s)) \in Int
         /\ \A u \in Users : SumFunctionOnSet(Reserve(s), PendingOf(s, u)) \in Int
<1>0. Consistent(s) /\ IsFiniteSet(Keys(s.completedDeposits))
  BY DEF Sound, Backed, Consistent, MapsAgree
<1>1. SumFunctionOnSet(Holding(s), Users) \in Int
  BY <1>0, Summable, SumRemove, UsersAssumption
<1>2. SumFunctionOnSet(Deposited(s), Keys(s.completedDeposits)) \in Int
  BY <1>0, Summable, SumRemove
<1>3. SumFunctionOnSet(Withdrawn(s), Accepted(s)) \in Int
  BY <1>0, Summable, SumRemove
<1>4. ASSUME NEW u \in Users
      PROVE  SumFunctionOnSet(Reserve(s), PendingOf(s, u)) \in Int
  <2>1. PendingOf(s, u) \subseteq Keys(s.withdrawalRequests)
    BY DEF PendingOf
  <2>2. IsFiniteSet(PendingOf(s, u))
    BY <1>0, Summable
  <2>3. \A id \in PendingOf(s, u) : Reserve(s)[id] \in Int
    BY <1>0, <2>1, Summable
  <2>. QED  BY <2>2, <2>3, SumRemove
<1>. QED  BY <1>1, <1>2, <1>3, <1>4

\* Calls that write neither requests nor decisions nor the locked token.
LEMMA SameEscrow ==
  ASSUME NEW s, NEW n, RequestsBacked(s), n.locked = s.locked,
         SameRequests(s, n), n.withdrawalStatus = s.withdrawalStatus
  PROVE  RequestsBacked(n)
<1>1. Reserve(n) = Reserve(s) /\ \A u \in Users : PendingOf(n, u) = PendingOf(s, u)
  BY DEF Reserve, PendingOf, IsPending, SameRequests
<1>. QED  BY <1>1 DEF RequestsBacked

\* Rotating keys, updating a contract and a new block.
LEMMA NoEffectBacked ==
  ASSUME NEW s, NEW n, Sound(s), NoEffect(s, n)
  PROVE  Backed(n)
<1>1. RequestsBacked(n)
  BY SameEscrow DEF Sound, Backed, NoEffect, SameRecords, SameRequests, SameDecisions
<1>2. /\ Holding(n) = Holding(s) /\ Deposited(n) = Deposited(s)
      /\ Withdrawn(n) = Withdrawn(s) /\ Accepted(n) = Accepted(s)
      /\ Keys(n.completedDeposits) = Keys(s.completedDeposits)
      /\ n.depositStatus = s.depositStatus
  BY DEF NoEffect, SameRecords, SameRequests, SameDecisions, SameDeposits,
     Holding, Deposited, Withdrawn, Accepted, Keys
<1>. QED  BY <1>1, <1>2 DEF Sound, Backed, SupplyBacked

\* A transfer takes from one user what it gives to another.
LEMMA TransferBacked ==
  ASSUME NEW s, NEW n, NEW c, NEW t \in Transfers(c), Sound(s), Consistent(n),
         TransferOk(s, t), TransferEffect(s, t, n)
  PROVE  Backed(n)
<1>1. RequestsBacked(n)
  BY SameEscrow DEF Sound, Backed, TransferEffect, SameRecords, SameRequests, SameDecisions
<1>2. /\ Deposited(n) = Deposited(s)
      /\ Withdrawn(n) = Withdrawn(s) /\ Accepted(n) = Accepted(s)
      /\ Keys(n.completedDeposits) = Keys(s.completedDeposits)
      /\ n.depositStatus = s.depositStatus
  BY DEF TransferEffect, SameRecords, SameRequests, SameDecisions, SameDeposits,
     Deposited, Withdrawn, Accepted, Keys
<1>3. /\ t.sender \in Users /\ t.to \in Users /\ t.sender # t.to /\ t.amount \in Int
      /\ s.balance \in [Users -> Nat] /\ s.locked \in [Users -> Nat]
  <2>1. t.sender \in Users /\ t.to \in Users /\ t.amount \in Amounts
    BY DEF Transfers
  <2>2. t.amount \in Nat
    BY <2>1, NumbersAssumption, Zenon
  <2>3. s.balance \in [Users -> Nat] /\ s.locked \in [Users -> Nat]
    BY Zenon DEF Sound, Consistent, StateType
  <2>. QED  BY <2>1, <2>2, <2>3 DEF TransferOk
<1>. DEFINE h == [Holding(s) EXCEPT ![t.sender] = @ - t.amount]
<1>4. /\ \A u \in Users : Holding(s)[u] \in Int /\ h[u] \in Int /\ Holding(n)[u] \in Int
      /\ \A u \in Users \ {t.sender} : h[u] = Holding(s)[u]
      /\ \A u \in Users \ {t.to} : Holding(n)[u] = h[u]
      /\ h[t.sender] = Holding(s)[t.sender] - t.amount
      /\ Holding(n)[t.to] = h[t.to] + t.amount
  BY <1>3 DEF TransferEffect, Holding
<1>. HIDE DEF h
<1>5. SumFunctionOnSet(h, Users) = SumFunctionOnSet(Holding(s), Users)
                                     - Holding(s)[t.sender] + h[t.sender]
  BY <1>3, <1>4, SumChange, UsersAssumption
<1>6. SumFunctionOnSet(Holding(n), Users) = SumFunctionOnSet(h, Users)
                                              - h[t.to] + Holding(n)[t.to]
  BY <1>3, <1>4, SumChange, UsersAssumption
<1>7. SumFunctionOnSet(Holding(s), Users) \in Int
  BY SumsAreIntegers
<1>8. SumFunctionOnSet(Holding(n), Users) = SumFunctionOnSet(Holding(s), Users)
  BY <1>3, <1>4, <1>5, <1>6, <1>7
<1>. QED  BY <1>1, <1>2, <1>8 DEF Sound, Backed, SupplyBacked

\* A deposit mints what it records.
LEMMA DepositBacked ==
  ASSUME NEW s, NEW n, NEW c, NEW d \in Deposits(c), Sound(s), Consistent(n),
         CompleteDepositOk(s, d), DepositEffect(s, d, n)
  PROVE  Backed(n)
<1>1. RequestsBacked(n)
  BY SameEscrow DEF Sound, Backed, DepositEffect, SameRequests, SameDecisions
<1>2. Withdrawn(n) = Withdrawn(s) /\ Accepted(n) = Accepted(s)
  BY Zenon DEF DepositEffect, SameRequests, SameDecisions, Withdrawn, Accepted
<1>3. /\ d.recipient \in Users /\ d.amount \in Nat /\ d.outpoint \in Outpoints
      /\ s.balance \in [Users -> Nat] /\ s.locked \in [Users -> Nat]
      /\ s.completedDeposits \in [Outpoints -> CompletedDeposits \cup {None}]
      /\ Keys(s.completedDeposits) = s.depositStatus
      /\ d.outpoint \notin s.depositStatus /\ IsFiniteSet(s.depositStatus)
  <2>1. d.recipient \in Users /\ d.amount \in Amounts /\ d.outpoint \in Outpoints
    BY DEF Deposits
  <2>2. d.amount \in Nat
    BY <2>1, NumbersAssumption, Zenon
  <2>3. /\ s.balance \in [Users -> Nat] /\ s.locked \in [Users -> Nat]
        /\ s.completedDeposits \in [Outpoints -> CompletedDeposits \cup {None}]
    BY Zenon DEF Sound, Consistent, StateType
  <2>. QED  BY <2>1, <2>2, <2>3 DEF Sound, Backed, Consistent, MapsAgree, CompleteDepositOk
<1>4. /\ \A u \in Users : Holding(s)[u] \in Int /\ Holding(n)[u] \in Int
      /\ \A u \in Users \ {d.recipient} : Holding(s)[u] = Holding(n)[u]
      /\ Holding(n)[d.recipient] = Holding(s)[d.recipient] + d.amount
  BY <1>3 DEF DepositEffect, Holding
<1>5. SumFunctionOnSet(Holding(n), Users)
        = SumFunctionOnSet(Holding(s), Users)
            - Holding(s)[d.recipient] + Holding(n)[d.recipient]
  BY <1>3, <1>4, SumChange, UsersAssumption
<1>6. PICK e \in CompletedDeposits :
        /\ e.amount = d.amount
        /\ n.completedDeposits = [s.completedDeposits EXCEPT ![d.outpoint] = e]
  BY DEF DepositEffect
<1>7. e # None
  BY NoneAssumption
<1>8. Keys(n.completedDeposits) = s.depositStatus \cup {d.outpoint}
  BY <1>3, <1>6, <1>7 DEF Keys
<1>9. /\ \A o \in s.depositStatus : Deposited(s)[o] = Deposited(n)[o]
      /\ Deposited(n)[d.outpoint] = d.amount
  BY <1>3, <1>6, <1>8 DEF Deposited
<1>10. \A o \in s.depositStatus : Deposited(n)[o] \in Int
  BY <1>3, <1>9, Summable, Zenon DEF Sound
<1>11. SumFunctionOnSet(Deposited(n), s.depositStatus \cup {d.outpoint})
         = SumFunctionOnSet(Deposited(s), s.depositStatus) + Deposited(n)[d.outpoint]
  BY <1>3, <1>9, <1>10, SumAdd
<1>12. IsFiniteSet(n.depositStatus)
  BY <1>3, FS_AddElement DEF DepositEffect
<1>13. /\ SumFunctionOnSet(Holding(s), Users) \in Int
       /\ SumFunctionOnSet(Deposited(s), s.depositStatus) \in Int
       /\ SumFunctionOnSet(Withdrawn(s), Accepted(s)) \in Int
  BY <1>3, SumsAreIntegers, Zenon
<1>14. SupplyBacked(n)
  <2>1. SumFunctionOnSet(Holding(s), Users)
          = SumFunctionOnSet(Deposited(s), s.depositStatus)
              - SumFunctionOnSet(Withdrawn(s), Accepted(s))
    BY <1>3, Zenon DEF Sound, Backed, SupplyBacked
  <2>2. SumFunctionOnSet(Holding(n), Users)
          = SumFunctionOnSet(Holding(s), Users) + d.amount
    BY <1>3, <1>4, <1>5, <1>13
  <2>. QED  BY <1>2, <1>3, <1>8, <1>9, <1>11, <1>13, <2>1, <2>2 DEF SupplyBacked
<1>. QED  BY <1>1, <1>12, <1>14 DEF Backed

\* A withdrawal request locks what it puts aside.
LEMMA WithdrawalBacked ==
  ASSUME NEW s, NEW n, NEW c \in Users, NEW w \in Withdrawals(c), Sound(s),
         Consistent(n), s.lastWithdrawalRequestId < MaxRequests,
         WithdrawalEffect(s, w, n)
  PROVE  Backed(n)
<1>. DEFINE id == s.lastWithdrawalRequestId + 1
            f == w.amount + w.maxFee
<1>1. /\ w.caller \in Users /\ f \in Nat
      /\ s.balance \in [Users -> Nat] /\ s.locked \in [Users -> Nat]
      /\ s.withdrawalRequests \in [RequestIds -> Requests \cup {None}]
      /\ s.lastWithdrawalRequestId \in Nat /\ id \in RequestIds
  <2>1. w.caller \in Users /\ w.amount \in Amounts /\ w.maxFee \in Amounts
    BY DEF Withdrawals
  <2>2. w.amount \in Nat /\ w.maxFee \in Nat
    BY <2>1, NumbersAssumption, Zenon
  <2>3. /\ s.balance \in [Users -> Nat] /\ s.locked \in [Users -> Nat]
        /\ s.withdrawalRequests \in [RequestIds -> Requests \cup {None}]
        /\ s.lastWithdrawalRequestId \in Nat
    BY NumbersAssumption DEF Sound, Consistent, StateType
  <2>4. id \in RequestIds
    BY <2>3, NumbersAssumption DEF RequestIds
  <2>. QED  BY <2>1, <2>2, <2>3, <2>4
<1>2. PICK q \in Requests :
        /\ q.amount = w.amount /\ q.maxFee = w.maxFee /\ q.sender = w.caller
        /\ n.withdrawalRequests = [s.withdrawalRequests EXCEPT ![id] = q]
  BY Zenon DEF WithdrawalEffect
<1>3. q # None
  BY NoneAssumption
<1>4. id \notin Keys(s.withdrawalRequests) /\ s.withdrawalStatus[id] = None
  <2>1. id \notin Keys(s.withdrawalRequests)
    BY <1>1 DEF Sound, Consistent, MapsAgree
  <2>2. id \notin Keys(s.withdrawalStatus)
    BY <2>1 DEF Sound, Consistent, MapsAgree
  <2>. QED  BY <1>1, <2>1, <2>2 DEF Keys, Sound, Consistent, StateType
<1>5. Keys(n.withdrawalRequests) = Keys(s.withdrawalRequests) \cup {id}
  BY <1>1, <1>2, <1>3 DEF Keys
<1>6. /\ n.withdrawalRequests[id] = q
      /\ \A k \in Keys(s.withdrawalRequests) :
            n.withdrawalRequests[k] = s.withdrawalRequests[k]
  BY <1>1, <1>2, <1>4, Zenon DEF Keys
<1>7. /\ Reserve(n)[id] = f
      /\ \A k \in Keys(s.withdrawalRequests) : Reserve(s)[k] = Reserve(n)[k]
  BY <1>2, <1>5, <1>6 DEF Reserve
<1>8. n.withdrawalStatus = s.withdrawalStatus
  BY DEF WithdrawalEffect, SameDecisions
<1>. HIDE DEF id, f
<1>9. RequestsBacked(n)
  <2>. SUFFICES ASSUME NEW u \in Users
                PROVE  n.locked[u] = SumFunctionOnSet(Reserve(n), PendingOf(n, u))
    BY DEF RequestsBacked
  <2>1. s.locked[u] = SumFunctionOnSet(Reserve(s), PendingOf(s, u))
    BY DEF Sound, Backed, RequestsBacked
  <2>2. PendingOf(s, u) \subseteq Keys(s.withdrawalRequests)
    BY DEF PendingOf
  <2>3. IsFiniteSet(PendingOf(s, u)) /\ id \notin PendingOf(s, u)
    BY <1>4, <2>2, Summable, Zenon DEF Sound
  <2>4. \A k \in PendingOf(s, u) : Reserve(s)[k] = Reserve(n)[k] /\ Reserve(n)[k] \in Int
    BY <1>7, <2>2, Summable DEF Sound
  <2>5. CASE u = w.caller
    <3>1. PendingOf(n, u) = PendingOf(s, u) \cup {id}
      BY <1>2, <1>4, <1>5, <1>6, <1>8, <2>5 DEF PendingOf, IsPending
    <3>2. SumFunctionOnSet(Reserve(n), PendingOf(s, u) \cup {id})
            = SumFunctionOnSet(Reserve(s), PendingOf(s, u)) + Reserve(n)[id]
      BY <1>1, <1>7, <2>3, <2>4, SumAdd
    <3>3. n.locked[u] = s.locked[u] + f
      BY <1>1, <2>5 DEF WithdrawalEffect, f
    <3>. QED  BY <1>7, <2>1, <3>1, <3>2, <3>3
  <2>6. CASE u # w.caller
    <3>1. PendingOf(n, u) = PendingOf(s, u)
      BY <1>2, <1>4, <1>5, <1>6, <1>8, <2>6, Zenon DEF PendingOf, IsPending
    <3>2. SumFunctionOnSet(Reserve(s), PendingOf(s, u))
            = SumFunctionOnSet(Reserve(n), PendingOf(s, u))
      BY <2>3, <2>4, SumSame, Zenon
    <3>3. n.locked[u] = s.locked[u]
      BY <1>1, <2>6 DEF WithdrawalEffect
    <3>. QED  BY <2>1, <3>1, <3>2, <3>3
  <2>. QED  BY <2>5, <2>6
<1>10. Holding(n) = Holding(s)
  <2>1. /\ n.balance = [s.balance EXCEPT ![w.caller] = @ - f]
        /\ n.locked = [s.locked EXCEPT ![w.caller] = @ + f]
    BY DEF WithdrawalEffect, f
  <2>2. \A u \in Users : n.balance[u] + n.locked[u] = s.balance[u] + s.locked[u]
    BY <1>1, <2>1
  <2>. QED  BY <2>2 DEF Holding
<1>11. Withdrawn(n) = Withdrawn(s) /\ Accepted(n) = Accepted(s)
  <2>1. n.feesPaid = s.feesPaid /\ Accepted(n) = Accepted(s)
    BY Zenon DEF WithdrawalEffect, SameDecisions, Accepted
  <2>2. \A k \in Accepted(s) : n.withdrawalRequests[k] = s.withdrawalRequests[k]
    BY <1>6, Summable DEF Sound
  <2>. QED  BY <2>1, <2>2 DEF Withdrawn
<1>12. /\ Deposited(n) = Deposited(s) /\ n.depositStatus = s.depositStatus
       /\ Keys(n.completedDeposits) = Keys(s.completedDeposits)
  BY Zenon DEF WithdrawalEffect, SameDeposits, Deposited, Keys
<1>. QED  BY <1>9, <1>10, <1>11, <1>12 DEF Sound, Backed, SupplyBacked

\* A decision releases exactly what its request has put aside.
LEMMA DecisionReleases ==
  ASSUME NEW s, NEW n, NEW c, NEW w \in Completions(c), Sound(s),
         CompleteWithdrawalOk(s, w), SameRequests(s, n),
         NEW v \in {"accepted", "rejected"},
         n.withdrawalStatus = [s.withdrawalStatus EXCEPT ![w.id] = v],
         n.locked = [s.locked EXCEPT
             ![s.withdrawalRequests[w.id].sender] =
                 @ - (s.withdrawalRequests[w.id].amount
                        + s.withdrawalRequests[w.id].maxFee)]
  PROVE  RequestsBacked(n)
<1>. DEFINE r == s.withdrawalRequests[w.id]
            f == r.amount + r.maxFee
<1>1. /\ w.id \in RequestIds /\ r \in Requests /\ s.withdrawalStatus[w.id] = None
      /\ s.locked \in [Users -> Nat]
  BY PendingRequest, Zenon DEF Sound
<1>2. r.sender \in Users /\ f \in Nat
  BY <1>1 DEF Requests
<1>3. w.id \in PendingOf(s, r.sender)
  BY <1>1 DEF PendingOf, IsPending, CompleteWithdrawalOk, Keys, Sound, Consistent, StateType
<1>4. v # None
  BY NoneAssumption
<1>5. Reserve(n) = Reserve(s) /\ Keys(n.withdrawalRequests) = Keys(s.withdrawalRequests)
  BY Zenon DEF SameRequests, Reserve
<1>6. \A k \in RequestIds : IsPending(n, k) <=> IsPending(s, k) /\ k # w.id
  BY <1>1, <1>4, Zenon DEF IsPending, Sound, Consistent, StateType
<1>7. Reserve(s)[w.id] = f
  BY <1>3 DEF Reserve, PendingOf
<1>8. n.locked = [s.locked EXCEPT ![r.sender] = @ - f]
  OBVIOUS
<1>9. \A k \in Keys(s.withdrawalRequests) : k \in RequestIds
  BY Summable, Zenon DEF Sound
<1>. SUFFICES ASSUME NEW u \in Users
              PROVE  n.locked[u] = SumFunctionOnSet(Reserve(s), PendingOf(n, u))
  BY <1>5, Zenon DEF RequestsBacked
<1>10. s.locked[u] = SumFunctionOnSet(Reserve(s), PendingOf(s, u))
  BY Zenon DEF Sound, Backed, RequestsBacked
<1>11. PendingOf(n, u) = PendingOf(s, u) \ {w.id}
  BY <1>5, <1>6, <1>9, Zenon DEF PendingOf, SameRequests
<1>. HIDE DEF f
<1>12. CASE u = r.sender
  <2>1. IsFiniteSet(PendingOf(s, u)) /\ \A k \in PendingOf(s, u) : Reserve(s)[k] \in Int
    BY Summable, ZenonT(20) DEF Sound, PendingOf
  <2>2. SumFunctionOnSet(Reserve(s), PendingOf(s, u))
          = Reserve(s)[w.id] + SumFunctionOnSet(Reserve(s), PendingOf(s, u) \ {w.id})
    BY <1>3, <1>12, <2>1, SumRemove
  <2>3. SumFunctionOnSet(Reserve(s), PendingOf(s, u) \ {w.id}) \in Int
    <3>1. IsFiniteSet(PendingOf(s, u) \ {w.id})
      BY <2>1, FS_RemoveElement, ZenonT(30)
    <3>. QED  BY <2>1, <3>1, SumRemove
  <2>4. n.locked[u] = s.locked[u] - f
    BY <1>1, <1>2, <1>8, <1>12, Zenon
  <2>. QED  BY <1>2, <1>7, <1>10, <1>11, <2>2, <2>3, <2>4
<1>13. CASE u # r.sender
  <2>1. w.id \notin PendingOf(s, u)
    BY <1>13 DEF PendingOf
  <2>2. PendingOf(n, u) = PendingOf(s, u)
    BY <1>11, <2>1, ZenonT(20)
  <2>3. n.locked[u] = s.locked[u]
    BY <1>1, <1>8, <1>13
  <2>. QED  BY <1>10, <2>2, <2>3, Zenon
<1>. QED  BY <1>12, <1>13, Zenon

\* A rejection gives it back to the requester.
LEMMA RejectBacked ==
  ASSUME NEW s, NEW n, NEW c, NEW w \in Completions(c), Sound(s), Consistent(n),
         CompleteWithdrawalOk(s, w), RejectEffect(s, w, n)
  PROVE  Backed(n)
<1>. DEFINE r == s.withdrawalRequests[w.id]
            f == r.amount + r.maxFee
<1>1. RequestsBacked(n)
  BY DecisionReleases, Zenon DEF RejectEffect
<1>2. /\ w.id \in RequestIds /\ r \in Requests /\ s.withdrawalStatus[w.id] = None
      /\ s.balance \in [Users -> Nat] /\ s.locked \in [Users -> Nat]
  BY PendingRequest DEF Sound
<1>3. r.sender \in Users /\ f \in Nat
  BY <1>2 DEF Requests
<1>4. /\ n.balance = [s.balance EXCEPT ![r.sender] = @ + f]
      /\ n.locked = [s.locked EXCEPT ![r.sender] = @ - f]
  BY DEF RejectEffect
<1>5. Holding(n) = Holding(s)
  <2>. HIDE DEF f, r
  <2>1. \A u \in Users : n.balance[u] + n.locked[u] = s.balance[u] + s.locked[u]
    BY <1>2, <1>3, <1>4
  <2>. QED  BY <2>1, Zenon DEF Holding
<1>6. Accepted(n) = Accepted(s)
  <2>1. n.withdrawalStatus = [s.withdrawalStatus EXCEPT ![w.id] = "rejected"]
    BY Zenon DEF RejectEffect
  <2>2. DOMAIN s.withdrawalStatus = RequestIds
    BY Zenon DEF Sound, Consistent, StateType
  <2>. QED  BY <1>2, <2>1, <2>2, NoneAssumption, Zenon DEF Accepted
<1>7. Withdrawn(n) = Withdrawn(s)
  BY <1>6, Zenon DEF Withdrawn, RejectEffect, SameRequests
<1>8. /\ Deposited(n) = Deposited(s) /\ n.depositStatus = s.depositStatus
      /\ Keys(n.completedDeposits) = Keys(s.completedDeposits)
  BY DEF RejectEffect, SameDeposits, Deposited, Keys
<1>. QED  BY <1>1, <1>5, <1>6, <1>7, <1>8 DEF Sound, Backed, SupplyBacked

\* An acceptance burns the amount and the fee that was paid on Bitcoin, and
\* gives back the rest of the fee reserve.
LEMMA AcceptBacked ==
  ASSUME NEW s, NEW n, NEW c, NEW w \in Completions(c), Sound(s), Consistent(n),
         AcceptWithdrawalOk(s, w), AcceptEffect(s, w, n)
  PROVE  Backed(n)
<1>. DEFINE r == s.withdrawalRequests[w.id]
<1>0. CompleteWithdrawalOk(s, w)
  BY DEF AcceptWithdrawalOk
<1>1. RequestsBacked(n)
  BY <1>0, DecisionReleases, Zenon DEF AcceptEffect
<1>2. /\ w.id \in RequestIds /\ r \in Requests /\ s.withdrawalStatus[w.id] = None
      /\ s.balance \in [Users -> Nat] /\ s.locked \in [Users -> Nat]
      /\ s.feesPaid[w.id] = None
  BY <1>0, PendingRequest DEF Sound
<1>3. /\ r.sender \in Users /\ r.amount \in Nat /\ r.maxFee \in Nat
      /\ w.fee \in Nat
  <2>1. w.fee \in Amounts
    BY Zenon DEF Completions
  <2>. QED  BY <1>2, <2>1, NumbersAssumption, Zenon DEF Requests
<1>4. /\ n.balance = [s.balance EXCEPT ![r.sender] = @ + (r.maxFee - w.fee)]
      /\ n.locked = [s.locked EXCEPT ![r.sender] = @ - (r.amount + r.maxFee)]
  BY Zenon DEF AcceptEffect
<1>5. /\ \A u \in Users : Holding(s)[u] \in Int /\ Holding(n)[u] \in Int
      /\ \A u \in Users \ {r.sender} : Holding(s)[u] = Holding(n)[u]
      /\ Holding(n)[r.sender] = Holding(s)[r.sender] - (r.amount + w.fee)
  <2>. HIDE DEF r
  <2>. QED  BY <1>2, <1>3, <1>4 DEF Holding
<1>6. SumFunctionOnSet(Holding(n), Users)
        = SumFunctionOnSet(Holding(s), Users)
            - Holding(s)[r.sender] + Holding(n)[r.sender]
  BY <1>3, <1>5, SumChange, UsersAssumption
<1>7. Accepted(n) = Accepted(s) \cup {w.id} /\ w.id \notin Accepted(s)
  <2>1. n.withdrawalStatus = [s.withdrawalStatus EXCEPT ![w.id] = "accepted"]
    BY Zenon DEF AcceptEffect
  <2>2. DOMAIN s.withdrawalStatus = RequestIds
    BY DEF Sound, Consistent, StateType
  <2>. QED  BY <1>2, <2>1, <2>2, NoneAssumption, ZenonT(20) DEF Accepted
<1>8. n.feesPaid = [s.feesPaid EXCEPT ![w.id] = w.fee] /\ SameRequests(s, n)
  BY Zenon DEF AcceptEffect
<1>9. s.feesPaid \in [RequestIds -> Nat \cup {None}] /\ Accepted(s) \subseteq RequestIds
  BY Zenon DEF Sound, Consistent, StateType, Accepted
<1>10. /\ \A k \in Accepted(s) : Withdrawn(s)[k] = Withdrawn(n)[k]
       /\ Withdrawn(n)[w.id] = r.amount + w.fee
  BY <1>2, <1>7, <1>8, <1>9, Zenon DEF Withdrawn, SameRequests
<1>11. SumFunctionOnSet(Withdrawn(n), Accepted(s) \cup {w.id})
         = SumFunctionOnSet(Withdrawn(s), Accepted(s)) + Withdrawn(n)[w.id]
  <2>1. IsFiniteSet(Accepted(s)) /\ \A k \in Accepted(s) : Withdrawn(n)[k] \in Int
    BY <1>10, Summable DEF Sound
  <2>. HIDE DEF r
  <2>2. Withdrawn(n)[w.id] \in Int
    BY <1>3, <1>10
  <2>. QED  BY <1>7, <1>10, <2>1, <2>2, SumAdd
<1>12. /\ Deposited(n) = Deposited(s) /\ n.depositStatus = s.depositStatus
       /\ Keys(n.completedDeposits) = Keys(s.completedDeposits)
  BY DEF AcceptEffect, SameDeposits, Deposited, Keys
<1>13. /\ SumFunctionOnSet(Holding(s), Users) \in Int
       /\ SumFunctionOnSet(Deposited(s), Keys(s.completedDeposits)) \in Int
       /\ SumFunctionOnSet(Withdrawn(s), Accepted(s)) \in Int
  BY SumsAreIntegers
<1>14. SupplyBacked(n)
  <2>. HIDE DEF r
  <2>1. SumFunctionOnSet(Holding(s), Users)
          = SumFunctionOnSet(Deposited(s), Keys(s.completedDeposits))
              - SumFunctionOnSet(Withdrawn(s), Accepted(s))
    BY Zenon DEF Sound, Backed, SupplyBacked
  <2>2. SumFunctionOnSet(Holding(n), Users)
          = SumFunctionOnSet(Holding(s), Users) - (r.amount + w.fee)
    BY <1>3, <1>5, <1>6, <1>13
  <2>3. SumFunctionOnSet(Withdrawn(n), Accepted(n))
          = SumFunctionOnSet(Withdrawn(s), Accepted(s)) + (r.amount + w.fee)
    BY <1>7, <1>10, <1>11
  <2>. QED  BY <1>3, <1>12, <1>13, <2>1, <2>2, <2>3 DEF SupplyBacked
<1>. QED  BY <1>1, <1>12, <1>14 DEF Sound, Backed

-----------------------------------------------------------------------------
(* No call forgets a request, a decision or a deposit.                     *)

\* The effects of the calls only add to the maps.
LEMMA EffectKeeps ==
  ASSUME NEW s, NEW n, Consistent(s)
  PROVE  /\ NoEffect(s, n) => Keeps(s, n)
         /\ \A t : TransferEffect(s, t, n) => Keeps(s, n)
         /\ \A d : CompleteDepositOk(s, d) /\ DepositEffect(s, d, n) => Keeps(s, n)
         /\ \A w : WithdrawalEffect(s, w, n) => Keeps(s, n)
         /\ \A w : s.withdrawalStatus[w.id] = None /\ RejectEffect(s, w, n) => Keeps(s, n)
         /\ \A w : s.withdrawalStatus[w.id] = None /\ AcceptEffect(s, w, n) => Keeps(s, n)
<1>. USE DEF Keeps, SameRecords, SameRequests, SameDecisions, SameDeposits, SameKeys
<1>0. \A m : Extends(m, m)
  BY DEF Extends
<1>1. \A m, k, v : m[k] = None /\ v # None => Extends([m EXCEPT ![k] = v], m)
  BY DEF Extends, Keys
<1>2. NoEffect(s, n) => Keeps(s, n)
  BY <1>0 DEF NoEffect
<1>3. ASSUME NEW t, TransferEffect(s, t, n) PROVE Keeps(s, n)
  BY <1>0, <1>3, Zenon DEF TransferEffect
<1>4. ASSUME NEW d, CompleteDepositOk(s, d), DepositEffect(s, d, n) PROVE Keeps(s, n)
  <2>1. PICK e \in CompletedDeposits :
          n.completedDeposits = [s.completedDeposits EXCEPT ![d.outpoint] = e]
    BY <1>4 DEF DepositEffect
  <2>2. e # None
    BY NoneAssumption, Zenon
  <2>3. d.outpoint \notin Keys(s.completedDeposits)
    BY <1>4 DEF CompleteDepositOk, Consistent, MapsAgree
  <2>4. Extends(n.completedDeposits, s.completedDeposits)
    BY <2>1, <2>2, <2>3 DEF Extends, Keys
  <2>. QED  BY <1>0, <1>4, <2>4 DEF DepositEffect
<1>5. ASSUME NEW w, WithdrawalEffect(s, w, n) PROVE Keeps(s, n)
  <2>. DEFINE id == s.lastWithdrawalRequestId + 1
  <2>1. PICK q \in Requests : n.withdrawalRequests = [s.withdrawalRequests EXCEPT ![id] = q]
    BY <1>5 DEF WithdrawalEffect
  <2>2. q # None
    BY NoneAssumption
  <2>3. id \notin Keys(s.withdrawalRequests)
    <3>1. s.lastWithdrawalRequestId \in Nat
      BY NumbersAssumption DEF Consistent, StateType
    <3>. QED  BY <3>1 DEF Consistent, MapsAgree
  <2>. HIDE DEF id
  <2>4. Extends(n.withdrawalRequests, s.withdrawalRequests)
    BY <2>1, <2>2, <2>3, Zenon DEF Extends, Keys
  <2>. QED  BY <1>0, <1>5, <2>4 DEF WithdrawalEffect
<1>6. ASSUME NEW w, s.withdrawalStatus[w.id] = None, RejectEffect(s, w, n)
      PROVE  Keeps(s, n)
  <2>1. n.withdrawalStatus = [s.withdrawalStatus EXCEPT ![w.id] = "rejected"]
    BY <1>6 DEF RejectEffect
  <2>2. "rejected" # None
    BY NoneAssumption
  <2>3. Extends(n.withdrawalStatus, s.withdrawalStatus)
    BY <1>6, <2>1, <2>2, Zenon DEF Extends, Keys
  <2>. QED  BY <1>0, <1>6, <2>3, Zenon DEF RejectEffect
<1>7. ASSUME NEW w, s.withdrawalStatus[w.id] = None, AcceptEffect(s, w, n)
      PROVE  Keeps(s, n)
  BY <1>0, <1>1, <1>7, NoneAssumption DEF AcceptEffect
<1>. QED  BY <1>2, <1>3, <1>4, <1>5, <1>6, <1>7, Zenon

\* Two calls in a row keep what one of them keeps.
LEMMA KeepsTransitive ==
  ASSUME NEW a, NEW b, NEW c, Keeps(a, b), Keeps(b, c)
  PROVE  Keeps(a, c)
BY DEF Keeps, Extends

-----------------------------------------------------------------------------
(* Both together, call by call.                                            *)

\* The state the contracts are deployed in owes nothing.
LEMMA InitialSound == Sound(InitialState)
<1>. DEFINE s == InitialState
<1>1. Consistent(s)
  BY InitialConsistent
<1>2. s.depositStatus = {} /\ IsFiniteSet(s.depositStatus)
  BY FS_EmptySet DEF InitialState
<1>3. Keys(s.withdrawalRequests) = {} /\ Accepted(s) = {} /\ Keys(s.completedDeposits) = {}
  BY NoneAssumption DEF InitialState, Keys, Accepted
<1>4. \A f : SumFunctionOnSet(f, {}) = 0
  BY SumEmpty
<1>5. RequestsBacked(s)
  <2>1. \A u \in Users : PendingOf(s, u) = {}
    BY <1>3 DEF PendingOf
  <2>2. \A u \in Users : s.locked[u] = 0
    BY DEF InitialState
  <2>. QED  BY <1>4, <2>1, <2>2 DEF RequestsBacked
<1>6. SumFunctionOnSet(Holding(s), Users) = 0
  <2>1. \A u \in Users : Holding(s)[u] = 0
    BY DEF Holding, InitialState
  <2>. QED  BY <2>1, SumZero, UsersAssumption
<1>7. SupplyBacked(s)
  BY <1>3, <1>4, <1>6 DEF SupplyBacked
<1>. QED  BY <1>1, <1>2, <1>5, <1>7 DEF Sound, Backed

\* transfer.
LEMMA TransferSound ==
  ASSUME NEW s, Sound(s), NEW c, NEW t \in Transfers(c), TransferOk(s, t)
  PROVE  Sound(Transfer(s, t)) /\ Keeps(s, Transfer(s, t))
<1>. DEFINE n == Transfer(s, t)
<1>1. Consistent(s) /\ Consistent(n) /\ TransferEffect(s, t, n)
  BY TransferConsistent DEF Sound
<1>. HIDE DEF n
<1>. QED  BY <1>1, TransferBacked, EffectKeeps DEF Sound, n

\* complete-deposit-wrapper.
LEMMA DepositSound ==
  ASSUME NEW s, Sound(s), NEW c, NEW d \in Deposits(c), CompleteDepositOk(s, d)
  PROVE  Sound(CompleteDeposit(s, d)) /\ Keeps(s, CompleteDeposit(s, d))
<1>. DEFINE n == CompleteDeposit(s, d)
<1>1. Consistent(s) /\ Consistent(n) /\ DepositEffect(s, d, n)
  BY CompleteDepositConsistent DEF Sound
<1>. HIDE DEF n
<1>. QED  BY <1>1, DepositBacked, EffectKeeps DEF Sound, n

\* initiate-withdrawal-request.
LEMMA WithdrawalSound ==
  ASSUME NEW s, Sound(s), NEW c \in Users, NEW w \in Withdrawals(c),
         s.lastWithdrawalRequestId < MaxRequests, InitiateWithdrawalOk(s, w)
  PROVE  Sound(InitiateWithdrawal(s, w)) /\ Keeps(s, InitiateWithdrawal(s, w))
<1>. DEFINE n == InitiateWithdrawal(s, w)
<1>1. Consistent(s) /\ Consistent(n) /\ WithdrawalEffect(s, w, n)
  BY InitiateWithdrawalConsistent DEF Sound
<1>. HIDE DEF n
<1>. QED  BY <1>1, WithdrawalBacked, EffectKeeps DEF Sound, n

\* reject-withdrawal-request.
LEMMA RejectSound ==
  ASSUME NEW s, Sound(s), NEW c, NEW w \in Completions(c), CompleteWithdrawalOk(s, w)
  PROVE  Sound(RejectWithdrawal(s, w)) /\ Keeps(s, RejectWithdrawal(s, w))
<1>. DEFINE n == RejectWithdrawal(s, w)
<1>1. Consistent(s) /\ Consistent(n) /\ RejectEffect(s, w, n)
  BY RejectWithdrawalConsistent DEF Sound
<1>2. s.withdrawalStatus[w.id] = None
  BY DEF CompleteWithdrawalOk, IsPending
<1>. HIDE DEF n
<1>. QED  BY <1>1, <1>2, RejectBacked, EffectKeeps DEF Sound, n

\* accept-withdrawal-request.
LEMMA AcceptSound ==
  ASSUME NEW s, Sound(s), NEW c, NEW w \in Completions(c), AcceptWithdrawalOk(s, w)
  PROVE  Sound(AcceptWithdrawal(s, w)) /\ Keeps(s, AcceptWithdrawal(s, w))
<1>. DEFINE n == AcceptWithdrawal(s, w)
<1>1. Consistent(s) /\ Consistent(n) /\ AcceptEffect(s, w, n)
  BY AcceptWithdrawalConsistent DEF Sound
<1>2. s.withdrawalStatus[w.id] = None
  BY DEF AcceptWithdrawalOk, CompleteWithdrawalOk, IsPending
<1>. HIDE DEF n
<1>. QED  BY <1>1, <1>2, AcceptBacked, EffectKeeps DEF Sound, n

\* rotate-keys-wrapper, update-protocol-contract-wrapper and a new block.
LEMMA NoEffectSound ==
  ASSUME NEW s, NEW n, Sound(s), Consistent(n), NoEffect(s, n)
  PROVE  Sound(n) /\ Keeps(s, n)
BY NoEffectBacked, EffectKeeps DEF Sound

-----------------------------------------------------------------------------
(* Every step preserves the inductive invariant.                           *)

\* A call commits what it made of the committed state.
LEMMA CommitPreserves ==
  ASSUME IInv, NEW s, Sound(s), Keeps(st, s), tx = NoTx, Commit(s)
  PROVE  IInv'
BY DEF IInv, Commit, Sound, Consistent, TypeOK

\* Transactions with one call.
LEMMA SingleCallPreserves == IInv /\ SingleCall => IInv'
<1>. SUFFICES ASSUME IInv, SingleCall PROVE IInv'
  OBVIOUS
<1>0. Sound(st) /\ Consistent(st) /\ tx = NoTx
  BY DEF IInv, Sound, SingleCall
<1>1. PICK c \in Callers :
        \/ \E t \in Transfers(c) : CallTransfer(t)
        \/ \E w \in Withdrawals(c) : c \in Users /\ CallInitiateWithdrawal(w)
        \/ \E d \in Deposits(c) : CallCompleteDeposit(d)
        \/ \E w \in Completions(c) : CallAcceptWithdrawal(w)
        \/ \E w \in Completions(c) : CallRejectWithdrawal(w)
        \/ \E r \in Rotations(c) : CallRotateKeys(r)
        \/ \E u \in Updates(c) : CallUpdateProtocolContract(u)
  BY DEF SingleCall
<1>2. CASE \E t \in Transfers(c) : CallTransfer(t)
  BY <1>0, <1>2, TransferSound, CommitPreserves DEF CallTransfer
<1>3. CASE \E w \in Withdrawals(c) : c \in Users /\ CallInitiateWithdrawal(w)
  BY <1>0, <1>3, WithdrawalSound, CommitPreserves DEF CallInitiateWithdrawal
<1>4. CASE \E d \in Deposits(c) : CallCompleteDeposit(d)
  BY <1>0, <1>4, DepositSound, CommitPreserves DEF CallCompleteDeposit
<1>5. CASE \E w \in Completions(c) : CallAcceptWithdrawal(w)
  BY <1>0, <1>5, AcceptSound, CommitPreserves DEF CallAcceptWithdrawal
<1>6. CASE \E w \in Completions(c) : CallRejectWithdrawal(w)
  BY <1>0, <1>6, RejectSound, CommitPreserves DEF CallRejectWithdrawal
<1>7. CASE \E r \in Rotations(c) : CallRotateKeys(r)
  BY <1>0, <1>7, RotateKeysConsistent, NoEffectSound, CommitPreserves DEF CallRotateKeys
<1>8. CASE \E u \in Updates(c) : CallUpdateProtocolContract(u)
  BY <1>0, <1>8, UpdateProtocolContractConsistent, NoEffectSound, CommitPreserves
  DEF CallUpdateProtocolContract
<1>. QED  BY <1>1, <1>2, <1>3, <1>4, <1>5, <1>6, <1>7, <1>8

\* An item of a batch works on the copy, or fails the batch.
LEMMA BatchItemPreserves ==
  ASSUME IInv, tx # NoTx, NEW ok \in BOOLEAN, NEW work,
         ok => Sound(work) /\ Keeps(tx.work, work),
         BatchItem(ok, work)
  PROVE  IInv'
<1>1. tx \in BatchTypes
  BY DEF IInv, TypeOK, BatchTypes
<1>2. CASE ok
  <2>1. tx' = [tx EXCEPT !.work = work, !.index = @ + 1] /\ tx.index < MaxBatch
    BY <1>2 DEF BatchItem
  <2>2. Sound(work) /\ work \in StateType /\ Keeps(st, work)
    <3>1. Keeps(st, tx.work) /\ Keeps(tx.work, work)
      BY <1>2 DEF IInv
    <3>. QED  BY <1>2, <3>1, KeepsTransitive DEF Sound, Consistent
  <2>3. tx' \in BatchTypes /\ tx'.work = work
    <3>1. tx.index + 1 \in 0 .. MaxBatch
      BY <1>1, <2>1, NumbersAssumption DEF BatchTypes
    <3>2. tx' = [tx EXCEPT !.work = work, !.index = tx.index + 1]
      BY <2>1
    <3>. QED  BY <1>1, <2>2, <3>1, <3>2, Zenon DEF BatchTypes
  <2>. QED  BY <2>2, <2>3 DEF IInv, BatchItem, TypeOK, BatchTypes
<1>3. CASE ~ok
  BY <1>3 DEF IInv, BatchItem, TypeOK
<1>. QED  BY <1>2, <1>3

\* The three kinds of batches.
LEMMA BatchPreserves ==
  ASSUME IInv, BatchTransfer \/ BatchDeposit \/ BatchWithdrawal
  PROVE  IInv'
<1>0. tx # NoTx
  BY DEF BatchTransfer, BatchDeposit, BatchWithdrawal, NoTx
<1>1. Sound(tx.work)
  BY <1>0 DEF IInv
<1>2. CASE BatchTransfer
  <2>1. PICK t \in Transfers(tx.caller) :
          BatchItem(TransferOk(tx.work, t), Transfer(tx.work, t))
    BY <1>2 DEF BatchTransfer
  <2>2. TransferOk(tx.work, t) \in BOOLEAN
    BY DEF TransferOk
  <2>. QED  BY <1>0, <1>1, <2>1, <2>2, TransferSound, BatchItemPreserves
<1>3. CASE BatchDeposit
  <2>1. PICK d \in Deposits(tx.caller) :
          BatchItem(CompleteDepositOk(tx.work, d), CompleteDeposit(tx.work, d))
    BY <1>3 DEF BatchDeposit
  <2>2. CompleteDepositOk(tx.work, d) \in BOOLEAN
    BY DEF CompleteDepositOk
  <2>. QED  BY <1>0, <1>1, <2>1, <2>2, DepositSound, BatchItemPreserves
<1>4. CASE BatchWithdrawal
  <2>1. PICK c \in Completions(tx.caller) :
          \/ BatchItem(AcceptWithdrawalOk(tx.work, c), AcceptWithdrawal(tx.work, c))
          \/ BatchItem(CompleteWithdrawalOk(tx.work, c), RejectWithdrawal(tx.work, c))
    BY <1>4 DEF BatchWithdrawal
  <2>2. /\ AcceptWithdrawalOk(tx.work, c) \in BOOLEAN
        /\ CompleteWithdrawalOk(tx.work, c) \in BOOLEAN
    BY DEF AcceptWithdrawalOk, CompleteWithdrawalOk
  <2>3. CASE BatchItem(AcceptWithdrawalOk(tx.work, c), AcceptWithdrawal(tx.work, c))
    BY <1>0, <1>1, <2>2, <2>3, AcceptSound, BatchItemPreserves
  <2>4. CASE BatchItem(CompleteWithdrawalOk(tx.work, c), RejectWithdrawal(tx.work, c))
    BY <1>0, <1>1, <2>2, <2>4, RejectSound, BatchItemPreserves
  <2>. QED  BY <2>1, <2>3, <2>4
<1>. QED  BY <1>2, <1>3, <1>4

\* Every action of Next; a reorg returns to a state that was sound.
LEMMA StepPreserves == IInv /\ [Next]_vars => IInv'
<1>. SUFFICES ASSUME IInv, [Next]_vars PROVE IInv'
  OBVIOUS
<1>1. CASE SingleCall
  BY <1>1, SingleCallPreserves
<1>2. ASSUME NEW kind \in {"transfers", "deposits", "withdrawals"}, NEW c \in Callers,
             BatchBegin(kind, c)
      PROVE  IInv'
  <2>1. c \in Users \cup SignerPrincipals
    BY DEF Callers, IInv, TypeOK, StateType
  <2>2. tx' \in BatchTypes /\ tx'.work = st
    BY <1>2, <2>1, NumbersAssumption DEF BatchBegin, BatchTypes, IInv, TypeOK
  <2>3. Keeps(st, st)
    BY DEF Keeps, Extends
  <2>. QED  BY <1>2, <2>2, <2>3 DEF IInv, BatchBegin, TypeOK, BatchTypes
<1>3. CASE BatchTransfer \/ BatchDeposit \/ BatchWithdrawal
  BY <1>3, BatchPreserves
<1>4. CASE BatchCommit
  BY <1>4 DEF IInv, BatchCommit, Sound, Consistent, TypeOK
<1>5. ASSUME NEW f \in Forks, NewBurnBlock(f) PROVE IInv'
  <2>1. Sound(st') /\ Sound(st)
    <3>1. Sound(st) /\ Consistent(st) /\ st' = [st EXCEPT !.burnChain = Append(@, f)]
      BY <1>5 DEF NewBurnBlock, IInv, Sound
    <3>. QED  BY <3>1, BurnBlockConsistent, NoEffectSound
  <2>2. history' = Append(history, st) /\ history \in Seq(StateType) /\ st \in StateType
    BY <1>5 DEF NewBurnBlock, IInv, TypeOK
  <2>3. history' \in Seq(StateType) /\ Len(history') = Len(history) + 1
    BY <2>2
  <2>4. \A h \in 1 .. Len(history') : Sound(history'[h])
    BY <2>1, <2>2, <2>3 DEF IInv
  <2>. QED  BY <1>5, <2>1, <2>3, <2>4 DEF NewBurnBlock, IInv, TypeOK, Sound, Consistent
<1>6. ASSUME NEW h \in 1 .. MaxHeight, Reorg(h) PROVE IInv'
  <2>1. h \in 1 .. Len(history) /\ history \in Seq(StateType)
    BY <1>6 DEF Reorg, IInv, TypeOK
  <2>2. Sound(st')
    BY <1>6, <2>1 DEF Reorg, IInv
  <2>3. /\ history' \in Seq(StateType)
        /\ \A i \in 1 .. Len(history') : i \in 1 .. Len(history) /\ history'[i] = history[i]
    BY <1>6, <2>1 DEF Reorg
  <2>. QED  BY <1>6, <2>2, <2>3 DEF Reorg, IInv, TypeOK, Sound, Consistent
<1>7. CASE UNCHANGED vars
  BY <1>7 DEF IInv, TypeOK, vars
<1>. QED  BY <1>1, <1>2, <1>3, <1>4, <1>5, <1>6, <1>7 DEF Next

\* The invariant holds throughout.
LEMMA Inductive == Spec => []IInv
<1>1. Init => IInv
  BY InitialSound DEF Init, IInv, TypeOK, Sound, Consistent
<1>. QED  BY <1>1, StepPreserves, PTL DEF Spec

\* The contract state keeps its type in every behaviour of the contracts.
THEOREM TypeCorrect == Spec => []TypeOK
<1>1. IInv => TypeOK
  BY DEF IInv
<1>. QED  BY <1>1, Inductive, PTL

\* Every sBTC is accounted for in every behaviour: what a user has locked is
\* what the user's pending requests put aside, and the supply is what deposits
\* brought in less what accepted withdrawals took out, whatever the order of
\* calls, batches and reorgs.
THEOREM EverySbtcIsBacked == Spec => []SbtcIsBacked
<1>1. IInv => SbtcIsBacked
  BY DEF IInv, Sound, Backed, SbtcIsBacked, EscrowBacksRequests, SupplyBackedByBitcoin
<1>. QED  BY <1>1, Inductive, PTL

\* The maps of the registry always agree with one another, and the registry
\* never records a sweep of an abandoned Bitcoin fork.
THEOREM RegistryStaysConsistent == Spec => []RegistryConsistent
<1>1. IInv => RegistryConsistent
  BY DEF IInv, Sound, Consistent, RegistryConsistent, RegistryMapsAgree,
     SweepsOnCanonicalFork
<1>. QED  BY <1>1, Inductive, PTL

\* A step that is no reorg forgets nothing: a batch is committed as a whole, and
\* every item of it has kept what was there.
LEMMA StepKeeps ==
  ASSUME IInv, [Next]_vars, Len(history') >= Len(history)
  PROVE  Keeps(st, st')
<1>0. Sound(st) /\ Consistent(st) /\ Keeps(st, st) /\ history \in Seq(StateType)
  BY DEF IInv, Sound, Keeps, Extends, TypeOK
<1>1. CASE SingleCall
  <2>1. PICK c \in Callers :
          \/ \E t \in Transfers(c) : CallTransfer(t)
          \/ \E w \in Withdrawals(c) : c \in Users /\ CallInitiateWithdrawal(w)
          \/ \E d \in Deposits(c) : CallCompleteDeposit(d)
          \/ \E w \in Completions(c) : CallAcceptWithdrawal(w)
          \/ \E w \in Completions(c) : CallRejectWithdrawal(w)
          \/ \E r \in Rotations(c) : CallRotateKeys(r)
          \/ \E u \in Updates(c) : CallUpdateProtocolContract(u)
    BY <1>1 DEF SingleCall
  <2>2. CASE \E t \in Transfers(c) : CallTransfer(t)
    BY <1>0, <2>2, TransferSound DEF CallTransfer, Commit
  <2>3. CASE \E w \in Withdrawals(c) : c \in Users /\ CallInitiateWithdrawal(w)
    BY <1>0, <2>3, WithdrawalSound DEF CallInitiateWithdrawal, Commit
  <2>4. CASE \E d \in Deposits(c) : CallCompleteDeposit(d)
    BY <1>0, <2>4, DepositSound DEF CallCompleteDeposit, Commit
  <2>5. CASE \E w \in Completions(c) : CallAcceptWithdrawal(w)
    BY <1>0, <2>5, AcceptSound DEF CallAcceptWithdrawal, Commit
  <2>6. CASE \E w \in Completions(c) : CallRejectWithdrawal(w)
    BY <1>0, <2>6, RejectSound DEF CallRejectWithdrawal, Commit
  <2>7. CASE \E r \in Rotations(c) : CallRotateKeys(r)
    BY <1>0, <2>7, RotateKeysConsistent, NoEffectSound DEF CallRotateKeys, Commit
  <2>8. CASE \E u \in Updates(c) : CallUpdateProtocolContract(u)
    BY <1>0, <2>8, UpdateProtocolContractConsistent, NoEffectSound
    DEF CallUpdateProtocolContract, Commit
  <2>. QED  BY <2>1, <2>2, <2>3, <2>4, <2>5, <2>6, <2>7, <2>8
<1>2. ASSUME NEW kind \in {"transfers", "deposits", "withdrawals"}, NEW c \in Callers,
             BatchBegin(kind, c)
      PROVE  Keeps(st, st')
  BY <1>0, <1>2 DEF BatchBegin
<1>3. CASE BatchTransfer \/ BatchDeposit \/ BatchWithdrawal
  BY <1>0, <1>3, Zenon DEF BatchTransfer, BatchDeposit, BatchWithdrawal, BatchItem
<1>4. CASE BatchCommit
  BY <1>4 DEF IInv, BatchCommit
<1>5. ASSUME NEW f \in Forks, NewBurnBlock(f) PROVE Keeps(st, st')
  BY <1>0, <1>5, BurnBlockConsistent, NoEffectSound DEF NewBurnBlock
<1>6. ASSUME NEW h \in 1 .. MaxHeight, Reorg(h) PROVE Keeps(st, st')
  <2>1. h \in 1 .. Len(history) /\ history' = SubSeq(history, 1, h - 1)
    BY <1>6 DEF Reorg
  <2>2. Len(history') = h - 1 /\ Len(history) \in Nat
    BY <1>0, <2>1
  <2>. QED  BY <2>1, <2>2
<1>7. CASE UNCHANGED vars
  BY <1>0, <1>7 DEF vars
<1>. QED  BY <1>1, <1>2, <1>3, <1>4, <1>5, <1>6, <1>7 DEF Next

\* Short of a reorg, no transaction changes a request, a decision or a completed
\* deposit, nor forgets an aggregate key.
THEOREM DecisionsStayFinal == Spec => DecisionsAreFinal
<1>1. IInv /\ [Next]_vars =>
        [Len(history') >= Len(history) =>
            /\ Extends(st'.withdrawalRequests, st.withdrawalRequests)
            /\ Extends(st'.withdrawalStatus, st.withdrawalStatus)
            /\ Extends(st'.completedDeposits, st.completedDeposits)
            /\ st.aggregatePubkeys \subseteq st'.aggregatePubkeys]_vars
  BY StepKeeps DEF Keeps
<1>. QED  BY <1>1, Inductive, PTL DEF Spec, DecisionsAreFinal
=============================================================================
