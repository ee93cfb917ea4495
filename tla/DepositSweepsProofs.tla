------------------------ MODULE DepositSweepsProofs -------------------------
(***************************************************************************)
(* The deposits, for any signers, threshold, deposits and Bitcoin blocks,  *)
(* whatever is lost, late or cut short: what is minted on the chain of the *)
(* tip was swept there, once, and sweeps have the consent of a quorum.     *)
(*                                                                         *)
(* The first rests on the shape of the chain: two blocks of one chain are  *)
(* one above the other (LinesAreChains).  A call that waits names a sweep  *)
(* and its block (CallsOK), a mint lies above the block of its sweep, and  *)
(* of two mints of one deposit neither is on the chain of the other        *)
(* (MintsOK), so that no chain, in whatever order the tips come, has both. *)
(*                                                                         *)
(* The second rests on what a signer's tables say (ConsentInv): a decision *)
(* to sign the input of a deposit follows from the signer's own vote for   *)
(* it, and this vote from the signer's own blocklist.  Nothing is needed   *)
(* of how a coordinator chose the sweep.                                   *)
(***************************************************************************)
EXTENDS DepositSweeps, FiniteSetTheorems, WellFoundedInduction, TLAPS

-----------------------------------------------------------------------------
(* The chain of a block.                                                   *)

\* The blocks up to a height.
Below(n) == {b \in Block : BtcHeight[b] <= n}

\* h gives each block of D its chain.
Chains(h, D) ==
    h = [b \in D |-> IF BtcParent[b] \in Block THEN {b} \cup h[BtcParent[b]] ELSE {b}]

\* The recursion over the parents has a solution on the blocks up to every
\* height: a parent is one lower.
LEMMA ChainsBelow == \A n \in Nat : \E h : Chains(h, Below(n))
<1> DEFINE Bad == {n \in Nat : ~ \E h : Chains(h, Below(n))}
<1> SUFFICES ASSUME Bad # {} PROVE FALSE
  OBVIOUS
<1>1. PICK n \in Bad : \A k \in Bad : ~(<<k, n>> \in OpToRel(<, Nat))
  BY NatLessThanWellFounded, WFMin, Zenon
<1>2. \A k \in Nat : k < n => \E h : Chains(h, Below(k))
  BY <1>1, Zenon DEF OpToRel
<1>3. CASE n = 0
  <2>1. \A b \in Below(0) : BtcParent[b] \notin Block
    BY HeightAssumption DEF Below
  <2> DEFINE g == [b \in Below(0) |-> {b}]
  <2>2. g = [b \in Below(0) |-> IF BtcParent[b] \in Block THEN {b} \cup g[BtcParent[b]] ELSE {b}]
    BY <2>1
  <2>3. Chains(g, Below(0))
    BY <2>2, Zenon DEF Chains
  <2> QED
    BY <1>1, <1>3, <2>3, Zenon
<1>4. CASE n # 0
  <2>1. n - 1 \in Nat /\ n - 1 < n
    BY <1>4
  <2>2. PICK h : Chains(h, Below(n - 1))
    BY <1>2, <2>1
  <2> DEFINE g == [b \in Below(n) |-> IF BtcParent[b] \in Block THEN {b} \cup h[BtcParent[b]] ELSE {b}]
  <2>3. \A b \in Below(n) : BtcParent[b] \in Block => BtcParent[b] \in Below(n - 1)
    BY HeightAssumption DEF Below
  <2>4. Below(n - 1) \subseteq Below(n)
    BY HeightAssumption DEF Below
  <2>5. \A b \in Below(n - 1) : g[b] = h[b]
    BY <2>2, <2>4, Zenon DEF Chains
  <2>6. Chains(g, Below(n))
    BY <2>3, <2>5, Zenon DEF Chains
  <2> QED
    BY <1>1, <2>6, Zenon
<1> QED
  BY <1>3, <1>4

\* Solutions up to two heights agree where both are defined.
LEMMA ChainsAgree ==
    ASSUME NEW h, NEW g, NEW m \in Nat, NEW n \in Nat, m <= n,
           Chains(h, Below(m)), Chains(g, Below(n))
    PROVE  \A b \in Below(m) : h[b] = g[b]
<1> DEFINE Bad == {k \in Nat : \E b \in Below(m) : BtcHeight[b] = k /\ h[b] # g[b]}
<1>1. Bad = {}
  <2> SUFFICES ASSUME Bad # {} PROVE FALSE
    OBVIOUS
  <2>1. PICK k \in Bad : \A j \in Bad : ~(<<j, k>> \in OpToRel(<, Nat))
    BY NatLessThanWellFounded, WFMin, Zenon
  <2>2. \A j \in Nat : j < k => j \notin Bad
    BY <2>1, Zenon DEF OpToRel
  <2>3. PICK b \in Below(m) : BtcHeight[b] = k /\ h[b] # g[b]
    BY <2>1, Zenon
  <2>4. b \in Below(n)
    BY HeightAssumption DEF Below
  <2>5. h[b] = IF BtcParent[b] \in Block THEN {b} \cup h[BtcParent[b]] ELSE {b}
    BY Zenon DEF Chains
  <2>6. g[b] = IF BtcParent[b] \in Block THEN {b} \cup g[BtcParent[b]] ELSE {b}
    BY <2>4, Zenon DEF Chains
  <2>7. BtcParent[b] \in Block
    BY <2>3, <2>5, <2>6, Zenon
  <2>8. /\ BtcParent[b] \in Below(m)
        /\ BtcHeight[BtcParent[b]] \in Nat
        /\ BtcHeight[BtcParent[b]] < k
    BY <2>3, <2>7, HeightAssumption DEF Below
  <2>9. h[BtcParent[b]] = g[BtcParent[b]]
    BY <2>2, <2>8
  <2> QED
    BY <2>3, <2>5, <2>6, <2>9, Zenon
<1> QED
  BY <1>1, HeightAssumption DEF Below

\* A block and what its parent descends from.
LEMMA LineDef ==
    \A b \in Block :
        Line[b] = IF BtcParent[b] \in Block THEN {b} \cup Line[BtcParent[b]] ELSE {b}
<1> DEFINE all(n) == CHOOSE h : Chains(h, Below(n))
           g == [b \in Block |-> all(BtcHeight[b])[b]]
<1> HIDE DEF all
<1>1. \A n \in Nat : Chains(all(n), Below(n))
  BY ChainsBelow DEF all
<1>2. g = [b \in Block |-> IF BtcParent[b] \in Block THEN {b} \cup g[BtcParent[b]] ELSE {b}]
  <2>1. ASSUME NEW b \in Block
        PROVE  g[b] = IF BtcParent[b] \in Block THEN {b} \cup g[BtcParent[b]] ELSE {b}
    <3>1. BtcHeight[b] \in Nat /\ b \in Below(BtcHeight[b])
      BY HeightAssumption DEF Below
    <3>2. all(BtcHeight[b])[b] =
              IF BtcParent[b] \in Block THEN {b} \cup all(BtcHeight[b])[BtcParent[b]] ELSE {b}
      BY <1>1, <3>1, Zenon DEF Chains
    <3>3. ASSUME BtcParent[b] \in Block
          PROVE  all(BtcHeight[b])[BtcParent[b]] = all(BtcHeight[BtcParent[b]])[BtcParent[b]]
      <4>1. /\ BtcHeight[BtcParent[b]] \in Nat
            /\ BtcHeight[BtcParent[b]] <= BtcHeight[b]
            /\ BtcParent[b] \in Below(BtcHeight[BtcParent[b]])
        BY <3>3, HeightAssumption DEF Below
      <4> QED
        BY <1>1, <3>1, <4>1, ChainsAgree
    <3> QED
      BY <3>2, <3>3, Zenon
  <2> QED
    BY <2>1, Zenon
<1> HIDE DEF g
<1>3. Line = [b \in Block |-> IF BtcParent[b] \in Block THEN {b} \cup Line[BtcParent[b]] ELSE {b}]
  BY <1>2, Zenon DEF Line
<1> QED
  BY <1>3, Zenon

\* What holds of a block when it holds of its parent holds of all blocks.
LEMMA BlockInduction ==
    ASSUME NEW S, \A b \in Block : (BtcParent[b] \in Block => BtcParent[b] \in S) => b \in S
    PROVE  Block \subseteq S
<1> DEFINE Bad == {n \in Nat : \E b \in Block : BtcHeight[b] = n /\ b \notin S}
<1>1. Bad = {}
  <2> SUFFICES ASSUME Bad # {} PROVE FALSE
    OBVIOUS
  <2>1. PICK n \in Bad : \A k \in Bad : ~(<<k, n>> \in OpToRel(<, Nat))
    BY NatLessThanWellFounded, WFMin, Zenon
  <2>2. \A k \in Nat : k < n => k \notin Bad
    BY <2>1, Zenon DEF OpToRel
  <2>3. PICK b \in Block : BtcHeight[b] = n /\ b \notin S
    BY <2>1, Zenon
  <2>4. BtcParent[b] \in Block /\ BtcParent[b] \notin S
    BY <2>3
  <2>5. BtcHeight[BtcParent[b]] \in Nat /\ BtcHeight[BtcParent[b]] < n
    BY <2>3, <2>4, HeightAssumption
  <2> QED
    BY <2>2, <2>4, <2>5
<1> QED
  BY <1>1, HeightAssumption

\* A chain has the block it is the chain of, and no other one as high.
LEMMA LineHeights ==
    \A b \in Block :
        /\ b \in Line[b]
        /\ \A c \in Line[b] : c \in Block /\ (c = b \/ BtcHeight[c] < BtcHeight[b])
<1> DEFINE S == {b \in Block :
                    \A c \in Line[b] : c \in Block /\ (c = b \/ BtcHeight[c] < BtcHeight[b])}
<1>1. ASSUME NEW b \in Block, BtcParent[b] \in Block => BtcParent[b] \in S
      PROVE  b \in S
  <2>1. CASE BtcParent[b] \in Block
    <3>1. Line[b] = {b} \cup Line[BtcParent[b]]
      BY <2>1, LineDef, Zenon
    <3>2. /\ BtcHeight[BtcParent[b]] \in Nat
          /\ BtcHeight[b] = BtcHeight[BtcParent[b]] + 1
      BY <2>1, HeightAssumption
    <3>3. \A c \in Line[BtcParent[b]] :
              c \in Block /\ (c = BtcParent[b] \/ BtcHeight[c] < BtcHeight[BtcParent[b]])
      BY <1>1, <2>1
    <3> QED
      BY <3>1, <3>2, <3>3, HeightAssumption
  <2>2. CASE BtcParent[b] \notin Block
    <3>1. Line[b] = {b}
      BY <2>2, LineDef, Zenon
    <3> QED
      BY <3>1
  <2> QED
    BY <2>1, <2>2
<1> HIDE DEF S
<1>2. Block \subseteq S
  BY <1>1, BlockInduction
<1>3. \A b \in Block : b \in Line[b]
  BY LineDef, Zenon
<1> QED
  BY <1>2, <1>3 DEF S

\* The chain of a block of a chain is part of that chain.
LEMMA LineTransitive == \A b \in Block : \A c \in Line[b] : Line[c] \subseteq Line[b]
<1> DEFINE S == {b \in Block : \A c \in Line[b] : Line[c] \subseteq Line[b]}
<1>1. ASSUME NEW b \in Block, BtcParent[b] \in Block => BtcParent[b] \in S
      PROVE  b \in S
  <2>1. CASE BtcParent[b] \in Block
    <3>1. Line[b] = {b} \cup Line[BtcParent[b]]
      BY <2>1, LineDef, Zenon
    <3>2. \A c \in Line[BtcParent[b]] : Line[c] \subseteq Line[BtcParent[b]]
      BY <1>1, <2>1
    <3> QED
      BY <3>1, <3>2
  <2>2. CASE BtcParent[b] \notin Block
    <3>1. Line[b] = {b}
      BY <2>2, LineDef, Zenon
    <3> QED
      BY <3>1
  <2> QED
    BY <2>1, <2>2
<1> HIDE DEF S
<1>2. Block \subseteq S
  BY <1>1, BlockInduction
<1> QED
  BY <1>2 DEF S

\* Two blocks of one chain are one above the other.
LEMMA LinesAreChains ==
    \A b \in Block : \A c, d \in Line[b] : c \in Line[d] \/ d \in Line[c]
<1> DEFINE S == {b \in Block : \A c, d \in Line[b] : c \in Line[d] \/ d \in Line[c]}
<1>1. ASSUME NEW b \in Block, BtcParent[b] \in Block => BtcParent[b] \in S
      PROVE  b \in S
  <2>1. CASE BtcParent[b] \in Block
    <3>1. Line[b] = {b} \cup Line[BtcParent[b]]
      BY <2>1, LineDef, Zenon
    <3>2. \A c, d \in Line[BtcParent[b]] : c \in Line[d] \/ d \in Line[c]
      BY <1>1, <2>1
    <3> QED
      BY <3>1, <3>2
  <2>2. CASE BtcParent[b] \notin Block
    <3>1. Line[b] = {b}
      BY <2>2, LineDef, Zenon
    <3> QED
      BY <3>1
  <2> QED
    BY <2>1, <2>2
<1> HIDE DEF S
<1>2. Block \subseteq S
  BY <1>1, BlockInduction
<1> QED
  BY <1>2 DEF S

-----------------------------------------------------------------------------
(* Mints.                                                                  *)

\* What is in the mempools and in the blocks.
PlacesOK ==
    /\ DOMAIN pool = Signer
    /\ DOMAIN mined = Block
    /\ tip \in Block

\* What the signers checked of a call, and what the contract took over.
IsFair(m) ==
    /\ m.deposit \in Range(m.sweep.tx.deposits)
    /\ m.amount = Amount[m.deposit] - AssessInputFee(m.sweep, m.deposit)
    /\ AssessInputFee(m.sweep, m.deposit) <= MaxFee[m.deposit]

\* No block above the tip has sweeps.
MinedOK == \A b \in Block : mined[b] # {} => BtcHeight[b] <= BtcHeight[tip]

\* A call names a sweep and the block that has it.
CallsOK ==
    \A call \in stxPool :
        /\ call.block \in Block
        /\ call.sweep \in mined[call.block]
        /\ IsFair(call)

\* A mint is on top of its sweep, and none of the same deposit is below it.
MintsOK ==
    \A m \in minted :
        /\ m.at \in Block /\ BtcHeight[m.at] <= BtcHeight[tip]
        /\ \E b \in Line[m.at] : m.sweep \in mined[b]
        /\ IsFair(m)
        /\ \A n \in minted : n.deposit = m.deposit /\ n # m => n.at \notin Line[m.at]

\* The inductive invariant behind the mints.
MintsInv == PlacesOK /\ MinedOK /\ CallsOK /\ MintsOK

\* The invariant holds at the start.
LEMMA MintsInit == DepositsInit => MintsInv
BY GenesisAssumption DEF DepositsInit, MintsInv, PlacesOK, MinedOK, CallsOK, MintsOK

\* Sweeps that stay where they are keep calls and mints in order.
LEMMA MinedGrows ==
    ASSUME MintsInv, stxPool' = stxPool, minted' = minted, tip' \in Block,
           BtcHeight[tip] <= BtcHeight[tip'],
           \A c \in Block : mined[c] \subseteq mined'[c]
    PROVE  CallsOK' /\ MintsOK'
<1>1. CallsOK'
  BY DEF MintsInv, CallsOK, IsFair
<1>2. \A m \in minted :
          /\ m.at \in Block /\ BtcHeight[m.at] <= BtcHeight[tip']
          /\ \E b \in Line[m.at] : m.sweep \in mined'[b]
  <2> SUFFICES ASSUME NEW m \in minted
               PROVE  /\ m.at \in Block /\ BtcHeight[m.at] <= BtcHeight[tip']
                      /\ \E b \in Line[m.at] : m.sweep \in mined'[b]
    OBVIOUS
  <2>1. /\ m.at \in Block /\ BtcHeight[m.at] <= BtcHeight[tip]
        /\ \E b \in Line[m.at] : m.sweep \in mined[b]
    BY DEF MintsInv, MintsOK
  <2>2. BtcHeight[m.at] \in Nat /\ BtcHeight[tip] \in Nat /\ BtcHeight[tip'] \in Nat
    BY <2>1, HeightAssumption DEF MintsInv, PlacesOK
  <2>3. \A b \in Line[m.at] : b \in Block
    BY <2>1, LineHeights
  <2> QED
    BY <2>1, <2>2, <2>3
<1>3. MintsOK'
  BY <1>2 DEF MintsInv, MintsOK, IsFair
<1> QED
  BY <1>1, <1>3

\* A new block had no sweeps before.
LEMMA NewBlockMints == ASSUME MintsInv, NEW b \in Block, NewBlock(b) PROVE MintsInv'
<1>1. tip' = b /\ stxPool' = stxPool /\ minted' = minted /\ BtcHeight[b] = BtcHeight[tip] + 1
  BY DEF NewBlock
<1>2. PICK in : mined' = [mined EXCEPT ![b] = in]
  BY Zenon DEF NewBlock
<1>3. DOMAIN pool' = Signer /\ DOMAIN mined' = Block
  BY <1>2 DEF NewBlock, MintsInv, PlacesOK
<1>4. tip \in Block /\ \A c \in Block : BtcHeight[c] \in Nat
  BY HeightAssumption DEF MintsInv, PlacesOK
<1>5. mined[b] = {}
  BY <1>1, <1>4 DEF MintsInv, MinedOK
<1>6. \A c \in Block : c # b => mined'[c] = mined[c]
  BY <1>2 DEF MintsInv, PlacesOK
<1>7. \A c \in Block : mined[c] \subseteq mined'[c]
  BY <1>5, <1>6
<1>8. MinedOK'
  BY <1>1, <1>4, <1>6 DEF MintsInv, MinedOK
<1>9. BtcHeight[tip] <= BtcHeight[tip'] /\ tip' \in Block
  BY <1>1, <1>4
<1>10. CallsOK' /\ MintsOK'
  BY <1>1, <1>7, <1>9, MinedGrows
<1> QED
  BY <1>3, <1>8, <1>9, <1>10 DEF MintsInv, PlacesOK

\* A call that enough signers sign names a confirmed sweep and a fair amount.
LEMMA RespondToDepositMints == ASSUME MintsInv, RespondToDeposit PROVE MintsInv'
<1>1. tip' = tip /\ mined' = mined /\ pool' = pool /\ minted' = minted
  BY DEF RespondToDeposit, chainVars
<1>2. PICK r \in SweptDepositRequests(Coordinator[tip]) :
          stxPool' = IF Cardinality({s \in Signer : ValidateCompleteDeposit(s, CompleteDepositV1(r))})
                            >= Threshold
                     THEN stxPool \cup {CompleteDepositV1(r)} ELSE stxPool
  BY Zenon DEF RespondToDeposit
<1> DEFINE call == CompleteDepositV1(r)
           signers == {s \in Signer : ValidateCompleteDeposit(s, call)}
<1>3. /\ call.deposit = r.deposit /\ call.sweep = r.sweep /\ call.block = r.block
      /\ call.amount = Amount[r.deposit] - AssessInputFee(r.sweep, r.deposit)
  BY DEF CompleteDepositV1
<1>4. r.block \in Block /\ r.sweep \in mined[r.block] /\ r.deposit \in Range(r.sweep.tx.deposits)
  <2>1. /\ r.block \in BitcoinBlockchainOf(db[Coordinator[tip]], tip, Window)
        /\ r.sweep \in mined[r.block] /\ r.deposit \in Range(r.sweep.tx.deposits)
    BY DEF SweptDepositRequests
  <2>2. r.block \in Line[tip]
    BY <2>1 DEF BitcoinBlockchainOf, BitcoinChain
  <2> QED
    BY <2>1, <2>2, LineHeights DEF MintsInv, PlacesOK
<1> HIDE DEF call
<1>5. ASSUME Cardinality(signers) >= Threshold
      PROVE  AssessInputFee(call.sweep, call.deposit) <= MaxFee[call.deposit]
  <2>1. signers # {}
    <3>1. Cardinality({}) = 0
      BY FS_EmptySet
    <3> QED
      BY <1>5, <3>1, ThresholdAssumption
  <2>2. PICK s \in Signer : ValidateCompleteDeposit(s, call)
    BY <2>1
  <2> QED
    BY <2>2, Zenon DEF ValidateCompleteDeposit, ValidateVars
<1>6. \A c \in stxPool' : c \in stxPool \/ (c = call /\ Cardinality(signers) >= Threshold)
  BY <1>2 DEF call
<1>7. Cardinality(signers) >= Threshold => IsFair(call)
  BY <1>3, <1>4, <1>5 DEF IsFair
<1>8. CallsOK'
  <2> SUFFICES ASSUME NEW c \in stxPool'
               PROVE  c.block \in Block /\ c.sweep \in mined[c.block] /\ IsFair(c)
    BY <1>1 DEF CallsOK, IsFair
  <2> QED
    BY <1>3, <1>4, <1>6, <1>7 DEF MintsInv, CallsOK
<1> QED
  BY <1>1, <1>8 DEF MintsInv, PlacesOK, MinedOK, MintsOK, IsFair

\* The contract mints what is not minted on the chain of the tip.
LEMMA ExecuteCallMints == ASSUME MintsInv, ExecuteCall PROVE MintsInv'
<1>1. tip' = tip /\ mined' = mined /\ pool' = pool
  BY DEF ExecuteCall, chainVars
<1>2. PICK call \in stxPool :
          /\ stxPool' = stxPool \ {call}
          /\ \/ minted' = minted
             \/ /\ CompleteDepositWrapper(call)
                /\ minted' = minted \cup {[deposit |-> call.deposit, amount |-> call.amount,
                                           sweep |-> call.sweep, at |-> tip]}
  BY Zenon DEF ExecuteCall
<1>3. PlacesOK' /\ MinedOK' /\ CallsOK'
  BY <1>1, <1>2, Zenon DEF MintsInv, PlacesOK, MinedOK, CallsOK, IsFair
<1>4. CASE minted' = minted
  BY <1>1, <1>3, <1>4 DEF MintsInv, MintsOK, IsFair
<1>5. CASE /\ CompleteDepositWrapper(call)
           /\ minted' = minted \cup {[deposit |-> call.deposit, amount |-> call.amount,
                                      sweep |-> call.sweep, at |-> tip]}
  <2> DEFINE new == [deposit |-> call.deposit, amount |-> call.amount, sweep |-> call.sweep, at |-> tip]
  <2>1. /\ minted' = minted \cup {new}
        /\ new.deposit = call.deposit /\ new.amount = call.amount
        /\ new.sweep = call.sweep /\ new.at = tip
    BY <1>5
  <2> HIDE DEF new
  <2>2. tip \in Block /\ tip \in Line[tip] /\ \A c \in Block : BtcHeight[c] \in Nat
    BY LineHeights, HeightAssumption DEF MintsInv, PlacesOK
  <2>3. call.block \in Line[tip] /\ \A m \in minted : m.deposit = call.deposit => m.at \notin Line[tip]
    BY <1>5 DEF CompleteDepositWrapper, IsDepositCompleted
  <2>4. call.sweep \in mined[call.block] /\ IsFair(new)
    BY <1>2, <2>1 DEF MintsInv, CallsOK, IsFair
  <2>5. ASSUME NEW m \in minted, m.deposit = new.deposit
        PROVE  tip \notin Line[m.at]
    <3>1. m.at \in Block /\ BtcHeight[m.at] <= BtcHeight[tip] /\ m.at # tip
      BY <2>1, <2>2, <2>3, <2>5 DEF MintsInv, MintsOK
    <3>2. BtcHeight[m.at] \in Nat /\ BtcHeight[tip] \in Nat
      BY <2>2, <3>1
    <3>3. tip \in Line[m.at] => tip = m.at \/ BtcHeight[tip] < BtcHeight[m.at]
      BY <3>1, LineHeights
    <3> QED
      BY <3>1, <3>2, <3>3
  <2>6. \A m \in minted : /\ m.at \in Block /\ BtcHeight[m.at] <= BtcHeight[tip]
                          /\ \E b \in Line[m.at] : m.sweep \in mined[b]
                          /\ IsFair(m)
                          /\ \A n \in minted : n.deposit = m.deposit /\ n # m => n.at \notin Line[m.at]
    BY DEF MintsInv, MintsOK
  <2>7. ASSUME NEW m \in minted'
        PROVE  /\ m.at \in Block /\ BtcHeight[m.at] <= BtcHeight[tip]
               /\ \E b \in Line[m.at] : m.sweep \in mined[b]
               /\ IsFair(m)
    BY <2>1, <2>2, <2>3, <2>4, <2>6
  <2>8. ASSUME NEW m \in minted', NEW n \in minted', n.deposit = m.deposit, n # m
        PROVE  n.at \notin Line[m.at]
    <3>1. CASE m \in minted /\ n \in minted
      BY <2>6, <2>8, <3>1
    <3>2. CASE m = new /\ n \in minted
      BY <2>1, <2>3, <2>8, <3>2
    <3>3. CASE m \in minted /\ n = new
      BY <2>1, <2>5, <2>8, <3>3
    <3> QED
      BY <2>1, <2>8, <3>1, <3>2, <3>3
  <2>9. MintsOK'
    BY <1>1, <2>7, <2>8 DEF MintsOK, IsFair
  <2> QED
    BY <1>3, <2>9 DEF MintsInv
<1> QED
  BY <1>2, <1>4, <1>5

\* The other steps leave calls, mints and blocks alone.
LEMMA OtherStepsMints ==
    ASSUME MintsInv, UNCHANGED <<tip, mined, stxPool, minted>>, DOMAIN pool' = Signer
    PROVE  MintsInv'
BY Zenon DEF MintsInv, PlacesOK, MinedOK, CallsOK, MintsOK, IsFair

\* The invariant is inductive.
LEMMA MintsStep == ASSUME MintsInv, [DepositsNext]_depositVars PROVE MintsInv'
<1>1. CASE \E b \in Block : NewBlock(b)
  BY <1>1, NewBlockMints
<1>2. CASE RespondToDeposit
  BY <1>2, RespondToDepositMints
<1>3. CASE ExecuteCall
  BY <1>3, ExecuteCallMints
<1>4. CASE Propagate \/ SignAndBroadcast
  <2>1. UNCHANGED <<tip, mined, stxPool, minted>>
    BY <1>4, Zenon DEF Propagate, SignAndBroadcast
  <2>2. DOMAIN pool' = Signer
    <3>1. pool' = pool \/ \E f : pool' = [s \in Signer |-> f[s]]
      <4>1. CASE Propagate
        <5>1. PICK best : pool' = [s \in Signer |-> pool[best]]
          BY <4>1, Zenon DEF Propagate
        <5> QED
          BY <5>1
      <4>2. CASE SignAndBroadcast
        <5> DEFINE t == Transaction(round.txs[round.next])
        <5>1. pool' = pool \/ \E reached :
                  pool' = [s \in Signer |-> IF s \in reached /\ Accepts(pool[s], t)
                                            THEN (pool[s] \ Evicted(pool[s], t)) \cup {t} ELSE pool[s]]
          BY <4>2, Zenon DEF SignAndBroadcast
        <5> HIDE DEF t
        <5> QED
          BY <5>1
      <4> QED
        BY <1>4, <4>1, <4>2
    <3> QED
      BY <3>1 DEF MintsInv, PlacesOK
  <2> QED
    BY <2>1, <2>2, OtherStepsMints
<1>5. CASE \/ \E s \in Signer : HandleNewRequests(s)
           \/ ConstructPackage \/ PreSign \/ TimeOut \/ EndTenure \/ Finished \/ UNCHANGED depositVars
  <2>1. UNCHANGED <<tip, mined, pool, stxPool, minted>>
    BY <1>5, Zenon DEF HandleNewRequests, ConstructPackage, PreSign, TimeOut, EndTenure, Finished,
                       chainVars, depositVars
  <2> QED
    BY <2>1, OtherStepsMints DEF MintsInv, PlacesOK
<1> QED
  BY <1>1, <1>2, <1>3, <1>4, <1>5 DEF DepositsNext

\* What the invariant says of the chain of the tip.
LEMMA MintsOnTheChain == ASSUME MintsInv PROVE MintsAreSwept
<1> SUFFICES ASSUME NEW m \in MintedOn(tip)
             PROVE  /\ m.sweep \in OnChain(tip) /\ IsFair(m)
                    /\ \A n \in MintedOn(tip) : n.deposit = m.deposit => n = m
  BY DEF MintsAreSwept, IsFair
<1>1. tip \in Block /\ m \in minted /\ m.at \in Line[tip]
  BY DEF MintsInv, PlacesOK, MintedOn
<1>2. IsFair(m) /\ \E b \in Line[m.at] : m.sweep \in mined[b]
  BY <1>1 DEF MintsInv, MintsOK
<1>3. m.sweep \in OnChain(tip)
  <2>1. PICK b \in Line[tip] : m.sweep \in mined[b]
    BY <1>1, <1>2, LineTransitive
  <2> QED
    BY <2>1 DEF OnChain
<1>4. ASSUME NEW n \in MintedOn(tip), n.deposit = m.deposit PROVE n = m
  <2>1. n \in minted /\ n.at \in Line[tip]
    BY DEF MintedOn
  <2>2. n.at \in Line[m.at] \/ m.at \in Line[n.at]
    BY <1>1, <2>1, LinesAreChains
  <2> QED
    BY <1>1, <1>4, <2>1, <2>2 DEF MintsInv, MintsOK
<1> QED
  BY <1>2, <1>3, <1>4

\* On the chain of the tip every mint has its sweep, in a block that the
\* contract checked, pays the deposit less its share of the fee, and is the
\* only one of its deposit, whatever blocks were abandoned between the sweep,
\* the signatures and the execution (complete_deposit.rs, sbtc-deposit.clar).
THEOREM MintsNeedSweeps == DepositsSpec => []MintsAreSwept
<1>1. MintsInv /\ [DepositsNext]_depositVars => MintsInv'
  BY MintsStep
<1>2. MintsInv => MintsAreSwept
  BY MintsOnTheChain
<1> QED
  BY MintsInit, <1>1, <1>2, PTL DEF DepositsSpec

-----------------------------------------------------------------------------
(* Consent.                                                                *)

\* The signer has voted for the deposit, and its blocklist allows it.
Consents(s, d) == OwnVote(s, d, TRUE) /\ <<s, d>> \notin world.blocked

\* The tables that the argument is about.
TablesOK ==
    /\ DOMAIN db = Signer
    /\ \A s \in Signer : "deposit_signers" \in DOMAIN db[s]
                        /\ "bitcoin_tx_sighashes" \in DOMAIN db[s]

\* A signer votes once, and by its own blocklist.
VotesOK ==
    \A s \in Signer : \A v \in db[s].deposit_signers :
        /\ v.can_accept \in BOOLEAN /\ v.can_sign \in BOOLEAN
        /\ v.signer = s /\ v.can_accept => <<s, IdOf(v.outpoint)>> \notin world.blocked
        /\ \A w \in db[s].deposit_signers :
              w.outpoint = v.outpoint /\ w.signer = v.signer => w = v

\* Who decides to sign the input of a deposit has voted for it.
DecisionsOK ==
    \A s \in Signer : \A r \in db[s].bitcoin_tx_sighashes :
        r.will_sign /\ Len(r.sighash) = 3 => Consents(s, r.sighash[1].deposits[r.sighash[2]])

\* The inductive invariant behind the consent.
ConsentInv == TablesOK /\ VotesOK /\ DecisionsOK /\ PlacesOK /\ SweepsHaveConsent

\* A deposit that passes validation has the signer's votes.
LEMMA OkHasVotes ==
    ASSUME NEW r, NEW report, NEW height, NEW unsigned, NEW limits,
           ValidateDeposit(r, report, height, unsigned, limits) = "Ok"
    PROVE  /\ report.can_accept # {} /\ report.can_accept # {FALSE}
           /\ report.can_sign # {} /\ report.can_sign # {FALSE}
BY Zenon DEF ValidateDeposit

\* The votes of signer s on deposit d in its own database.
Own(s, d) == {v \in db[s].deposit_signers : v.outpoint = Outpoint[d] /\ v.signer = s}

\* The report that a signer validates a deposit by has its own votes.
LEMMA ViewsShowVotes ==
    ASSUME NEW s, NEW view \in Views(s), NEW d \in DOMAIN view.deposits
    PROVE  /\ d \in Deposit
           /\ view.deposits[d].report.can_accept = {v.can_accept : v \in Own(s, d)}
           /\ view.deposits[d].report.can_sign = {v.can_sign : v \in Own(s, d)}
<1> DEFINE Reports(e) == GetDepositRequestReport(db[s], tip, Outpoint[e], s)
<1>1. PICK f \in Selections([e \in Reported(s) |-> Reports(e)]), utxo \in SignerUtxos(s) :
          view = ViewOn(s, f, utxo)
  BY SMTT(30) DEF Views
<1>a. DOMAIN view.deposits = DOMAIN f /\ \A e \in DOMAIN f : view.deposits[e].report = f[e]
  BY <1>1 DEF ViewOn
<1>b. DOMAIN f = Reported(s) /\ \A e \in Reported(s) : f[e] \in Reports(e)
  BY <1>1 DEF Selections
<1>2. d \in Deposit /\ f[d] \in Reports(d)
  BY <1>a, <1>b, Zenon DEF Reported
<1>3. PICK row \in GetDepositRequestStatusSummary(db[s], tip, Outpoint[d], s) :
          f[d].can_accept = row.can_accept /\ f[d].can_sign = row.can_sign
  <2>1. PICK row \in GetDepositRequestStatusSummary(db[s], tip, Outpoint[d], s) :
           \E status, height, dkg : f[d] = [status |-> status, height |-> height,
              can_accept |-> row.can_accept, can_sign |-> row.can_sign, dkg_status |-> dkg]
    BY <1>2, Zenon DEF GetDepositRequestReport
  <2> QED
    BY <2>1
<1>4. /\ row.can_accept = {v.can_accept : v \in Own(s, d)}
      /\ row.can_sign = {v.can_sign : v \in Own(s, d)}
  <2> DEFINE rows == {u \in GetDepositSigners(db[s], Outpoint[d]) : u.signer = s}
             accepts == {v.can_accept : v \in rows}
             signs == {v.can_sign : v \in rows}
  <2>1. rows = Own(s, d)
    BY DEF GetDepositSigners, Own
  <2>2. \E block : row = [block |-> block, can_accept |-> accepts, can_sign |-> signs]
    BY <1>3, Zenon DEF GetDepositRequestStatusSummary
  <2>3. row.can_accept = accepts /\ row.can_sign = signs
    <3> HIDE DEF accepts, signs
    <3> QED
      BY <2>2
  <2> QED
    BY <2>1, <2>3, Zenon
<1> QED
  BY <1>a, <1>2, <1>3, <1>4

\* A deposit is known by its outpoint.
LEMMA IdOfOutpoint == \A d \in Deposit : IdOf(Outpoint[d]) = d
BY OutpointAssumption DEF IdOf

\* The decision to sign the input of a deposit follows from the signer's vote.
LEMMA RowsNeedVotes ==
    ASSUME NEW s \in Signer, VotesOK, NEW view \in Views(s), NEW unsigned,
           NEW row \in ToInputRows(view, unsigned), row.will_sign, Len(row.sighash) = 3
    PROVE  Consents(s, row.sighash[1].deposits[row.sighash[2]])
<1>1. PICK i \in DOMAIN unsigned.tx.deposits :
          /\ row.sighash = DepositSighash(unsigned, i)
          /\ DepositResult(view, unsigned, i) = "Ok"
  <2>1. Len(SignerSighash(unsigned)) = 2
    BY DEF SignerSighash
  <2>2. row # [sighash |-> SignerSighash(unsigned), input |-> 0, will_sign |-> IsValidTx(view, unsigned)]
    BY <2>1
  <2>3. PICK i \in DOMAIN unsigned.tx.deposits :
            row = [sighash |-> DepositSighash(unsigned, i), input |-> i,
                   will_sign |-> IsValidTx(view, unsigned) /\ DepositResult(view, unsigned, i) = "Ok"]
    BY <2>2, Zenon DEF ToInputRows
  <2> QED
    BY <2>3, Zenon
<1> DEFINE d == unsigned.tx.deposits[i]
<1>2. row.sighash[1].deposits[row.sighash[2]] = d
  BY <1>1 DEF DepositSighash
<1>3. /\ d \in DOMAIN view.deposits
      /\ ValidateDeposit(view.deposits[d].request, view.deposits[d].report, view.height,
                         unsigned, view.limits) = "Ok"
  <2> DEFINE result == ValidateDeposit(view.deposits[d].request, view.deposits[d].report,
                                       view.height, unsigned, view.limits)
  <2>1. DepositResult(view, unsigned, i) =
            IF d \notin DOMAIN view.deposits THEN "Unknown" ELSE result
    BY Zenon DEF DepositResult
  <2> HIDE DEF result, d
  <2>2. d \in DOMAIN view.deposits /\ result = "Ok"
    BY <1>1, <2>1
  <2> QED
    BY <2>2, Zenon DEF result
<1> HIDE DEF d
<1>4. /\ d \in Deposit
      /\ {v.can_accept : v \in Own(s, d)} # {} /\ {v.can_accept : v \in Own(s, d)} # {FALSE}
      /\ {v.can_sign : v \in Own(s, d)} # {} /\ {v.can_sign : v \in Own(s, d)} # {FALSE}
  <2> DEFINE report == view.deposits[d].report
  <2>1. /\ report.can_accept # {} /\ report.can_accept # {FALSE}
        /\ report.can_sign # {} /\ report.can_sign # {FALSE}
    BY <1>3, OkHasVotes, Zenon
  <2>2. /\ d \in Deposit
        /\ report.can_accept = {v.can_accept : v \in Own(s, d)}
        /\ report.can_sign = {v.can_sign : v \in Own(s, d)}
    BY <1>3, ViewsShowVotes, Zenon
  <2> QED
    BY <2>1, <2>2, Zenon
<1>5. \A v \in Own(s, d) : /\ v.can_accept \in BOOLEAN /\ v.can_sign \in BOOLEAN
                           /\ v.can_accept => <<s, d>> \notin world.blocked
                           /\ \A w \in Own(s, d) : w = v
  BY <1>4, IdOfOutpoint DEF VotesOK, Own
<1>6. PICK v \in Own(s, d) : v.can_accept /\ v.can_sign
  BY <1>4, <1>5, Zenon
<1>7. TRUE = (v.can_accept /\ v.can_sign)
  BY <1>6
<1> QED
  BY <1>2, <1>5, <1>6, <1>7, Zenon DEF Consents, OwnVote, Own

\* The tables of a signer's votes and decisions stay as they are.
SameTables ==
    \A s \in Signer : /\ db'[s].deposit_signers = db[s].deposit_signers
                      /\ db'[s].bitcoin_tx_sighashes = db[s].bitcoin_tx_sighashes

\* Consent is not withdrawn where votes are kept.
LEMMA ConsentStays ==
    ASSUME NEW s, NEW d, world' = world, Consents(s, d),
           db[s].deposit_signers \subseteq db'[s].deposit_signers
    PROVE  Consents(s, d)'
BY DEF Consents, OwnVote

\* Where the tables stay, what was true of them stays true.
LEMMA SameTablesKeep ==
    ASSUME VotesOK, DecisionsOK, SameTables, world' = world
    PROVE  VotesOK' /\ DecisionsOK'
<1>1. VotesOK'
  BY DEF VotesOK, SameTables, IdOf
<1>2. DecisionsOK'
  <2> SUFFICES ASSUME NEW s \in Signer, NEW r \in db'[s].bitcoin_tx_sighashes,
                      r.will_sign, Len(r.sighash) = 3
               PROVE  Consents(s, r.sighash[1].deposits[r.sighash[2]])'
    BY DEF DecisionsOK
  <2>1. r \in db[s].bitcoin_tx_sighashes
    BY DEF SameTables
  <2>2. Consents(s, r.sighash[1].deposits[r.sighash[2]])
    BY <2>1 DEF DecisionsOK
  <2>3. db[s].deposit_signers \subseteq db'[s].deposit_signers
    BY DEF SameTables
  <2> QED
    BY <2>2, <2>3, ConsentStays
<1> QED
  BY <1>1, <1>2

\* A quorum that consents stays one where votes are kept.
LEMMA QuorumStays ==
    ASSUME NEW d, world' = world,
           \A s \in Signer : db[s].deposit_signers \subseteq db'[s].deposit_signers,
           Cardinality({s \in Signer : Consents(s, d)}) >= Threshold
    PROVE  Cardinality({s \in Signer : Consents(s, d)'}) >= Threshold
<1> DEFINE A == {s \in Signer : Consents(s, d)}
           B == {s \in Signer : Consents(s, d)'}
<1>1. A \subseteq B
  BY ConsentStays
<1>2. IsFiniteSet(B) /\ B \subseteq Signer
  BY SignerAssumption, FS_Subset
<1> HIDE DEF A, B
<1>3. Cardinality(A) <= Cardinality(B) /\ Cardinality(A) \in Nat /\ Cardinality(B) \in Nat
  BY <1>1, <1>2, FS_Subset, FS_CardinalityType
<1>4. Cardinality(A) >= Threshold
  BY DEF A
<1>5. Cardinality(B) >= Threshold
  BY <1>3, <1>4, ThresholdAssumption
<1> QED
  BY <1>5 DEF B

\* Sweeps that were there, or that have a quorum now, have one afterwards.
LEMMA ConsentIsKept ==
    ASSUME SweepsHaveConsent, world' = world,
           \A s \in Signer : db[s].deposit_signers \subseteq db'[s].deposit_signers,
           \A u \in AllSweeps' : u \in AllSweeps \/ \A d \in Range(u.tx.deposits) :
               Cardinality({s \in Signer : Consents(s, d)}) >= Threshold
    PROVE  SweepsHaveConsent'
<1> SUFFICES ASSUME NEW u \in AllSweeps', NEW d \in Range(u.tx.deposits)
             PROVE  Cardinality({s \in Signer : Consents(s, d)'}) >= Threshold
  BY Zenon DEF SweepsHaveConsent, Consents
<1>1. Cardinality({s \in Signer : Consents(s, d)}) >= Threshold
  BY Zenon DEF SweepsHaveConsent, Consents
<1> QED
  BY <1>1, QuorumStays

\* Two databases have the same votes and decisions.
Agree(d, e) ==
    /\ "deposit_signers" \in DOMAIN e /\ "bitcoin_tx_sighashes" \in DOMAIN e
    /\ e.deposit_signers = d.deposit_signers
    /\ e.bitcoin_tx_sighashes = d.bitcoin_tx_sighashes

\* Writes to the other tables.
LEMMA OtherWrites ==
    ASSUME NEW c, NEW d, Agree(c, d), NEW x
    PROVE  /\ Agree(c, WriteBitcoinBlocks(d, x))
           /\ Agree(c, WriteStacksBlockHeaders(d, x))
           /\ Agree(c, WriteStacksBlock(d, x))
           /\ Agree(c, WriteTxOutputs(d, x))
           /\ Agree(c, WriteTxPrevouts(d, x))
           /\ Agree(c, WriteBitcoinTransactions(d, x))
           /\ Agree(c, WriteBitcoinTransaction(d, x))
           /\ Agree(c, WriteDepositRequests(d, x))
           /\ Agree(c, WriteCompletedDepositEvent(d, x))
           /\ Agree(c, WriteEncryptedDkgShares(d, x))
<1>1. Agree(c, WriteBitcoinBlocks(d, x))
  BY DEF Agree, WriteBitcoinBlocks
<1>2. Agree(c, WriteStacksBlockHeaders(d, x))
  BY DEF Agree, WriteStacksBlockHeaders
<1>3. Agree(c, WriteStacksBlock(d, x))
  BY DEF Agree, WriteStacksBlock
<1>4. Agree(c, WriteTxOutputs(d, x))
  BY DEF Agree, WriteTxOutputs
<1>5. Agree(c, WriteTxPrevouts(d, x))
  BY DEF Agree, WriteTxPrevouts
<1>6. Agree(c, WriteBitcoinTransactions(d, x)) /\ Agree(c, WriteBitcoinTransaction(d, x))
  BY DEF Agree, WriteBitcoinTransactions, WriteBitcoinTransaction
<1>7. Agree(c, WriteDepositRequests(d, x))
  BY DEF Agree, WriteDepositRequests
<1>8. Agree(c, WriteCompletedDepositEvent(d, x))
  BY DEF Agree, WriteCompletedDepositEvent
<1>9. Agree(c, WriteEncryptedDkgShares(d, x))
  BY DEF Agree, WriteEncryptedDkgShares
<1> QED
  BY <1>1, <1>2, <1>3, <1>4, <1>5, <1>6, <1>7, <1>8, <1>9

\* Observing blocks changes no vote and no decision.
LEMMA ObserveAgrees ==
    ASSUME NEW s, NEW d, Agree(d, d), NEW new, NEW sweeps
    PROVE  Agree(d, Observe(s, d, new, sweeps))
BY OtherWrites, Zenon DEF Observe

\* A signer starts without votes and decisions.
LEMMA FirstDbIsEmpty ==
    ASSUME NEW s, NEW shares
    PROVE  Agree(EmptyDb, FirstDb(s, shares))
<1>1. Agree(EmptyDb, EmptyDb)
  BY Zenon DEF Agree, EmptyDb
<1> QED
  BY <1>1, OtherWrites, Zenon DEF FirstDb, WriteTxOutput, WriteBitcoinBlock

\* The inductive invariant holds at the start.
LEMMA ConsentInit == DepositsInit => ConsentInv
<1> SUFFICES ASSUME DepositsInit PROVE ConsentInv
  OBVIOUS
<1>1. \A s \in Signer : Agree(EmptyDb, db[s])
  BY FirstDbIsEmpty DEF DepositsInit
<1>2. EmptyDb.deposit_signers = {} /\ EmptyDb.bitcoin_tx_sighashes = {}
  BY DEF EmptyDb
<1>3. DOMAIN db = Signer
  BY Zenon DEF DepositsInit
<1>4. TablesOK /\ VotesOK /\ DecisionsOK
  BY <1>1, <1>2, <1>3 DEF TablesOK, VotesOK, DecisionsOK, Agree
<1>5. PlacesOK /\ AllSweeps = {}
  BY GenesisAssumption, Zenon DEF DepositsInit, PlacesOK, AllSweeps
<1> QED
  BY <1>4, <1>5 DEF ConsentInv, SweepsHaveConsent

\* Where the sweeps are, before and after a step.
LEMMA WhereSweepsAre ==
    ASSUME NEW u
    PROVE  /\ u \in AllSweeps <=>
                 (\E s \in Signer : u \in pool[s]) \/ (\E b \in Block : u \in mined[b])
           /\ u \in AllSweeps' <=>
                 (\E s \in Signer : u \in pool'[s]) \/ (\E b \in Block : u \in mined'[b])
<1>1. u \in UNION {pool[s] : s \in Signer} <=> \E s \in Signer : u \in pool[s]
  OBVIOUS
<1>2. u \in UNION {mined[b] : b \in Block} <=> \E b \in Block : u \in mined[b]
  OBVIOUS
<1>3. u \in UNION {pool'[s] : s \in Signer} <=> \E s \in Signer : u \in pool'[s]
  OBVIOUS
<1>4. u \in UNION {mined'[b] : b \in Block} <=> \E b \in Block : u \in mined'[b]
  OBVIOUS
<1> QED
  BY <1>1, <1>2, <1>3, <1>4, Zenon DEF AllSweeps

\* What a node keeps, it had.
LEMMA KeepIsPart == ASSUME NEW S, NEW past, NEW b PROVE Keep(S, past, b) \subseteq S
BY Zenon DEF Keep

\* What is on the chain of the tip is in some block.
LEMMA OnChainIsMined ==
    ASSUME tip \in Block, NEW u \in OnChain(tip)
    PROVE  \E b \in Block : u \in mined[b]
BY LineHeights DEF OnChain

\* A new block: nodes drop sweeps and put back those of abandoned blocks.
LEMMA NewBlockConsent ==
    ASSUME ConsentInv, NEW b \in Block, NewBlock(b)
    PROVE  ConsentInv'
<1>1. world' = world /\ tip' = b
  BY DEF NewBlock
<1>2. /\ DOMAIN db' = Signer
      /\ \A s \in Signer : db'[s] = Observe(s, db[s], Line[b] \ Seen, mined')
  BY Zenon DEF NewBlock
<1>3. \A s \in Signer : Agree(db[s], db'[s])
  <2>1. \A s \in Signer : Agree(db[s], db[s])
    BY Zenon DEF ConsentInv, TablesOK, Agree
  <2> QED
    BY <1>2, <2>1, ObserveAgrees, Zenon
<1>4. TablesOK' /\ SameTables
  BY <1>2, <1>3 DEF TablesOK, SameTables, Agree
<1>5. VotesOK' /\ DecisionsOK'
  BY <1>1, <1>4, SameTablesKeep, Zenon DEF ConsentInv
<1>6. PlacesOK'
  BY <1>1, Zenon DEF ConsentInv, PlacesOK, NewBlock
<1>7. AllSweeps' \subseteq AllSweeps
  <2> DEFINE waiting == UNION {pool[s] : s \in Signer}
             past == UNION {mined[c] : c \in Line[b]}
             left == OnChain(tip) \ past
  <2> HIDE DEF waiting, past, left
  <2>1. PICK in \in SUBSET (waiting \cup left) :
            /\ mined' = [mined EXCEPT ![b] = in]
            /\ pool' = [s \in Signer |->
                  LET kept == Keep(pool[s], past \cup in, b)
                  IN  kept \cup Keep({u \in left : \A v \in kept : ~Conflict(u, v)},
                                     past \cup in \cup kept, b)]
    BY Zenon DEF NewBlock, waiting, past, left
  <2>2. left \subseteq AllSweeps /\ waiting \subseteq AllSweeps
    <3>1. tip \in Block
      BY DEF ConsentInv, PlacesOK
    <3>2. ASSUME NEW u \in left PROVE u \in AllSweeps
      BY <3>1, <3>2, OnChainIsMined, WhereSweepsAre, Zenon DEF left
    <3>3. ASSUME NEW u \in waiting PROVE u \in AllSweeps
      <4>1. \E s \in Signer : u \in pool[s]
        BY <3>3, Zenon DEF waiting
      <4> QED
        BY <4>1, WhereSweepsAre
    <3> QED
      BY <3>2, <3>3
  <2>3. ASSUME NEW s \in Signer, NEW u \in pool'[s] PROVE u \in AllSweeps
    <3> DEFINE kept == Keep(pool[s], past \cup in, b)
               back == {v \in left : \A w \in kept : ~Conflict(v, w)}
    <3>1. u \in kept \cup Keep(back, past \cup in \cup kept, b)
      BY <2>1, <2>3
    <3>2. kept \subseteq pool[s] /\ Keep(back, past \cup in \cup kept, b) \subseteq back
      BY KeepIsPart, Zenon
    <3>3. u \in pool[s] \/ u \in left
      BY <3>1, <3>2, Zenon
    <3> QED
      BY <2>2, <3>3, WhereSweepsAre, Zenon
  <2>4. ASSUME NEW c \in Block, NEW u \in mined'[c] PROVE u \in AllSweeps
    <3>1. c # b => u \in mined[c]
      BY <2>1, <2>4 DEF ConsentInv, PlacesOK
    <3>2. c = b => u \in in
      BY <2>1, <2>4, Zenon DEF ConsentInv, PlacesOK
    <3> QED
      BY <2>2, <3>1, <3>2, WhereSweepsAre, Zenon
  <2> QED
    BY <2>3, <2>4, WhereSweepsAre
<1>8. SweepsHaveConsent'
  BY <1>1, <1>4, <1>7, ConsentIsKept DEF ConsentInv, SameTables
<1> QED
  BY <1>4, <1>5, <1>6, <1>8, Zenon DEF ConsentInv

\* Mempools and blocks that stay have the sweeps that they had.
LEMMA SameSweeps == ASSUME UNCHANGED <<pool, mined>> PROVE AllSweeps' = AllSweeps
BY DEF AllSweeps

\* The writes of votes: rows that are there stay, and others have their key.
LEMMA VoteWrites ==
    ASSUME NEW d, NEW votes, "deposit_signers" \in DOMAIN d, "bitcoin_tx_sighashes" \in DOMAIN d
    PROVE  LET e == WriteDepositSignerDecisions(d, votes)
           IN  /\ "deposit_signers" \in DOMAIN e /\ "bitcoin_tx_sighashes" \in DOMAIN e
               /\ e.bitcoin_tx_sighashes = d.bitcoin_tx_sighashes
               /\ e.deposit_signers = d.deposit_signers \cup {v \in votes :
                      \A r \in d.deposit_signers : <<r.outpoint, r.signer>> # <<v.outpoint, v.signer>>}
BY DEF WriteDepositSignerDecisions

\* What VotesOK says of one signer's table.
TableOK(s, table) ==
    \A v \in table :
        /\ v.can_accept \in BOOLEAN /\ v.can_sign \in BOOLEAN
        /\ v.signer = s /\ v.can_accept => <<s, IdOf(v.outpoint)>> \notin world.blocked
        /\ \A w \in table : w.outpoint = v.outpoint /\ w.signer = v.signer => w = v

\* A table stays in order when votes are added that are in order themselves.
LEMMA TableGrows ==
    ASSUME NEW s, NEW table, TableOK(s, table), NEW votes, TableOK(s, votes)
    PROVE  TableOK(s, table \cup {v \in votes :
               \A r \in table : <<r.outpoint, r.signer>> # <<v.outpoint, v.signer>>})
<1> DEFINE new == {v \in votes : \A r \in table : ~(r.outpoint = v.outpoint /\ r.signer = v.signer)}
<1>1. {v \in votes : \A r \in table : <<r.outpoint, r.signer>> # <<v.outpoint, v.signer>>} = new
  OBVIOUS
<1>2. TableOK(s, table \cup new)
  BY DEF TableOK
<1> QED
  BY <1>1, <1>2

\* The votes of a signer that handles new requests, and those it sends.
LEMMA VotesStep ==
    ASSUME ConsentInv, NEW s \in Signer, HandleNewRequests(s)
    PROVE  /\ TablesOK' /\ VotesOK'
           /\ \A r \in Signer : /\ db[r].deposit_signers \subseteq db'[r].deposit_signers
                                /\ db'[r].bitcoin_tx_sighashes = db[r].bitcoin_tx_sighashes
<1>1. PICK heard, pending :
          db' = Voted(s, HandlePendingDepositRequests(s, db[s], pending), pending, heard)
  BY Zenon DEF HandleNewRequests
<1> DEFINE mine == HandlePendingDepositRequests(s, db[s], pending)
           sent == DecisionsToSend(s, mine, pending)
           votes == {[outpoint |-> o, signer |-> s, can_accept |-> <<s, IdOf(o)>> \notin world.blocked,
                      can_sign |-> CanSignDepositTx(db[s], o, s) = {TRUE},
                      known |-> db[s].bitcoin_blocks] : o \in pending}
           copies(r) == {[outpoint |-> v.outpoint, signer |-> v.signer, can_accept |-> v.can_accept,
                          can_sign |-> v.can_sign, known |-> db[r].bitcoin_blocks] : v \in sent}
<1>2. mine = WriteDepositSignerDecisions(db[s], votes)
  BY Zenon DEF HandlePendingDepositRequests
<1>4. TableOK(s, votes)
  <2> DEFINE allowed(o) == <<s, IdOf(o)>> \notin world.blocked
             able(o) == CanSignDepositTx(db[s], o, s) = {TRUE}
             vote(o) == [outpoint |-> o, signer |-> s, can_accept |-> allowed(o),
                         can_sign |-> able(o), known |-> db[s].bitcoin_blocks]
  <2>1. \A v \in votes : \E o \in pending : v = vote(o)
    BY Zenon
  <2>2. \A o : allowed(o) \in BOOLEAN /\ able(o) \in BOOLEAN
    BY Zenon
  <2>3. ASSUME NEW o, NEW v, v = vote(o)
        PROVE  /\ v.can_accept \in BOOLEAN /\ v.can_sign \in BOOLEAN
               /\ v.outpoint = o
               /\ v.can_accept => <<s, IdOf(v.outpoint)>> \notin world.blocked
    <3> HIDE DEF able
    <3> QED
      BY <2>2, <2>3, Zenon
  <2> HIDE DEF votes, vote, allowed, able
  <2> QED
    BY <2>1, <2>3 DEF TableOK
<1> HIDE DEF votes, mine
<1>5. \A r \in Signer : /\ "deposit_signers" \in DOMAIN db[r] /\ "bitcoin_tx_sighashes" \in DOMAIN db[r]
                        /\ TableOK(r, db[r].deposit_signers)
  BY DEF ConsentInv, TablesOK, VotesOK, TableOK
<1>6. /\ "deposit_signers" \in DOMAIN mine /\ "bitcoin_tx_sighashes" \in DOMAIN mine
      /\ mine.bitcoin_tx_sighashes = db[s].bitcoin_tx_sighashes
      /\ db[s].deposit_signers \subseteq mine.deposit_signers
      /\ TableOK(s, mine.deposit_signers)
  <2>1. /\ "deposit_signers" \in DOMAIN mine /\ "bitcoin_tx_sighashes" \in DOMAIN mine
        /\ mine.bitcoin_tx_sighashes = db[s].bitcoin_tx_sighashes
        /\ mine.deposit_signers = db[s].deposit_signers \cup {v \in votes :
               \A r \in db[s].deposit_signers : <<r.outpoint, r.signer>> # <<v.outpoint, v.signer>>}
    BY <1>2, <1>5, VoteWrites, Zenon
  <2> QED
    BY <1>4, <1>5, <2>1, TableGrows
<1>7. sent \subseteq mine.deposit_signers /\ \A v \in sent : v.signer = s
  BY <1>6, Zenon DEF DecisionsToSend, GetDepositSignerDecisions
<1> HIDE DEF sent
<1>8. ASSUME NEW r \in Signer, r # s PROVE TableOK(r, copies(r))
  <2>1. \A v \in sent : /\ v.can_accept \in BOOLEAN /\ v.can_sign \in BOOLEAN /\ v.signer = s
                        /\ \A w \in sent : w.outpoint = v.outpoint => w = v
    BY <1>6, <1>7, Zenon DEF TableOK
  <2> QED
    BY <1>8, <2>1 DEF TableOK
<1> HIDE DEF copies
<1>9. ASSUME NEW r \in Signer, r # s, NEW e, e = PersistReceivedDepositDecisions(db[r], sent)
      PROVE  /\ "deposit_signers" \in DOMAIN e /\ "bitcoin_tx_sighashes" \in DOMAIN e
             /\ e.bitcoin_tx_sighashes = db[r].bitcoin_tx_sighashes
             /\ db[r].deposit_signers \subseteq e.deposit_signers
             /\ TableOK(r, e.deposit_signers)
  <2> DEFINE d == WriteDepositRequests(db[r], {v.outpoint : v \in sent})
  <2>1. Agree(db[r], d)
    <3>1. Agree(db[r], db[r])
      BY <1>5 DEF Agree
    <3> QED
      BY <3>1, OtherWrites, Zenon
  <2> HIDE DEF d
  <2>2. e = WriteDepositSignerDecisions(d, copies(r))
    BY <1>9, Zenon DEF d, copies, PersistReceivedDepositDecisions
  <2>3. /\ "deposit_signers" \in DOMAIN e /\ "bitcoin_tx_sighashes" \in DOMAIN e
        /\ e.bitcoin_tx_sighashes = db[r].bitcoin_tx_sighashes
        /\ e.deposit_signers = db[r].deposit_signers \cup {v \in copies(r) :
               \A q \in db[r].deposit_signers : <<q.outpoint, q.signer>> # <<v.outpoint, v.signer>>}
    BY <2>1, <2>2, VoteWrites DEF Agree
  <2> QED
    BY <1>5, <1>8, <1>9, <2>3, TableGrows
<1>10. DOMAIN db' = Signer /\ world' = world
  BY <1>1, Zenon DEF Voted, HandleNewRequests
<1>11. ASSUME NEW r \in Signer
       PROVE  /\ "deposit_signers" \in DOMAIN db'[r] /\ "bitcoin_tx_sighashes" \in DOMAIN db'[r]
              /\ db'[r].bitcoin_tx_sighashes = db[r].bitcoin_tx_sighashes
              /\ db[r].deposit_signers \subseteq db'[r].deposit_signers
              /\ TableOK(r, db'[r].deposit_signers)
  <2>1. db'[r] = IF r = s THEN mine
                 ELSE IF r \in heard THEN PersistReceivedDepositDecisions(db[r], sent)
                 ELSE db[r]
    BY <1>1 DEF Voted, mine, sent
  <2> QED
    BY <1>5, <1>6, <1>9, <2>1
<1>12. VotesOK'
  BY <1>10, <1>11, Zenon DEF VotesOK, TableOK, IdOf
<1> QED
  BY <1>10, <1>11, <1>12 DEF TablesOK

\* Decisions stand where votes are kept and no decision is added.
LEMMA DecisionsStay ==
    ASSUME DecisionsOK, world' = world,
           \A s \in Signer : /\ db[s].deposit_signers \subseteq db'[s].deposit_signers
                             /\ db'[s].bitcoin_tx_sighashes = db[s].bitcoin_tx_sighashes
    PROVE  DecisionsOK'
<1> SUFFICES ASSUME NEW s \in Signer, NEW r \in db'[s].bitcoin_tx_sighashes,
                    r.will_sign, Len(r.sighash) = 3
             PROVE  Consents(s, r.sighash[1].deposits[r.sighash[2]])'
  BY DEF DecisionsOK
<1>1. Consents(s, r.sighash[1].deposits[r.sighash[2]])
  BY DEF DecisionsOK
<1> QED
  BY <1>1, ConsentStays, Zenon

\* A signer votes: consent is only added.
LEMMA HandleNewRequestsConsent ==
    ASSUME ConsentInv, NEW s \in Signer, HandleNewRequests(s)
    PROVE  ConsentInv'
<1>1. world' = world /\ tip' = tip /\ pool' = pool /\ mined' = mined
  BY DEF HandleNewRequests, chainVars
<1>2. TablesOK' /\ VotesOK'
  BY VotesStep
<1>3. \A r \in Signer : /\ db[r].deposit_signers \subseteq db'[r].deposit_signers
                        /\ db'[r].bitcoin_tx_sighashes = db[r].bitcoin_tx_sighashes
  BY VotesStep
<1>4. DecisionsOK'
  BY <1>1, <1>3, DecisionsStay DEF ConsentInv
<1>5. PlacesOK'
  BY <1>1 DEF ConsentInv, PlacesOK
<1>6. SweepsHaveConsent'
  BY <1>1, <1>3, SameSweeps, ConsentIsKept DEF ConsentInv
<1> QED
  BY <1>2, <1>4, <1>5, <1>6, Zenon DEF ConsentInv

\* What a signer does with a pre-sign request: it keeps its database, or adds
\* the decisions that follow from what it knows.
LEMMA PreSignWrites ==
    ASSUME NEW s, NEW answer \in HandleBitcoinPreSignRequest(s)
    PROVE  \/ answer.db = db[s]
           \/ \E view \in Views(s) : \E txs :
                 answer.db = WriteBitcoinTxsSighashes(db[s], UNION {ToInputRows(view, u) : u \in Range(txs)})
<1> DEFINE package(view) == ConstructPackageSighashes(view, PreSignRequestOf(round))
           Decisions(view, txs) == UNION {ToInputRows(view, u) : u \in Range(txs)}
           failed == {[db |-> db[s], ack |-> FALSE]}
           Written(view) == [db |-> WriteBitcoinTxsSighashes(db[s], Decisions(view, package(view).val)), ack |-> TRUE]
           Answer(view) == IF ~package(view).ok THEN failed ELSE {Written(view)}
<1>1. \/ answer \in failed
      \/ answer \in UNION {Answer(view) : view \in Views(s)}
  BY Zenon DEF HandleBitcoinPreSignRequest
<1>2. answer \in failed => answer.db = db[s]
  OBVIOUS
<1>3. ASSUME NEW view \in Views(s), answer \in Answer(view)
      PROVE  answer \in failed \/ answer = Written(view)
  BY <1>3, Zenon
<1>4. \A view : Written(view).db = WriteBitcoinTxsSighashes(db[s], Decisions(view, package(view).val))
  OBVIOUS
<1> HIDE DEF failed, Written, package
<1> QED
  BY <1>1, <1>2, <1>3, <1>4, Zenon

\* What a signer's table of decisions is after a pre-sign request.
LEMMA PreSignAnswers ==
    ASSUME ConsentInv, NEW s \in Signer, NEW answer \in HandleBitcoinPreSignRequest(s)
    PROVE  /\ "deposit_signers" \in DOMAIN answer.db /\ "bitcoin_tx_sighashes" \in DOMAIN answer.db
           /\ answer.db.deposit_signers = db[s].deposit_signers
           /\ \A r \in answer.db.bitcoin_tx_sighashes : r.will_sign /\ Len(r.sighash) = 3 =>
                 Consents(s, r.sighash[1].deposits[r.sighash[2]])
<1>1. /\ "deposit_signers" \in DOMAIN db[s] /\ "bitcoin_tx_sighashes" \in DOMAIN db[s]
      /\ \A r \in db[s].bitcoin_tx_sighashes : r.will_sign /\ Len(r.sighash) = 3 =>
            Consents(s, r.sighash[1].deposits[r.sighash[2]])
  BY DEF ConsentInv, TablesOK, DecisionsOK
<1>2. CASE answer.db = db[s]
  BY <1>1, <1>2, Zenon
<1>3. ASSUME NEW view \in Views(s), NEW txs, NEW rows,
             rows = UNION {ToInputRows(view, u) : u \in Range(txs)},
             answer.db = WriteBitcoinTxsSighashes(db[s], rows)
      PROVE  /\ "deposit_signers" \in DOMAIN answer.db /\ "bitcoin_tx_sighashes" \in DOMAIN answer.db
             /\ answer.db.deposit_signers = db[s].deposit_signers
             /\ \A r \in answer.db.bitcoin_tx_sighashes : r.will_sign /\ Len(r.sighash) = 3 =>
                   Consents(s, r.sighash[1].deposits[r.sighash[2]])
  <2>1. /\ "deposit_signers" \in DOMAIN answer.db /\ "bitcoin_tx_sighashes" \in DOMAIN answer.db
        /\ answer.db.deposit_signers = db[s].deposit_signers
        /\ answer.db.bitcoin_tx_sighashes \subseteq db[s].bitcoin_tx_sighashes \cup rows
    BY <1>1, <1>3, Zenon DEF WriteBitcoinTxsSighashes
  <2>2. ASSUME NEW r \in rows, r.will_sign, Len(r.sighash) = 3
        PROVE  Consents(s, r.sighash[1].deposits[r.sighash[2]])
    <3>1. PICK u \in Range(txs) : r \in ToInputRows(view, u)
      BY <1>3, <2>2, Zenon
    <3> QED
      BY <2>2, <3>1, RowsNeedVotes DEF ConsentInv
  <2> QED
    BY <1>1, <2>1, <2>2
<1>4. \/ answer.db = db[s]
      \/ \E view \in Views(s) : \E txs :
            answer.db = WriteBitcoinTxsSighashes(db[s], UNION {ToInputRows(view, u) : u \in Range(txs)})
  BY PreSignWrites, Zenon
<1> QED
  BY <1>2, <1>3, <1>4, Zenon

\* Signers decide about a package: by their votes.
LEMMA PreSignConsent == ASSUME ConsentInv, PreSign PROVE ConsentInv'
<1>1. world' = world /\ tip' = tip /\ pool' = pool /\ mined' = mined
  BY DEF PreSign, chainVars
<1>2. PICK fresh, after :
          /\ after \in Selections([s \in fresh |-> HandleBitcoinPreSignRequest(s)])
          /\ db' = [s \in Signer |-> IF s \in fresh THEN after[s].db ELSE db[s]]
  BY Zenon DEF PreSign
<1>3. \A s \in fresh : after[s] \in HandleBitcoinPreSignRequest(s)
  BY <1>2 DEF Selections
<1>4. ASSUME NEW s \in Signer
      PROVE  /\ "deposit_signers" \in DOMAIN db'[s] /\ "bitcoin_tx_sighashes" \in DOMAIN db'[s]
             /\ db'[s].deposit_signers = db[s].deposit_signers
             /\ \A r \in db'[s].bitcoin_tx_sighashes : r.will_sign /\ Len(r.sighash) = 3 =>
                   Consents(s, r.sighash[1].deposits[r.sighash[2]])
  <2>1. CASE s \in fresh
    <3>1. db'[s] = after[s].db
      BY <1>2, <2>1
    <3>2. after[s] \in HandleBitcoinPreSignRequest(s)
      BY <1>3, <2>1
    <3> QED
      BY <3>1, <3>2, PreSignAnswers
  <2>2. CASE s \notin fresh
    <3>1. db'[s] = db[s]
      BY <1>2, <2>2, Zenon
    <3> QED
      BY <3>1 DEF ConsentInv, TablesOK, DecisionsOK
  <2> QED
    BY <2>1, <2>2, Zenon
<1>5. TablesOK'
  BY <1>2, <1>4, Zenon DEF TablesOK
<1>6. VotesOK'
  BY <1>1, <1>4, Zenon DEF ConsentInv, VotesOK, IdOf
<1>7. DecisionsOK'
  <2> SUFFICES ASSUME NEW s \in Signer, NEW r \in db'[s].bitcoin_tx_sighashes,
                      r.will_sign, Len(r.sighash) = 3
               PROVE  Consents(s, r.sighash[1].deposits[r.sighash[2]])'
    BY DEF DecisionsOK
  <2>1. Consents(s, r.sighash[1].deposits[r.sighash[2]])
    BY <1>4
  <2>2. db[s].deposit_signers \subseteq db'[s].deposit_signers
    BY <1>4
  <2> QED
    BY <1>1, <2>1, <2>2, ConsentStays, Zenon
<1>8. PlacesOK'
  BY <1>1, Zenon DEF ConsentInv, PlacesOK
<1>9. SweepsHaveConsent'
  BY <1>1, <1>4, SameSweeps, ConsentIsKept DEF ConsentInv
<1> QED
  BY <1>5, <1>6, <1>7, <1>8, <1>9 DEF ConsentInv

\* Who signs the input of a deposit has consented.
LEMMA SignersConsent ==
    ASSUME ConsentInv, NEW u, QuorumSigns(u), NEW d \in Range(u.tx.deposits)
    PROVE  Cardinality({s \in Signer : Consents(s, d)}) >= Threshold
<1>1. PICK p \in DOMAIN u.tx.deposits : d = u.tx.deposits[p]
  BY DEF Range
<1> DEFINE hash == DepositSighash(u, p)
           A == Signing(hash)
           B == {s \in Signer : Consents(s, d)}
<1>2. hash[1].deposits[hash[2]] = d /\ Len(hash) = 3
  BY <1>1, Zenon DEF DepositSighash
<1> HIDE DEF hash
<1>3. A \subseteq B
  <2> SUFFICES ASSUME NEW s \in Signer, WillSignBitcoinTxSighash(db[s], hash) = {TRUE}
               PROVE  Consents(s, d)
    BY Zenon DEF Signing
  <2>1. PICK r \in db[s].bitcoin_tx_sighashes : r.sighash = hash /\ r.will_sign = TRUE
    BY Zenon DEF WillSignBitcoinTxSighash
  <2> QED
    BY <1>2, <2>1 DEF ConsentInv, DecisionsOK
<1>4. IsFiniteSet(B)
  BY SignerAssumption, FS_Subset
<1>5. Cardinality(A) >= Threshold
  BY <1>1 DEF QuorumSigns, hash
<1> HIDE DEF A, B
<1>6. Cardinality(A) <= Cardinality(B) /\ Cardinality(A) \in Nat /\ Cardinality(B) \in Nat
  BY <1>3, <1>4, FS_Subset, FS_CardinalityType
<1>7. Cardinality(B) >= Threshold
  BY <1>5, <1>6, ThresholdAssumption
<1> QED
  BY <1>7 DEF B

\* A sweep that a quorum signs goes into mempools.
LEMMA SignAndBroadcastConsent == ASSUME ConsentInv, SignAndBroadcast PROVE ConsentInv'
<1> DEFINE u == round.txs[round.next]
           t == Transaction(u)
<1>1. world' = world /\ tip' = tip /\ db' = db /\ mined' = mined
  BY DEF SignAndBroadcast
<1>2. QuorumSigns(u)
  BY DEF SignAndBroadcast, CanSign
<1>3. DOMAIN pool' = Signer /\ \A s \in Signer : pool'[s] \subseteq pool[s] \cup {t}
  <2>1. CASE pool' = pool
    BY <2>1 DEF ConsentInv, PlacesOK
  <2>2. ASSUME NEW reached,
               pool' = [s \in Signer |-> IF s \in reached /\ Accepts(pool[s], t)
                                         THEN (pool[s] \ Evicted(pool[s], t)) \cup {t} ELSE pool[s]]
        PROVE  DOMAIN pool' = Signer /\ \A s \in Signer : pool'[s] \subseteq pool[s] \cup {t}
    <3> HIDE DEF t
    <3> QED
      BY <2>2
  <2>3. \/ pool' = pool
        \/ \E reached :
              pool' = [s \in Signer |-> IF s \in reached /\ Accepts(pool[s], t)
                                        THEN (pool[s] \ Evicted(pool[s], t)) \cup {t} ELSE pool[s]]
    BY Zenon DEF SignAndBroadcast
  <2> QED
    BY <2>1, <2>2, <2>3, Zenon
<1>4. t.tx = u.tx
  BY DEF Transaction
<1> HIDE DEF t, u
<1>5. \A v \in AllSweeps' : v \in AllSweeps \/ v = t
  BY <1>1, <1>3, WhereSweepsAre
<1>6. \A d \in Range(t.tx.deposits) : Cardinality({s \in Signer : Consents(s, d)}) >= Threshold
  BY <1>2, <1>4, SignersConsent, Zenon
<1>7. SweepsHaveConsent'
  BY <1>1, <1>5, <1>6, ConsentIsKept, Zenon DEF ConsentInv
<1>8. TablesOK' /\ SameTables
  BY <1>1 DEF ConsentInv, TablesOK, SameTables
<1>9. VotesOK' /\ DecisionsOK'
  BY <1>1, <1>8, SameTablesKeep DEF ConsentInv
<1>10. PlacesOK'
  BY <1>1, <1>3 DEF ConsentInv, PlacesOK
<1> QED
  BY <1>7, <1>8, <1>9, <1>10 DEF ConsentInv

\* A call is executed: only the event of a mint is written.
LEMMA ExecuteCallConsent == ASSUME ConsentInv, ExecuteCall PROVE ConsentInv'
<1>1. world' = world /\ tip' = tip /\ pool' = pool /\ mined' = mined
  BY DEF ExecuteCall, chainVars
<1>2. \A s \in Signer : Agree(db[s], db[s])
  BY DEF ConsentInv, TablesOK, Agree
<1>3. DOMAIN db' = Signer /\ \A s \in Signer : Agree(db[s], db'[s])
  <2>1. CASE db' = db
    BY <1>2, <2>1 DEF ConsentInv, TablesOK
  <2>2. ASSUME NEW told, NEW event,
               db' = [s \in Signer |-> IF s \in told THEN WriteCompletedDepositEvent(db[s], event)
                                       ELSE db[s]]
        PROVE  DOMAIN db' = Signer /\ \A s \in Signer : Agree(db[s], db'[s])
    <3>1. \A s \in Signer : Agree(db[s], WriteCompletedDepositEvent(db[s], event))
      BY <1>2, OtherWrites
    <3> QED
      BY <1>2, <2>2, <3>1
  <2>3. \/ db' = db
        \/ \E told, event :
              db' = [s \in Signer |-> IF s \in told THEN WriteCompletedDepositEvent(db[s], event)
                                      ELSE db[s]]
    BY Zenon DEF ExecuteCall
  <2> QED
    BY <2>1, <2>2, <2>3, Zenon
<1>4. TablesOK' /\ SameTables
  BY <1>3, Zenon DEF TablesOK, SameTables, Agree
<1>5. VotesOK' /\ DecisionsOK'
  BY <1>1, <1>4, SameTablesKeep DEF ConsentInv
<1>6. PlacesOK' /\ SweepsHaveConsent'
  BY <1>1, <1>4, SameSweeps, ConsentIsKept DEF ConsentInv, PlacesOK, SameTables
<1> QED
  BY <1>4, <1>5, <1>6, Zenon DEF ConsentInv

\* Mempools become alike.
LEMMA PropagateConsent == ASSUME ConsentInv, Propagate PROVE ConsentInv'
<1>1. world' = world /\ tip' = tip /\ db' = db /\ mined' = mined
  BY DEF Propagate
<1>2. PICK best \in Signer : pool' = [s \in Signer |-> pool[best]]
  BY DEF Propagate
<1>3. \A u \in AllSweeps' : u \in AllSweeps
  BY <1>1, <1>2, WhereSweepsAre
<1>4. TablesOK' /\ SameTables
  BY <1>1 DEF ConsentInv, TablesOK, SameTables
<1>5. VotesOK' /\ DecisionsOK'
  BY <1>1, <1>4, SameTablesKeep DEF ConsentInv
<1>6. PlacesOK'
  BY <1>1, <1>2 DEF ConsentInv, PlacesOK
<1>7. SweepsHaveConsent'
  BY <1>1, <1>3, ConsentIsKept DEF ConsentInv
<1> QED
  BY <1>4, <1>5, <1>6, <1>7 DEF ConsentInv

\* The other steps leave databases, mempools and blocks alone.
LEMMA OtherStepsConsent ==
    ASSUME ConsentInv, UNCHANGED <<world, tip, mined, pool, db>>
    PROVE  ConsentInv'
<1>1. TablesOK' /\ SameTables /\ PlacesOK'
  BY DEF ConsentInv, TablesOK, SameTables, PlacesOK
<1>2. VotesOK' /\ DecisionsOK'
  BY <1>1, SameTablesKeep DEF ConsentInv
<1>3. SweepsHaveConsent'
  BY <1>1, SameSweeps, ConsentIsKept DEF ConsentInv, SameTables
<1> QED
  BY <1>1, <1>2, <1>3 DEF ConsentInv

\* The invariant is inductive.
LEMMA ConsentStep == ASSUME ConsentInv, [DepositsNext]_depositVars PROVE ConsentInv'
<1>1. CASE \E b \in Block : NewBlock(b)
  BY <1>1, NewBlockConsent
<1>2. CASE Propagate
  BY <1>2, PropagateConsent
<1>3. CASE \E s \in Signer : HandleNewRequests(s)
  BY <1>3, HandleNewRequestsConsent
<1>4. CASE PreSign
  BY <1>4, PreSignConsent
<1>5. CASE SignAndBroadcast
  BY <1>5, SignAndBroadcastConsent
<1>6. CASE ExecuteCall
  BY <1>6, ExecuteCallConsent
<1>7. CASE ConstructPackage \/ TimeOut \/ RespondToDeposit \/ EndTenure \/ Finished
           \/ UNCHANGED depositVars
  <2>1. UNCHANGED <<world, tip, mined, pool, db>>
    BY <1>7, Zenon DEF ConstructPackage, TimeOut, RespondToDeposit, EndTenure, Finished,
                       chainVars, depositVars
  <2> QED
    BY <2>1, OtherStepsConsent
<1> QED
  BY <1>1, <1>2, <1>3, <1>4, <1>5, <1>6, <1>7, Zenon DEF DepositsNext

\* Every sweep, broadcast or confirmed, has a quorum of signers that voted
\* for each of its deposits by their own blocklists, whatever messages are
\* lost, blocks abandoned and tenures cut short (request_decider.rs,
\* validation.rs, transaction_coordinator.rs).
THEOREM SweepsNeedConsent == DepositsSpec => []SweepsHaveConsent
<1>1. ConsentInv /\ [DepositsNext]_depositVars => ConsentInv'
  BY ConsentStep
<1>2. ConsentInv => SweepsHaveConsent
  BY DEF ConsentInv
<1> QED
  BY ConsentInit, <1>1, <1>2, PTL DEF DepositsSpec
=============================================================================
