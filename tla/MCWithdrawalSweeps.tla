------------------------- MODULE MCWithdrawalSweeps -------------------------
(***************************************************************************)
(* A behaviour is one of the withdrawals and their sweeps                  *)
(* (WithdrawalSweeps) or one of the signers' key (KeyRotation).            *)
(***************************************************************************)
EXTENDS WithdrawalSweeps, KeyRotation, TLC

CONSTANT Parts

\* Signers may miss proposals; no reorgs.
Lossy == [reorg |-> 0, lossy |-> TRUE, failures |-> 0, package |-> 2,
          height |-> 8, requests |-> 1, txs |-> 2]

\* Reorgs, and packages of two sweeps, that a signer may store by half.
Reorgs == [reorg |-> 2, lossy |-> FALSE, failures |-> 1, package |-> 2,
           height |-> 7, requests |-> 1, txs |-> 3]

\* Reorgs deep enough to undo a sweep that has replaced another.
Replaced == [reorg |-> 2, lossy |-> FALSE, failures |-> 1, package |-> 1,
             height |-> 9, requests |-> 1, txs |-> 2]

\* Reorgs that drop or renumber requests.
Renumbered == [reorg |-> 2, lossy |-> FALSE, failures |-> 1, package |-> 2,
               height |-> 6, requests |-> 2, txs |-> 2]

\* A package, and reorgs of one block.
Packaged == [reorg |-> 1, lossy |-> FALSE, failures |-> 0, package |-> 2,
             height |-> 8, requests |-> 1, txs |-> 3]

AllWorlds == {Lossy, Reorgs, Replaced, Renumbered}
PackageWorld == {Packaged}

SignerSymmetry == Permutations(Signers) \cup Permutations(KeySigners)

-----------------------------------------------------------------------------

VARIABLE part

ASSUME KeyConstants == KeyRotationConstants

MCInit ==
    /\ part \in Parts
    /\ Init
    /\ KeyInit
    /\ part = "keys" => world = CHOOSE w \in Worlds : TRUE
    /\ part = "sweeps" => registry = 0

MCNext ==
    \/ part = "sweeps" /\ Next /\ UNCHANGED <<part, keyvars>>
    \/ part = "keys" /\ KeyNext /\ UNCHANGED <<part, vars>>

MCSpec == MCInit /\ [][MCNext]_<<part, vars, keyvars>>
=============================================================================
