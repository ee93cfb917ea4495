--------------------------- MODULE SequenceFolds ----------------------------
(***************************************************************************)
(* The operators of SequencesExt that the packages of sweeps are built     *)
(* with.  SequencesExt also brings Bags, in whose scope the prover takes   *)
(* minutes for what it does in seconds, so that what DepositSweeps uses is *)
(* here, on top of the library's folds.                                    *)
(***************************************************************************)
EXTENDS Integers, Sequences, FiniteSets, FiniteSetsExt, TLC

\* op(... op(op(base, seq[1]), seq[2]) ..., seq[n]).
FoldLeft(op(_, _), base, seq) ==
    MapThenFoldSet(LAMBDA item, folded : op(folded, item), base, LAMBDA i : seq[i], Max, DOMAIN seq)

\* The sequences of a sequence, one after the other.
FlattenSeq(seqs) == FoldLeft(LAMBDA flat, seq : flat \o seq, << >>, seqs)

\* The last element.
Last(seq) == seq[Len(seq)]

\* The elements of a set in some order, and in the order Less.
SetToSeq(S) == CHOOSE f \in [1..Cardinality(S) -> S] : Range(f) = S
SetToSortSeq(S, Less(_, _)) == SortSeq(SetToSeq(S), Less)
=============================================================================
