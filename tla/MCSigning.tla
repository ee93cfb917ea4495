----------------------------- MODULE MCSigning -----------------------------
(***************************************************************************)
(* A behaviour is one of the rounds that sign the inputs of a package      *)
(* (SigningRound) or the computation of one output (MCAlgorithms).         *)
(*                                                                         *)
(* Rounds: three signers of which two must agree, two sighashes that each  *)
(* of them signs or refuses, one restart of the coordinator and two        *)
(* repeated nonce requests.                                                *)
(***************************************************************************)
EXTENDS SigningRound, MCAlgorithms

CONSTANT Parts

VARIABLE part

ASSUME RoundConstants == SigningConstants

MCInit ==
    /\ part \in Parts
    /\ Init
    /\ \/ part = "rounds" /\ kind = "none" /\ input = << >> /\ output = NoOutput
       \/ /\ part = "algorithms" /\ AlgInit
          /\ rows = [s \in Signers |-> [i \in Messages |-> "refuse"]]

Rounds(A) == part = "rounds" /\ A /\ UNCHANGED <<part, algvars>>

MCNext ==
    \/ Rounds(Next)
    \/ part = "algorithms" /\ AlgNext /\ UNCHANGED <<part, vars>>

mcvars == <<part, vars, algvars>>

\* The fairness of SigningRound.
MCSpec ==
    /\ MCInit /\ [][MCNext]_mcvars
    /\ \A s \in Signers : WF_mcvars(Rounds(SignerLoop(s)))
    /\ WF_mcvars(Rounds(CoordinatorLoop))
=============================================================================
