------------------------------- MODULE MCDkg --------------------------------
(***************************************************************************)
(* The two rounds that lead to a new key.  A behaviour is one of a round   *)
(* of distributed key generation (DkgRound), with two signers, or of the   *)
(* signing round that verifies its result (DkgVerification), with three.   *)
(***************************************************************************)
EXTENDS DkgRounds

CONSTANT Parts

VARIABLE part

MCInit == part \in Parts /\ Init /\ DkgInit

MCNext ==
    \/ part = "verification" /\ Next /\ UNCHANGED <<part, dkgvars>>
    \/ part = "dkg" /\ DkgNext /\ UNCHANGED <<part, vars>>

mcvars == <<part, vars, dkgvars>>

\* The fairness of both rounds.  Only one of them is in progress.
Coordinating ==
    \/ part = "verification" /\ CoordinatorLoop /\ UNCHANGED <<part, dkgvars>>
    \/ part = "dkg" /\ DkgCoordinatorLoop /\ UNCHANGED <<part, vars>>

Signing(s) ==
    \/ part = "verification" /\ SignerLoop(s) /\ UNCHANGED <<part, dkgvars>>
    \/ part = "dkg" /\ s \in DkgSigners /\ DkgSignerLoop(s) /\ UNCHANGED <<part, vars>>

MCSpec ==
    /\ MCInit /\ [][MCNext]_mcvars
    /\ WF_mcvars(Coordinating)
    /\ \A s \in Signers : WF_mcvars(Signing(s))

\* Both rounds come to their end in whatever order the messages arrive.  In the
\* verification every signer verifies the shares if no signer's tip moves, also
\* when the coordinator gives up after it has requested the signature shares:
\* the signers follow the round by themselves.  DKG ends with a key unless the
\* coordinator gives up, a process restarts, or public shares reach a signer
\* before DkgBegin.
RoundsComplete == <>(IF part = "verification" THEN Completed ELSE DkgCompleted)
=============================================================================
