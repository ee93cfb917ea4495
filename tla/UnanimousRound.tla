--------------------------- MODULE UnanimousRound ---------------------------
(***************************************************************************)
(* What the signing round that verifies a new aggregate key promises: a    *)
(* signer counts the round as done only if every signer has joined it.     *)
(* DkgVerification implements this specification, and KeyRotation takes    *)
(* the round in these steps.                                               *)
(***************************************************************************)
CONSTANT Signers

VARIABLES
    joined,   \* the signers that take part in the round
    done      \* the signers that have recorded its result

Init ==
    /\ joined = {}
    /\ done = {}

Join(s) ==
    /\ s \notin joined
    /\ joined' = joined \cup {s}
    /\ UNCHANGED done

Finish(s) ==
    /\ joined = Signers
    /\ done' = done \cup {s}
    /\ UNCHANGED joined

Next == \E s \in Signers : Join(s) \/ Finish(s)

Spec == Init /\ [][Next]_<<joined, done>>
=============================================================================
