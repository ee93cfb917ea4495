----------------------------- MODULE DkgRounds ------------------------------
(***************************************************************************)
(* The two rounds that lead to a new key: distributed key generation       *)
(* (DkgRound), and the signing round that tries its result                 *)
(* (DkgVerification).  Their messages do not meet, since relay_message     *)
(* hands each to the state machine of its own round.                       *)
(***************************************************************************)
EXTENDS DkgRound, DkgVerification

\* No message of the verification meets a missing state machine, in whatever
\* order the messages arrive, and without restarts no signer's DKG ends on its
\* own private shares, when relay_message ignores the DkgEnd that results.
NoMessageLost == NothingRefused /\ NoEndIgnored
=============================================================================
