------------------------------ MODULE MCTenure ------------------------------
(***************************************************************************)
(* A behaviour is one of the tenures on Stacks (Tenure) or one of the      *)
(* clients of a signer (FallbackClient).                                   *)
(*                                                                         *)
(* Tenures: two signers that both have to sign, two contracts, a deposit   *)
(* and a withdrawal request to answer.  Clients: three endpoints and two   *)
(* calls at a time.                                                        *)
(***************************************************************************)
EXTENDS Tenure, FallbackClient

CONSTANTS s1, s2, t1, t2, Parts

MCContract == <<"registry", "token">>
MCSwept == <<"deposit", "withdrawal">>

VARIABLE part

tvars == <<node, chain, signer, coordinator, inbox, faults, restarted, finalized>>

\* The two calls are alike, so that their order does not matter.
Place(op) == CHOOSE i \in 1..6 :
    <<"plain", "read", "withdrawal", "fees", "source", "deposits">>[i] = op

MCInit ==
    /\ part \in Parts
    /\ Init /\ ClientsInit
    /\ part # "tenures" => chain.leader = <<s1>> /\ Deployed(node.done)
    /\ part # "clients" => /\ service = "bitcoin"
                           /\ endpoint = [c \in Client |-> "up"]
    /\ Place(call[t1].op) <= Place(call[t2].op)

MCNext ==
    \/ part = "tenures" /\ Next /\ UNCHANGED <<part, clientVars>>
    \/ part = "clients" /\ ClientsNext /\ UNCHANGED <<part, tvars>>

mcvars == <<part, tvars, clientVars>>

\* The fairness of Tenure and of FallbackClient.
MCSpec ==
    /\ MCInit /\ [][MCNext]_mcvars
    /\ WF_mcvars(part = "tenures" /\ Work /\ UNCHANGED <<part, clientVars>>)
    /\ WF_mcvars(part = "tenures" /\ Mine /\ UNCHANGED <<part, clientVars>>)
    /\ \A t \in {t1, t2} : WF_mcvars(part = "clients" /\ Step(t) /\ UNCHANGED <<part, tvars>>)

\* The contracts are deployed and every swept request is answered in the end:
\* what a tenure of the coordinator fails to do, a later one finds undone and
\* does again.  When one endpoint is left, the calls of ApiFallbackClient find
\* it and stay with it.
WorkGetsDone ==
    /\ part = "tenures" => AllAnswered
    /\ part = "clients" => SettlesOnHealthy
=============================================================================
