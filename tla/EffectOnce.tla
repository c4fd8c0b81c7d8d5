------------------------------ MODULE EffectOnce ------------------------------
(***************************************************************************)
(* What an effect authority promises: an external effect is reserved once, *)
(* sent to its provider at most once, and reaches one outcome.  Authority  *)
(* that was not used can be revoked; an effect whose outcome is unknown    *)
(* can be reconciled, if it was sent.                                      *)
(***************************************************************************)
EXTENDS Naturals

CONSTANT Effects

VARIABLES
    outcome,  \* effect -> status of its reservation, "none" before it
    calls     \* effect -> times it was sent to the provider

Init ==
    /\ outcome = [e \in Effects |-> "none"]
    /\ calls = [e \in Effects |-> 0]

Reserve(e) ==
    /\ outcome[e] = "none"
    /\ calls[e] = 0
    /\ outcome' = [outcome EXCEPT ![e] = "pending"]
    /\ UNCHANGED calls

\* The thread that reserved does not look at its reservation again, so it may
\* have been revoked since.
Send(e) ==
    /\ outcome[e] \in {"pending", "revoked"}
    /\ calls[e] = 0
    /\ calls' = [calls EXCEPT ![e] = 1]
    /\ UNCHANGED outcome

Settle(e) ==
    /\ outcome[e] = "pending"
    /\ \E o \in {"succeeded", "failed", "unknown"} :
        /\ o = "succeeded" => calls[e] = 1
        /\ outcome' = [outcome EXCEPT ![e] = o]
    /\ UNCHANGED calls

Revoke(S) ==
    /\ \A e \in S : outcome[e] = "pending"
    /\ outcome' = [e \in Effects |-> IF e \in S THEN "revoked" ELSE outcome[e]]
    /\ UNCHANGED calls

Reconcile(e) ==
    /\ outcome[e] = "unknown"
    /\ calls[e] = 1
    /\ outcome' = [outcome EXCEPT ![e] = "succeeded"]
    /\ UNCHANGED calls

Next ==
    \/ \E e \in Effects : Reserve(e) \/ Send(e) \/ Settle(e) \/ Reconcile(e)
    \/ \E S \in SUBSET Effects : Revoke(S)

Spec == Init /\ [][Next]_<<outcome, calls>>
================================================================================
