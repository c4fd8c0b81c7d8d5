---------------------------- MODULE MCAuditLedger ----------------------------
(* Two events of one tenant and one of another. *)
EXTENDS AuditLedger

CONSTANTS t1, t2, e1, e2, e3, a1

MCTenantOf == [e \in Events |-> IF e = e3 THEN t2 ELSE t1]

MCLegacies == {{}, {e1}}

MCWorkloads == {[events |-> Events, auditors |-> {a1}, corruptions |-> 1]}
==============================================================================
