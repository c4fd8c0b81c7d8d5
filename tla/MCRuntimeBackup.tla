--------------------------- MODULE MCRuntimeBackup ---------------------------
(* The ledger by itself with every event, and with fewer while it is backed *)
(* up, restored, and watched for new social connections.                    *)
EXTENDS RuntimeBackup

CONSTANTS t1, t2, e1, e2, e3, a1

MCTenantOf == [e \in Events |-> IF e = e3 THEN t2 ELSE t1]

MCLegacies == {{}, {e1}}

MCWorkloads ==
    {[events |-> Events, auditors |-> {a1}, corruptions |-> 1, tools |-> {},
      backups |-> 0, links |-> 0, outages |-> 0, restores |-> FALSE],
     [events |-> {e2}, auditors |-> {}, corruptions |-> 1, tools |-> {Operator},
      backups |-> 1, links |-> 0, outages |-> 1, restores |-> TRUE],
     [events |-> {}, auditors |-> {}, corruptions |-> 0, tools |-> Tools,
      backups |-> 2, links |-> 3, outages |-> 1, restores |-> FALSE]}
==============================================================================
