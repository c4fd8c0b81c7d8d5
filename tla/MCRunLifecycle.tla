---------------------------- MODULE MCRunLifecycle ----------------------------
(* Instances of RunLifecycle for TLC. *)
EXTENDS RunLifecycle

CONSTANTS r1, r2, w1, w2, c1, c2

\* One replica, of a worker thread and two request threads.
MCSingle == [t \in Threads |-> r1]

\* Two replicas, of at most one worker and one request thread each.
MCPair == [t \in Threads |-> IF t \in {w1, c1} THEN r1 ELSE r2]

MCLoad(workers, operations, drops, bound) ==
    [workers |-> workers, operations |-> operations, drops |-> drops, faults |-> bound]

\* One process: a worker and every command but the rejection.
MCProcess == {MCLoad({w1}, {"create", "attach", "approve", "revoke"}, FALSE, 1)}

\* Two processes: the workers of one queue, or every command while the sessions
\* that hold the locks may end.
MCReplicas == {MCLoad({w1, w2}, {"create"}, FALSE, 2),
               MCLoad({}, {"create", "attach", "approve", "reject", "revoke"}, TRUE, 1)}

\* Two processes and their attachments.
MCAttachments == {MCLoad({}, {"create", "attach"}, FALSE, 0)}

\* One process: its worker and the approvals.
MCApprovals == {MCLoad({w1}, {"create", "approve"}, FALSE, 0)}

\* Workers whose database session may end.
MCSessions == {MCLoad({w1, w2}, {"create"}, TRUE, 1)}
===============================================================================
