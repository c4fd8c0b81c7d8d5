----------------------------- MODULE MCModelEffect -----------------------------
(* Instances of ModelEffect for TLC. *)
EXTENDS ModelEffect

CONSTANTS r1

\* All threads are of one replica.
MCHome == [p \in Procs |-> r1]
================================================================================
