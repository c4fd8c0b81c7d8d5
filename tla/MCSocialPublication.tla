-------------------------- MODULE MCSocialPublication --------------------------
(* Model-checking parameters for SocialPublication. *)
EXTENDS SocialPublication, TLC

Symmetry == Permutations(Procs) \cup Permutations(Keys) \cup Permutations(Accounts)
================================================================================
