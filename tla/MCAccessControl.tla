---------------------------- MODULE MCAccessControl ----------------------------
(* Two tabs; a key that a restart may remove, one that stays and one that is  *)
(* never valid.                                                               *)
EXTENDS AccessControl, TLC

CONSTANTS k1, k2

MCConfigurations ==
    {[k \in Keys |-> IF k = k1 THEN "admin" ELSE IF k = k2 THEN "viewer" ELSE "none"],
     [k \in Keys |-> IF k = k2 THEN "viewer" ELSE "none"]}

MCWorkloads == {{"bearer"} \X Keys,
                {"login", "resume", "logout", "command"} \X {k1}}

MCSymmetry == Permutations(Clients)
================================================================================
