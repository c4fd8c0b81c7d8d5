---------------------------- MODULE MCSocialOAuth ----------------------------
(* Two sessions of one tenant, and keys that a restart may replace. *)
EXTENDS SocialOAuth, TLC

CONSTANTS s1, s2, t1, k1, k2

MCTenantOf == [s \in Sessions |-> t1]

MCKeyrings == {[keys |-> {k1}, active |-> k1], [keys |-> {k2}, active |-> k2]}

MCBootstrapped == {{<<t1, "x">>}}

MCSymmetry == Permutations(Sessions) \cup Permutations(Requests) \cup Permutations({k1, k2})
==============================================================================
