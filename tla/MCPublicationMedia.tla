------------------------- MODULE MCPublicationMedia -------------------------
(* One run, two images, and a second alt text of the first image. *)
EXTENDS PublicationMedia, TLC

CONSTANTS b1, b2, b3, r1, i1, i2, k1, k2

MCRunOf == [b \in Bindings |-> r1]

MCImageOf == (b1 :> i1) @@ (b2 :> i1) @@ (b3 :> i2)

\* The active key is rotated with the old one kept; seen from a process that
\* still has the first ring, the new key is not there.
MCRings == {[keys |-> {k1}, active |-> k1], [keys |-> {k1, k2}, active |-> k2]}

\* b1 and b2 show one image in one run: nothing tells them apart.
MCSymmetry == Permutations(Keys) \cup Permutations({b1, b2})
=============================================================================
