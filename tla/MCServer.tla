------------------------------ MODULE MCServer ------------------------------
EXTENDS Server

CONSTANTS c1, c2, c3, c4, u1, u2, u3, u4

\* One apart, in a range of one: neighbours may play each other.
Ratings == Restrict((u1 :> 0) @@ (u2 :> 1) @@ (u3 :> 2) @@ (u4 :> 3), Users)

Symmetry == Permutations(Connections)
=============================================================================
