----------------------------- MODULE MCIdentity -----------------------------
EXTENDS Identity

CONSTANTS ann, bob, group, d1, r1

MCAsker == [r \in {r1} |-> ann]

=============================================================================
