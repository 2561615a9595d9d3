----------------------------- MODULE MCAssistant -----------------------------
EXTENDS Assistant, TLC
CONSTANTS p1, p2, c1, c2, s1, s2, t1, t2, a1, a2, i1, i2

Symmetry ==
    Permutations(Turns) \cup Permutations(Calls) \cup Permutations(Args) \cup Permutations(Actions)
        \cup Permutations(Sessions) \cup Permutations(Tools)
=============================================================================
