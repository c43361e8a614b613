----------------------------- MODULE MCResearch -----------------------------
EXTENDS Research, TLC
CONSTANTS a1, a2, c1
TwoAgents == {a1, a2}
OneClient == {c1}
ResearchSymmetry == Permutations({a1, a2})
=============================================================================
