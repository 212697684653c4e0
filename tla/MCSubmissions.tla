---------------------------- MODULE MCSubmissions ---------------------------
EXTENDS Submissions, TLC
CONSTANTS a, b, i1, i2

Symmetry == Permutations({a, b}) \cup Permutations({i1, i2})
=============================================================================
