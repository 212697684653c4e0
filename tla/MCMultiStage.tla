---------------------------- MODULE MCMultiStage ----------------------------
\* An instance of MultiStage: three angles, so that a split is possible.
EXTENDS MultiStage

Says(f, s) == [first |-> f, second |-> s, failed |-> FALSE]
MCPenalties == {Says(0, 8), Says(8, 0), Says(8, 9), Says(9, 8)}
MCChecks == {[yes |-> y, partial |-> 1, main |-> m, failed |-> FALSE] : y \in {0, 2}, m \in BOOLEAN}
=============================================================================
