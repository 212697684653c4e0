------------------------------ MODULE MCClient ------------------------------
EXTENDS Client, TLC
CONSTANTS c1, c2, c3, kA, kB, i1, i2

\* c1 and c2 make one logical call, through one client or through two.
MCKeyOf == c1 :> kA @@ c2 :> kA @@ c3 :> kB
MCAssignments == {c1 :> i1 @@ c2 :> i @@ c3 :> i1 : i \in {i1, i2}}

\* The other call is attempted once, and takes its slots without being dispatched.
Bound == call'[kB].exchange = 1 /\ ~call'[kB].authorized
=============================================================================
