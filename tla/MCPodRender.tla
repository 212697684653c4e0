---------------------------- MODULE MCPodRender ----------------------------
\* Instances of PodRender: the first two requests are identical.
EXTENDS PodRender

CONSTANTS r1, r2, r3

MCKeyOf == [r \in Requests |-> IF r = r3 THEN "other" ELSE "same"]
MCOneKey == [r \in Requests |-> "same"]
=============================================================================
