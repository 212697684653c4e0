----------------------------- MODULE MCFencing -----------------------------
EXTENDS Fencing

\* Two copies of the first connection and one Pod of the next.
MCPods == 1 .. 3
MCStartOf == [p \in MCPods |-> IF p <= 2 THEN 1 ELSE 2]

\* The miner is given the first connection's Pods, and uses one of them.
Bound ==
  /\ 3 \notin grantees' /\ busy' \subseteq {1}
  /\ retire'["revivor"].at # "none" => retire'["revivor"].pod # 2
=============================================================================
