---------------------------- MODULE MCCompetition ----------------------------
(* Two miners who may submit the first leader's own source or another one.  *)
EXTENDS Competition

CONSTANTS m1, m2, s0, s1
TwoMiners == {m1, m2}
TwoSources == {s0, s1}
NextDay == {1}

\* Only the first miner submits the leader's own source.
Bound == \A r \in reveals' : r.source = s0 => r.miner = m1

=============================================================================
