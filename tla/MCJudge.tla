------------------------------- MODULE MCJudge ------------------------------
(***************************************************************************)
(* TLC instance of Judge: four submissions, the last of which delivered    *)
(* nothing usable.  It is audited before the runner starts, and so is the  *)
(* third, whose audit chooses between two halves of one bound: either it   *)
(* fails, and two playing submissions are left with every verdict, fault   *)
(* and hold; or it passes, and three submissions play (which it takes for  *)
(* an exploratory duel) while nothing is rejected and nothing fails.       *)
(***************************************************************************)
EXTENDS Judge

Third == repo.audit[3]

\* Only the auditor acts before the third and the fourth audit, and on those.
AuditFirst ==
  Third = "none" \/ repo.audit[4] = "none" =>
    /\ repo' = repo \/ repo'.audit[4] # "none" \/ (Third = "none" /\ repo'.audit[3] # "none")
    /\ pc' = "idle" /\ faults' = 0

\* Three that play, and nothing goes wrong.
Crowd == Third = "passed" => /\ faults' = 0 /\ holds' = 0
                             /\ \A i \in Hotkeys : "failed" \notin {repo'.audit[i], repo'.validation[i]}

\* Two that play: one thing goes wrong, and not with the one who has no
\* generations.
Disturbed == repo'.audit[4] # "failed" /\ faults' + holds' <= 1

Bound == AuditFirst /\ Crowd /\ Disturbed

=============================================================================
