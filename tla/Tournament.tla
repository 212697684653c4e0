----------------------------- MODULE Tournament -----------------------------
(***************************************************************************)
(* What a round's tournament promises to a reader of the repository:       *)
(* matches and verdicts are recorded once and stand, and a winner is       *)
(* declared once, from evidence that settles every submission, and stands  *)
(* whatever evidence comes later (judge-service/README.md, "Round flow").  *)
(* The judge service implements it: see Judge.                             *)
(***************************************************************************)
EXTENDS Timeline

VARIABLES evidence, winner

vars == <<evidence, winner>>

\* No winner yet.  Winners are players, 0 the base leader.
Undecided == N + 1

Init == evidence = NoEvidence /\ winner = Undecided

Conclusive(e) == Settled(e) /\ IsFinalized(e)

Next == /\ evidence' \in Evidence
        /\ Extends(evidence, evidence')
        /\ \/ winner' = winner
           \/ /\ winner = Undecided
              /\ Conclusive(evidence')
              /\ winner' = Winner(evidence')

Spec == Init /\ [][Next]_vars

-----------------------------------------------------------------------------

TypeOK == evidence \in Evidence /\ winner \in 0 .. N + 1

\* A declared winner is the one the evidence of any later moment gives: a
\* late audit, validation or exploratory match never contradicts it, so the
\* judge may stop at the first finalized timeline (round_runner.py:173-175).
WinnerStands == winner # Undecided => Conclusive(evidence) /\ winner = Winner(evidence)

=============================================================================
