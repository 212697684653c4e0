------------------------------ MODULE Timeline ------------------------------
(***************************************************************************)
(* The judge's tournament as a pure function of its evidence               *)
(* (judge_service/timeline.py).                                            *)
(*                                                                         *)
(* Hotkeys are 1..N in the order of submissions.json and 0 is the base     *)
(* leader.  The evidence is a record with fields                           *)
(*   matrix      what is known of each match: "reached" when the margin is *)
(*               at least win_margin, "below" when it is not, "none" when  *)
(*               the match has no entry;                                   *)
(*   validation, audit    the verdict on each hotkey, "none" while absent. *)
(* Only those three classes of a margin are ever told apart by the code.   *)
(***************************************************************************)
EXTENDS Naturals

CONSTANT N      \* number of submissions of the round

ASSUME NAssumption == N \in Nat

Leader == 0
Hotkeys == 1 .. N
Players == 0 .. N

\* Every match the judge may ask for: the earlier player defends.
Pairs == {p \in Players \X Hotkeys : p[1] < p[2]}

Margins == {"none", "below", "reached"}
Verdicts == {"none", "passed", "failed"}

Evidence == [matrix : [Pairs -> Margins],
             validation : [Hotkeys -> Verdicts],
             audit : [Hotkeys -> Verdicts]]

\* The same of any record that has the three fields.
IsEvidence(e) == /\ e.matrix \in [Pairs -> Margins]
                 /\ e.validation \in [Hotkeys -> Verdicts]
                 /\ e.audit \in [Hotkeys -> Verdicts]

NoEvidence == [matrix |-> [p \in Pairs |-> "none"],
               validation |-> [i \in Hotkeys |-> "none"],
               audit |-> [i \in Hotkeys |-> "none"]]

-----------------------------------------------------------------------------
(* One pass of Timeline.derive.                                            *)

\* candidate_rejection_reason: either terminal failure is enough.
Rejected(e, i) == e.validation[i] = "failed" \/ e.audit[i] = "failed"

Qualified(e, i) == e.matrix[<<Leader, i>>] = "reached"

\* In the running for the chain: neither omitted nor rejected.
Candidate(e, i) == Qualified(e, i) /\ ~Rejected(e, i)

Beats(e, d, i) == Candidate(e, i) /\ e.matrix[<<d, i>>] = "reached"

\* Defender(e)[i] is the chain's defender after the first i hotkeys.
Defender(e) ==
  LET holder[i \in Players] ==
        IF i = 0 THEN Leader
        ELSE IF Beats(e, holder[i - 1], i) THEN i ELSE holder[i - 1]
  IN holder

\* The cell that decides the entry of hotkey i.
DuelMargin(e, i) == e.matrix[<<Defender(e)[i - 1], i>>]

Pending(e, i) == Candidate(e, i) /\ DuelMargin(e, i) = "none"
Won(e, i) == Candidate(e, i) /\ DuelMargin(e, i) = "reached"

\* Verified needs a verified defender, hence the same of every earlier win.
Passed(e, i) == e.validation[i] = "passed" /\ e.audit[i] = "passed"
Verified(e, i) == \A j \in 1 .. i : Won(e, j) => Passed(e, j)

-----------------------------------------------------------------------------
(* What the judge reads off a timeline.                                    *)

Winner(e) == Defender(e)[N]

IsFinalized(e) == \A i \in Hotkeys : ~Pending(e, i) /\ (Won(e, i) => Verified(e, i))

\* next_match: the first pending entry against its defender.
IsNextMatch(e, p) ==
  \E i \in Hotkeys : /\ Pending(e, i)
                     /\ \A j \in 1 .. i - 1 : ~Pending(e, j)
                     /\ p = <<Defender(e)[i - 1], i>>

\* find_exploratory_duel: the first unplayed pair of non-rejected entries,
\* by its left and then its right player.
Unplayed(e) == {p \in Pairs : /\ p[1] # Leader
                              /\ Candidate(e, p[1]) /\ Candidate(e, p[2])
                              /\ e.matrix[p] = "none"}

IsExploratoryDuel(e, p) ==
  /\ p \in Unplayed(e)
  /\ \A q \in Unplayed(e) : p[1] < q[1] \/ (p[1] = q[1] /\ p[2] <= q[2])

-----------------------------------------------------------------------------
(* How evidence grows: a match or a verdict is recorded once.              *)

Grows(old, new) == \A x \in DOMAIN old : old[x] # "none" => new[x] = old[x]

Extends(e, f) == /\ Grows(e.matrix, f.matrix)
                 /\ Grows(e.validation, f.validation)
                 /\ Grows(e.audit, f.audit)

\* Nobody is left out: each hotkey has met the leader or is rejected.
Settled(e) == \A i \in Hotkeys : e.matrix[<<Leader, i>>] # "none" \/ Rejected(e, i)

=============================================================================
