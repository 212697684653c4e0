---------------------------- MODULE DuelVerdict ----------------------------
(***************************************************************************)
(* What the stages of a duel (judges/multi_stage.py) make of the model's     *)
(* answers.  Two submissions, A and B, are shown in both orders; an answer   *)
(* [first, second, failed] penalises the one shown first and the one shown   *)
(* second.  Means of two answers are kept doubled, so that they are integers.*)
(***************************************************************************)
EXTENDS Integers, FiniteSets, FiniteSetsExt

\* The answer that stands for one that could not be obtained.
NeutralPenalty == [first |-> 5, second |-> 5, failed |-> TRUE]

PenaltyA(ab, ba) == ab.first + ba.second
PenaltyB(ab, ba) == ab.second + ba.first
Diff(ab, ba) == PenaltyA(ab, ba) - PenaltyB(ab, ba)

Better(diff) == IF diff < 0 THEN "A" ELSE IF diff > 0 THEN "B" ELSE "draw"

\* The two orders name different submissions.
Opposed(ab, ba) ==
    \/ ab.first > ab.second /\ ba.second < ba.first
    \/ ab.first < ab.second /\ ba.second > ba.first

-----------------------------------------------------------------------------
(***************************************************************************)
(* Stage 1: angles, of equal weight, with the answers ab[x] and ba[x].       *)
(***************************************************************************)
\* An angle counts though one of its answers is missing (mutant).
ConsistentAny(angles, ab, ba) == {x \in angles : ~Opposed(ab[x], ba[x])}

Consistent(angles, ab, ba) ==
    {x \in angles : ~ab[x].failed /\ ~ba[x].failed /\ ~Opposed(ab[x], ba[x])}

\* At least three angles take sides, and the majority's margin is below 0.65.
Split(angles, ab, ba) ==
    LET forA == Cardinality({x \in angles : Diff(ab[x], ba[x]) < 0})
        forB == Cardinality({x \in angles : Diff(ab[x], ba[x]) > 0})
    IN forA + forB >= 3 /\ 20 * Max({forA - forB, forB - forA}) < 13 * (forA + forB)

PromptMatch(angles, ab, ba) ==
    LET clear == Consistent(angles, ab, ba)
        n == Cardinality(clear)
        a == SumFunction([x \in clear |-> PenaltyA(ab[x], ba[x])])
        b == SumFunction([x \in clear |-> PenaltyB(ab[x], ba[x])])
        gap == Max({a - b, b - a})
        bothBad == a + b >= 32 * n /\ gap <= 3 * n      \* mean 8.0, apart 1.5
        close == 5 * gap <= 7 * n                       \* apart 0.7
    IN IF n = 0 \/ bothBad \/ close \/ Split(clear, ab, ba) THEN "draw" ELSE Better(a - b)

-----------------------------------------------------------------------------
(***************************************************************************)
(* Stage 2: best view and artifacts vote by penalties, the checklist by      *)
(* scores; a sub-judge that has nothing to say has difference 0.             *)
(***************************************************************************)
PenaltyVote(diff) == IF diff \in -1..1 THEN "none" ELSE Better(diff)
ChecklistVote(gap) == IF gap \in -1..1 THEN "none" ELSE Better(-gap)

\* yes counts 2, partial 1, the right main object 3.
Score(check) == 2 * check.yes + check.partial + IF check.main THEN 3 ELSE 0

\* A strong vote counts for one side only (mutant).
StrongForA(bestDiff, gap) ==
    {s \in {"A"} : Better(bestDiff) = s /\ bestDiff \notin -3..3}

StrongVotes(bestDiff, gap) ==
    {s \in {"A", "B"} : \/ Better(bestDiff) = s /\ bestDiff \notin -3..3
                        \/ Better(-gap) = s /\ gap \notin -5..5}

\* What one very clear sub-judge decides, unless another contradicts it.
Strong(bestDiff, gap) ==
    LET sides == StrongVotes(bestDiff, gap)
    IN IF Cardinality(sides) = 1 THEN CHOOSE s \in sides : TRUE ELSE "draw"

\* Two of three.
Consensus(best, artifact, check) ==
    IF best # "none" /\ best \in {artifact, check} THEN best
    ELSE IF artifact # "none" /\ artifact = check THEN artifact ELSE "draw"

SubJudges(bestDiff, artifactDiff, gap) ==
    IF Strong(bestDiff, gap) # "draw" THEN Strong(bestDiff, gap)
    ELSE Consensus(PenaltyVote(bestDiff), PenaltyVote(artifactDiff), ChecklistVote(gap))

-----------------------------------------------------------------------------
\* Stage 3: the gray views are apart by 2.0 and the orders agree.
GrayRescue(ab, ba) ==
    IF Opposed(ab, ba) \/ Diff(ab, ba) \in -3..3 THEN "draw" ELSE Better(Diff(ab, ba))

\* Stage 4: three of the side views are garbage.
Garbage(verdicts) == Cardinality({x \in DOMAIN verdicts : verdicts[x] = "garbage"}) >= 3

\* Only one side is garbage: it does not win, and a draw goes to the other.
StepDown(primary, badA, badB) ==
    CASE badA /\ ~badB /\ primary # "B" -> IF primary = "A" THEN "draw" ELSE "B"
      [] badB /\ ~badA /\ primary # "A" -> IF primary = "B" THEN "draw" ELSE "A"
      [] OTHER -> primary

\* The other side.
Flip(choice) == CASE choice = "A" -> "B" [] choice = "B" -> "A" [] OTHER -> choice
=============================================================================
