----------------------------- MODULE MultiStage -----------------------------
(***************************************************************************)
(* One duel of the judge (evaluate_duel): stages of calls to the model, each *)
(* stage decided when its calls are answered.  The calls of the first stage  *)
(* take a slot of the match's semaphore; the call that explains the duel     *)
(* runs beside all stages and is awaited at the end.                         *)
(***************************************************************************)
EXTENDS DuelVerdict, Sequences, SequencesExt

CONSTANTS
    Angles,         \* the front angles of stage 1
    SideViews,      \* the side views of stage 4
    Penalties,      \* answers of the model
    Checks,         \* results of verifying a checklist
    Cap             \* max_concurrent_vlm_calls

ASSUME MultiStageAssumption ==
    /\ IsFiniteSet(Angles) /\ Cap \in Nat \ {0}
    /\ (Angles \cup SideViews) \cap {"best", "artifact", "check", "gray"} = {}
    /\ Penalties \subseteq [first : Int, second : Int, failed : {FALSE}]
    /\ Checks \subseteq [yes : Nat, partial : Nat, main : BOOLEAN, failed : {FALSE}]

VARIABLES
    stage,      \* start, s1, s2, s3, s4, explain, done
    asked,      \* the calls of the stage
    waiting,    \* those that wait for the semaphore, in order
    flying,     \* calls in flight, those of an earlier stage included
    answer,     \* answers of the stage
    explained,  \* the explaining call is answered
    choice      \* the verdict so far

duelVars == <<stage, asked, waiting, flying, answer, explained, choice>>

Orders == {"ab", "ba"}
Pair(what) == {<<what, o>> : o \in Orders}
S1Calls == Angles \X Orders
S4Calls == SideViews \X {"a", "b"}
S3Calls == Pair("gray")
List == <<"check", "list">>
Verify == {<<"check", "a">>, <<"check", "b">>}
S2Calls == Pair("best") \cup Pair("artifact") \cup {List} \cup Verify
Calls == S1Calls \cup S2Calls \cup S3Calls \cup S4Calls

PenaltyAnswers == Penalties \cup {NeutralPenalty}
CheckFailed == [yes |-> 0, partial |-> 0, main |-> FALSE, failed |-> TRUE]

\* What the model may answer, the failure of every attempt included.
Possible(c) ==
    CASE c = List -> {"ok", "failed"}
      [] c \in Verify -> Checks \cup {CheckFailed}
      [] c \in S4Calls -> {"ok", "garbage"}
      [] OTHER -> PenaltyAnswers

DuelTypeOK ==
    /\ stage \in {"start", "s1", "s2", "s3", "s4", "explain", "done"}
    /\ asked \subseteq Calls /\ flying \subseteq Calls
    /\ waiting \in Seq(S1Calls)
    /\ DOMAIN answer \subseteq asked
    /\ \A c \in DOMAIN answer : answer[c] \in Possible(c)
    /\ explained \in BOOLEAN
    /\ choice \in {"none", "A", "B", "draw"}

DuelInit ==
    /\ stage = "start" /\ asked = {} /\ waiting = <<>> /\ flying = {}
    /\ answer = <<>> /\ explained = FALSE /\ choice = "none"

Ask(calls, orphans) == asked' = calls /\ flying' = orphans \cup calls /\ answer' = <<>>

\* A side without previews loses, or none does; else the duel is judged.
Missing ==
    /\ stage = "start"
    /\ \E c \in {"A", "B", "draw"} : choice' = c
    /\ stage' = "done"
    /\ UNCHANGED <<asked, waiting, flying, answer, explained>>

BeginDuel ==
    /\ stage = "start"
    /\ stage' = "s1" /\ asked' = S1Calls
    /\ \E all \in {SetToSeq(S1Calls)} :
          LET n == Min({Cap, Len(all)})
          IN flying' = {all[i] : i \in 1..n} /\ waiting' = SubSeq(all, n + 1, Len(all))
    /\ UNCHANGED <<answer, explained, choice>>

\* After the checklist is made, both grids are verified against it.
Next2(c, v) == IF c = List /\ v = "ok" THEN Verify ELSE {}

\* The slot is not given to the next call (mutant).
AnswerKeepsSlot(c) ==
    /\ c \in flying /\ c \in asked
    /\ \E v \in Possible(c) :
          /\ answer' = [d \in DOMAIN answer \cup {c} |-> IF d = c THEN v ELSE answer[d]]
          /\ asked' = asked \cup Next2(c, v)
          /\ flying' = (flying \ {c}) \cup Next2(c, v)
    /\ UNCHANGED <<stage, waiting, explained, choice>>

\* A call is answered; in the first stage the slot goes to the next one.
Answer(c) ==
    /\ c \in flying /\ c \in asked
    /\ \E v \in Possible(c) :
          /\ answer' = [d \in DOMAIN answer \cup {c} |-> IF d = c THEN v ELSE answer[d]]
          /\ asked' = asked \cup Next2(c, v)
          /\ IF c \in S1Calls /\ waiting # <<>>
             THEN /\ flying' = (flying \ {c}) \cup {Head(waiting)}
                  /\ waiting' = Tail(waiting)
             ELSE /\ flying' = (flying \ {c}) \cup Next2(c, v)
                  /\ UNCHANGED waiting
    /\ UNCHANGED <<stage, explained, choice>>

\* The answer of a call that its stage did not wait for.
Orphan(c) ==
    /\ c \in flying /\ c \notin asked
    /\ flying' = flying \ {c}
    /\ UNCHANGED <<stage, asked, waiting, answer, explained, choice>>

Explain ==
    /\ stage \notin {"start", "done"} /\ ~explained
    /\ explained' = TRUE
    /\ UNCHANGED <<stage, asked, waiting, flying, answer, choice>>

\* One failed verification ends the checklist, whatever the other is doing.
Complete ==
    \A c \in asked : \/ c \in DOMAIN answer
                     \/ \E d \in Verify \cap DOMAIN answer : c \in Verify /\ answer[d].failed

-----------------------------------------------------------------------------
(***************************************************************************)
(* Verdicts.                                                                *)
(***************************************************************************)
DiffOf(what, ans) == Diff(ans[<<what, "ab">>], ans[<<what, "ba">>])
BestDiff(ans) == IF Pair("best") \subseteq DOMAIN ans THEN DiffOf("best", ans) ELSE 0
Gap(ans) ==
    IF Verify \subseteq DOMAIN ans /\ \A c \in Verify : ~ans[c].failed
    THEN Score(ans[<<"check", "a">>]) - Score(ans[<<"check", "b">>]) ELSE 0
Side(s, ans) == [x \in SideViews |-> ans[<<x, s>>]]

\* The verdict of stage s on the answers ans, when the stages before it chose ch.
Verdict(s, ans, ch) ==
    CASE s = "s1" -> PromptMatch(Angles, [x \in Angles |-> ans[<<x, "ab">>]],
                                         [x \in Angles |-> ans[<<x, "ba">>]])
      [] s = "s2" -> SubJudges(BestDiff(ans), DiffOf("artifact", ans), Gap(ans))
      [] s = "s3" -> GrayRescue(ans[<<"gray", "ab">>], ans[<<"gray", "ba">>])
      [] s = "s4" -> StepDown(ch, Garbage(Side("a", ans)), Garbage(Side("b", ans)))

Decided(s) == stage = s /\ Complete /\ choice' = Verdict(s, answer, choice)

S1 ==
    /\ Decided("s1")
    /\ \/ /\ choice' # "draw" /\ stage' = "explain"
          /\ Ask({}, flying)
       \/ /\ choice' = "draw" /\ stage' = "s2"
          /\ \E best \in {Pair("best"), {}} :       \* embeddings are there, or not
                Ask(best \cup Pair("artifact") \cup {List}, flying)
    /\ UNCHANGED <<waiting, explained>>

\* A draw is looked at on gray, if both gray views are pale enough.
S2 ==
    /\ Decided("s2")
    /\ \/ choice' # "draw" /\ stage' = "s4" /\ Ask(S4Calls, flying)
       \/ choice' = "draw" /\ stage' = "s3" /\ Ask(S3Calls, flying)
       \/ choice' = "draw" /\ stage' = "s4" /\ Ask(S4Calls, flying)
    /\ UNCHANGED <<waiting, explained>>

S3 ==
    /\ Decided("s3")
    /\ stage' = "s4" /\ Ask(S4Calls, flying)
    /\ UNCHANGED <<waiting, explained>>

S4 ==
    /\ Decided("s4")
    /\ stage' = "explain" /\ Ask({}, flying)
    /\ UNCHANGED <<waiting, explained>>

End ==
    /\ stage = "explain" /\ explained
    /\ stage' = "done"
    /\ UNCHANGED <<asked, waiting, flying, answer, explained, choice>>

DuelNext ==
    \/ Missing \/ BeginDuel \/ Explain \/ S1 \/ S2 \/ S3 \/ S4 \/ End
    \/ \E c \in Calls : Answer(c) \/ Orphan(c)

DuelSpec == DuelInit /\ [][DuelNext]_duelVars

\* Attempts at a call are limited and each has a timeout, so a call is answered.
FairDuelSpec ==
    /\ DuelSpec
    /\ WF_duelVars(Missing \/ BeginDuel) /\ WF_duelVars(Explain)
    /\ WF_duelVars(S1 \/ S2 \/ S3 \/ S4 \/ End)
    /\ \A c \in Calls : WF_duelVars(Answer(c))

-----------------------------------------------------------------------------
(***************************************************************************)
(* Properties.                                                              *)
(***************************************************************************)
\* The same answers about the same submissions, when A and B change places.
Mirrored(c) ==
    CASE c[2] = "ab" -> <<c[1], "ba">> [] c[2] = "ba" -> <<c[1], "ab">>
      [] c[2] = "a" -> <<c[1], "b">>   [] c[2] = "b" -> <<c[1], "a">>
      [] OTHER -> c
Mirror(ans) == [c \in {Mirrored(d) : d \in DOMAIN ans} |-> ans[Mirrored(c)]]

Judged == stage \in {"s1", "s2", "s3", "s4"} /\ Complete

\* No side has an advantage: had the two miners been entered the other way round,
\* every stage would have come to the opposite verdict (multi_stage.py:641-1347).
MirrorFair ==
    Judged => Verdict(stage, Mirror(answer), Flip(choice)) = Flip(Verdict(stage, answer, choice))

\* The model looks at the position only: what it answers about two submissions it
\* answers again when they change places, as far as both calls succeed.
Positional(ans) ==
    \A c, d \in DOMAIN ans : d = Mirrored(c) => ans[c] = ans[d] \/ ans[c].failed \/ ans[d].failed

\* One of the two orders of a comparison of stage 2 or 3 failed.
LoneFailure(ans) ==
    \E w \in {"best", "artifact", "gray"} :
        Pair(w) \subseteq DOMAIN ans /\ ans[<<w, "ab">>].failed # ans[<<w, "ba">>].failed

\* "evaluated AB and BA" (multi_stage.py:7): a model that looks at the position only
\* decides nothing; in the angles and the checklist (:682-685, 996-1015) whichever calls
\* fail, in the pairs of stages 2 and 3 if both orders fail or none does.  Of a pair
\* with a lone failure the code takes the other order (:835-836, 1209-1216).
PositionDecidesNothing ==
    Judged /\ stage # "s4" /\ Positional(answer) /\ ~LoneFailure(answer)
        => Verdict(stage, answer, choice) = "draw"

\* Every duel ends, whichever calls fail (multi_stage.py:439-495, 1480-1616).
DuelEnds == <>(stage = "done")

\* "Backstop cap on a duel's in-flight VLM calls" (settings.py:51), "Within a duel
\* the stages still fan out their VLM calls, bounded by max_concurrent_vlm_calls"
\* (match_execution.py:37): not counting the explanation.
CallsAreCapped == Cardinality(flying) <= Cap
=============================================================================
