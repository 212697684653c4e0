-------------------------------- MODULE Judge -------------------------------
(***************************************************************************)
(* The judge service of one round in stage DUELS (judge_iteration.py,      *)
(* round_runner.py) over the competition's git repository, with everybody  *)
(* else who commits to it: the validator, the source auditor, the producer *)
(* of the leader's generations and the operator who may hold the round.    *)
(*                                                                         *)
(* The judge is one coroutine, so its GitBatcher (module GitBatcher) is    *)
(* used one call at a time; here it is the set of queued files, the flag   *)
(* stale (its base commit is not the branch's head) and the outcomes of    *)
(* one commit.  Only the judge writes the matrix, the reports, the         *)
(* requests and the winner, so a queued file holds what mem holds.         *)
(***************************************************************************)
EXTENDS Timeline, FiniteSets

CONSTANTS
  Delivered,         \* players with at least one usable generation
  PauseOnStageEnd,   \* settings.pause_on_stage_end
  MaxFaults,         \* bound on failed requests, lost replies, crashes, signals
  MaxHolds           \* bound on the operator's manual holds

ASSUME DeliveredAssumption == Delivered \subseteq Players
ASSUME BoundsAssumption == /\ PauseOnStageEnd \in BOOLEAN
                           /\ MaxFaults \in Nat
                           /\ MaxHolds \in Nat

VARIABLES
  repo,      \* the head commit of the branch
  mem,       \* the runner's copy of the round: its matrix, requests, last verdicts
  pending,   \* the files queued in the batcher
  stale,     \* the batcher's base commit is behind the head
  pc, k,     \* where the runner is; k is the hotkey being qualified, 0 in the main loop
  duel,      \* the match being played
  margin,    \* its margin, once known
  stopping,  \* a shutdown was requested
  faults, holds

vars == <<repo, mem, pending, stale, pc, k, duel, margin, stopping, faults, holds>>
local == <<mem, pending, stale, pc, k, duel, margin>>
control == <<stopping, faults, holds>>

Undecided == N + 1

\* A match cut short by a shutdown has a margin of its own: its skipped
\* duels count as draws.
Outcomes == Margins \cup {"partial"}
Files == {"matrix", "reports", "requests", "winner", "state"}
Stages == {"duels", "paused", "finalizing"}
Points == {"idle", "reload", "read", "qualify", "match", "reported", "record",
           "loop", "derive", "crowned", "entered", "wait", "waiting", "stop"}

NoMatches == [p \in Pairs |-> "none"]
NoVerdicts == [i \in Hotkeys |-> "none"]

Memory == [matrix : [Pairs -> Outcomes], reports : [Pairs -> Outcomes],
           requests : SUBSET Hotkeys, winner : 0 .. N + 1,
           validation : [Hotkeys -> Verdicts], audit : [Hotkeys -> Verdicts]]

Repo == [stage : Stages, baseline : BOOLEAN,
         matrix : [Pairs -> Outcomes], reports : [Pairs -> Outcomes],
         requests : SUBSET Hotkeys, winner : 0 .. N + 1,
         validation : [Hotkeys -> Verdicts], audit : [Hotkeys -> Verdicts]]

\* The memory of a service that runs no round.
Blank == [matrix |-> NoMatches, reports |-> NoMatches, requests |-> {},
          winner |-> Undecided, validation |-> NoVerdicts, audit |-> NoVerdicts]

NoDuel == <<0, 0>>

Init ==
  /\ repo = [stage |-> "duels", baseline |-> FALSE,
             matrix |-> NoMatches, reports |-> NoMatches, requests |-> {},
             winner |-> Undecided, validation |-> NoVerdicts, audit |-> NoVerdicts]
  /\ mem = Blank /\ pending = {} /\ stale = FALSE
  /\ pc = "idle" /\ k = 0 /\ duel = NoDuel /\ margin = "none"
  /\ stopping = FALSE /\ faults = 0 /\ holds = 0

-----------------------------------------------------------------------------
(* The batcher.                                                            *)

NextStage == IF PauseOnStageEnd THEN "paused" ELSE "finalizing"

\* commit_files on top of the head: queued files replace the branch's.
Overlay ==
  [repo EXCEPT !.matrix = IF "matrix" \in pending THEN mem.matrix ELSE @,
               !.reports = IF "reports" \in pending THEN mem.reports ELSE @,
               !.requests = IF "requests" \in pending THEN mem.requests ELSE @,
               !.winner = IF "winner" \in pending THEN mem.winner ELSE @,
               !.stage = IF "state" \in pending THEN NextStage ELSE @]

\* Where a runner goes on after the flush() at the end of each part of it.
AfterFlush == [reload |-> "read", wait |-> "waiting", stop |-> "idle", entered |-> "idle"]

\* write() commits by itself when the interval has passed; a flush always
\* does.  A commit at a point after a write stays there.
AfterWrite == {"reported", "reload", "loop", "derive", "crowned", "entered"}

\* The runner is gone: its batcher and what it queued go with it.
Forget == /\ mem' = Blank /\ pending' = {} /\ stale' = FALSE
          /\ pc' = "idle" /\ k' = 0 /\ duel' = NoDuel /\ margin' = "none"

\* A commit attempt made by a write leaves queue and base as given ...
Written(queue, base) ==
  /\ pc \in AfterWrite
  /\ pending' = queue /\ stale' = base
  /\ UNCHANGED <<mem, pc, k, duel, margin>>

\* ... and one made by a flush is over, whatever it returned.
Flushed(queue, base) ==
  /\ pc \in DOMAIN AfterFlush
  /\ IF AfterFlush[pc] = "idle" THEN Forget
     ELSE /\ pending' = queue /\ stale' = base /\ pc' = AfterFlush[pc]
          /\ UNCHANGED <<mem, k, duel, margin>>

Attempted(queue, base) == Written(queue, base) \/ Flushed(queue, base)

CommitLands ==
  /\ pending # {} /\ ~stale
  /\ repo' = Overlay
  /\ Attempted({}, FALSE)
  /\ UNCHANGED control

\* Somebody else's commit came first: the files stay queued and base_sha is
\* read again.
CommitConflicts ==
  /\ pending # {} /\ stale
  /\ Attempted(pending, FALSE)
  /\ UNCHANGED <<repo, control>>

\* A request fails, or after a conflict the base cannot be read.
CommitFails ==
  /\ pending # {} /\ faults < MaxFaults
  /\ faults' = faults + 1
  /\ Attempted(pending, stale)
  /\ UNCHANGED <<repo, stopping, holds>>

\* The ref moved but the reply was lost: the batcher queues the files again.
CommitReplyLost ==
  /\ pending # {} /\ ~stale /\ faults < MaxFaults
  /\ faults' = faults + 1
  /\ repo' = Overlay
  /\ \E base \in BOOLEAN : Attempted(pending, base)
  /\ UNCHANGED <<stopping, holds>>

\* flush() with nothing queued.
NothingToFlush ==
  /\ pending = {}
  /\ Flushed({}, stale)
  /\ UNCHANGED <<repo, control>>

-----------------------------------------------------------------------------
(* The judge's iteration and the runner's main loop.                       *)

\* judge_iteration reads the head, creates the batcher and loads the runner.
\* With submissions the runner waits for the leader's baseline, else it
\* finalizes at once.
Load(matrix) ==
  /\ pc = "idle" /\ ~stopping
  /\ repo.stage = "duels"
  /\ N > 0 => repo.baseline
  /\ mem' = [Blank EXCEPT !.matrix = matrix, !.reports = repo.reports,
                          !.requests = repo.requests, !.winner = repo.winner]
  /\ pending' = {} /\ stale' = FALSE /\ duel' = NoDuel /\ margin' = "none"
  /\ IF N > 0 THEN pc' = "reload" /\ k' = 1 ELSE pc' = "derive" /\ k' = 0
  /\ UNCHANGED <<repo, control>>

\* Mutant: a restarted runner does not load the matches the round has.
BeginWithoutMatches == Load(NoMatches)

Begin == Load(repo.matrix)

\* The second half of _reload_external_state.
ReadVerdicts ==
  /\ pc = "read"
  /\ stale' = FALSE
  /\ mem' = [mem EXCEPT !.validation = repo.validation, !.audit = repo.audit]
  /\ pc' = IF k = 0 THEN "derive" ELSE "qualify"
  /\ UNCHANGED <<repo, pending, k, duel, margin, control>>

\* _run_qualification passes over a rejected hotkey and a cached match.
Skips(i) == Rejected(mem, i) \/ mem.matrix[<<Leader, i>>] # "none"

QualifyNext ==
  /\ pc = "qualify" /\ k \in Hotkeys /\ ~stopping
  /\ IF Skips(k)
     THEN k' = k + 1 /\ UNCHANGED <<pc, duel>>
     ELSE pc' = "match" /\ duel' = <<Leader, k>> /\ UNCHANGED k
  /\ UNCHANGED <<repo, mem, pending, stale, margin, control>>

\* The first turn of the main loop does not reload.
EndAt(last) ==
  /\ pc = "qualify" /\ (k = last \/ stopping)
  /\ k' = 0
  /\ pc' = IF stopping THEN "stop" ELSE "derive"
  /\ UNCHANGED <<repo, mem, pending, stale, duel, margin, control>>

\* Mutant: the last submission is left out.
QualificationEndsEarly == EndAt(N)

QualificationEnds == EndAt(N + 1)

LoopOnTo(point) ==
  /\ pc = "loop"
  /\ pc' = IF stopping THEN "stop" ELSE point
  /\ UNCHANGED <<repo, mem, pending, stale, k, duel, margin, control>>

\* Mutant: no turn of the loop reloads.
LoopWithoutReload == LoopOnTo("derive")

LoopHead == LoopOnTo("reload")

\* shutdown.wait returns, by timeout or by the signal.
WaitEnds ==
  /\ pc = "waiting"
  /\ pc' = "loop"
  /\ UNCHANGED <<repo, mem, pending, stale, k, duel, margin, control>>

-----------------------------------------------------------------------------
(* One match: _ensure_match around _run_match_between.                     *)

\* Qualification reloads and goes to the next hotkey, the main loop turns.
MatchOver ==
  /\ duel' = NoDuel /\ margin' = "none"
  /\ IF k = 0 THEN pc' = "loop" /\ UNCHANGED k ELSE pc' = "reload" /\ k' = k + 1

\* Both or one of the two delivered nothing usable: a draw, or a clean sweep.
Walkover(p) == IF p[1] \notin Delivered /\ p[2] \in Delivered THEN "reached" ELSE "below"

MatchUndelivered ==
  /\ pc = "match"
  /\ ~({duel[1], duel[2]} \subseteq Delivered)
  /\ margin' = Walkover(duel)
  /\ pc' = "record"
  /\ UNCHANGED <<repo, mem, pending, stale, k, duel, control>>

\* The duels of a match end.  After a shutdown the margin is that of a part
\* of them and is thrown away, else the report is queued.
EndMatch(result) ==
  /\ pc = "match"
  /\ {duel[1], duel[2]} \subseteq Delivered
  /\ IF stopping
     THEN MatchOver /\ UNCHANGED <<mem, pending>>
     ELSE /\ margin' = result
          /\ mem' = [mem EXCEPT !.reports[duel] = result]
          /\ pending' = pending \cup {"reports"}
          /\ pc' = "reported"
          /\ UNCHANGED <<k, duel>>
  /\ UNCHANGED <<repo, stale, control>>

MatchPlayed(m) == EndMatch(IF stopping THEN "partial" ELSE m)

\* Back in _ensure_match, which looks at the shutdown again.
RecordMatch ==
  /\ pc \in {"record", "reported"}
  /\ IF stopping
     THEN UNCHANGED <<mem, pending>>
     ELSE /\ mem' = [mem EXCEPT !.matrix[duel] = margin]
          /\ pending' = pending \cup {"matrix"}
  /\ MatchOver
  /\ UNCHANGED <<repo, stale, control>>

-----------------------------------------------------------------------------
(* One turn of the main loop, from a fresh timeline.                       *)

\* _request_validations: local winners nobody asked a validation for yet.
Unrequested == {i \in Hotkeys : Won(mem, i)} \ mem.requests

RequestValidation ==
  /\ pc = "derive"
  /\ \E i \in Unrequested :
       /\ \A j \in Unrequested : i <= j
       /\ mem' = [mem EXCEPT !.requests = @ \cup {i}]
  /\ pending' = pending \cup {"requests"}
  /\ UNCHANGED <<repo, stale, pc, k, duel, margin, control>>

Deciding == pc = "derive" /\ Unrequested = {}

NothingPending == \A i \in Hotkeys : ~Pending(mem, i)

\* _finalize writes the winner ...
Finalize ==
  /\ Deciding /\ IsFinalized(mem)
  /\ mem' = [mem EXCEPT !.winner = Winner(mem)]
  /\ pending' = pending \cup {"winner"}
  /\ pc' = "crowned"
  /\ UNCHANGED <<repo, stale, k, duel, margin, control>>

\* ... then the stage, and flushes both.
TransitionToNextStage ==
  /\ pc = "crowned"
  /\ pending' = pending \cup {"state"}
  /\ pc' = "entered"
  /\ UNCHANGED <<repo, mem, stale, k, duel, margin, control>>

StartMatch(p) ==
  /\ duel' = p
  /\ pc' = "match"
  /\ UNCHANGED <<repo, mem, pending, stale, k, margin, control>>

TimelineMatch ==
  /\ Deciding
  /\ \E p \in Pairs : IsNextMatch(mem, p) /\ StartMatch(p)

ExploratoryDuel ==
  /\ Deciding /\ NothingPending /\ ~IsFinalized(mem)
  /\ \E p \in Pairs : IsExploratoryDuel(mem, p) /\ StartMatch(p)

AwaitVerdicts ==
  /\ Deciding /\ NothingPending /\ ~IsFinalized(mem) /\ Unplayed(mem) = {}
  /\ pc' = "wait"
  /\ UNCHANGED <<repo, mem, pending, stale, k, duel, margin, control>>

-----------------------------------------------------------------------------
(* What ends a runner.                                                     *)

\* An exception of any await propagates to the service loop, and a crash
\* restarts the service: either way the runner's memory is gone.
Abort ==
  /\ pc # "idle" /\ faults < MaxFaults
  /\ faults' = faults + 1
  /\ Forget
  /\ UNCHANGED <<repo, stopping, holds>>

RequestShutdown ==
  /\ ~stopping /\ faults < MaxFaults
  /\ stopping' = TRUE
  /\ faults' = faults + 1
  /\ UNCHANGED <<repo, local, holds>>

\* The service has left its loop and its supervisor starts it again.
Restart ==
  /\ pc = "idle" /\ stopping
  /\ stopping' = FALSE
  /\ UNCHANGED <<repo, local, faults, holds>>

-----------------------------------------------------------------------------
(* The other committers.  Each leaves the judge's base behind the head.    *)

Foreign == /\ stale' = (pc # "idle")
           /\ UNCHANGED <<mem, pending, pc, k, duel, margin, stopping, faults>>

\* The leader's generations for this round's prompts are complete.
PublishBaseline ==
  /\ ~repo.baseline
  /\ repo' = [repo EXCEPT !.baseline = TRUE]
  /\ Foreign /\ UNCHANGED holds

\* One terminal verdict for a requested hotkey; earlier ones are kept.
PublishValidation(i, v) ==
  /\ i \in repo.requests /\ repo.validation[i] = "none"
  /\ repo' = [repo EXCEPT !.validation[i] = v]
  /\ Foreign /\ UNCHANGED holds

\* The source audit of a submission does not wait for the judge.
PublishAudit(i, v) ==
  /\ repo.audit[i] = "none"
  /\ repo' = [repo EXCEPT !.audit[i] = v]
  /\ Foreign /\ UNCHANGED holds

\* The operator's hold of a round in progress (state.py: "Manual hold for
\* inspection or intervention") and its end.
Hold ==
  /\ repo.stage = "duels" /\ holds < MaxHolds
  /\ repo' = [repo EXCEPT !.stage = "paused"]
  /\ holds' = holds + 1
  /\ Foreign

Release ==
  /\ repo.stage = "paused"
  /\ repo' = [repo EXCEPT !.stage = IF repo.winner = Undecided THEN "duels" ELSE "finalizing"]
  /\ Foreign /\ UNCHANGED holds

-----------------------------------------------------------------------------

Commit == CommitLands \/ CommitConflicts \/ CommitFails \/ CommitReplyLost \/ NothingToFlush

Qualification == QualifyNext \/ QualificationEnds

Match == MatchUndelivered \/ (\E m \in {"below", "reached"} : MatchPlayed(m)) \/ RecordMatch

Turn == \/ LoopHead \/ ReadVerdicts \/ RequestValidation \/ TimelineMatch \/ ExploratoryDuel
        \/ AwaitVerdicts \/ WaitEnds \/ Finalize \/ TransitionToNextStage

Runner == Begin \/ Commit \/ Qualification \/ Match \/ Turn

Validator == \E i \in Hotkeys, v \in {"passed", "failed"} : PublishValidation(i, v)
Auditor == \E i \in Hotkeys, v \in {"passed", "failed"} : PublishAudit(i, v)

Next == Runner \/ Abort \/ RequestShutdown \/ Restart
        \/ PublishBaseline \/ Validator \/ Auditor \/ Hold \/ Release

Spec == Init /\ [][Next]_vars

\* The service's loop runs again after every iteration and every restart;
\* the producers answer each request and end each hold in time.  A commit
\* that can land may fail only as long as faults last, so weak fairness of
\* the runner as a whole would let it fail for ever only without MaxFaults.
Fairness == /\ WF_vars(Runner) /\ WF_vars(Restart)
            /\ WF_vars(PublishBaseline) /\ WF_vars(Validator) /\ WF_vars(Auditor)
            /\ WF_vars(Release)

FairSpec == Spec /\ Fairness

-----------------------------------------------------------------------------
(* Properties.                                                             *)

TypeOK ==
  /\ repo \in Repo /\ mem \in Memory
  /\ pending \subseteq Files /\ stale \in BOOLEAN
  /\ pc \in Points /\ k \in 0 .. N + 1 /\ duel \in Pairs \cup {NoDuel} /\ margin \in Outcomes
  /\ stopping \in BOOLEAN /\ faults \in 0 .. MaxFaults /\ holds \in 0 .. MaxHolds

\* The repository's round is a Tournament: over crashes, restarts, conflicts
\* and lost replies a committed margin is never replayed to another value,
\* and the winner is committed once, from committed evidence that settles
\* every submission (round_runner.py:140-194, 337-369).
Promise == INSTANCE Tournament WITH
  evidence <- [matrix |-> repo.matrix, validation |-> repo.validation, audit |-> repo.audit],
  winner <- repo.winner
IsTournament == Promise!Spec

\* The round-manager may count on winner.json: whatever set the stage, a
\* round in FINALIZING has its winner, and the evidence of any later head
\* still gives that winner (round_runner.py:337-369, finalize_round.py).
FinalizingHasWinner ==
  repo.stage = "finalizing" => repo.winner # Undecided /\ repo.winner = Winner(repo)

\* The report file of a match and its row of the matrix agree, although they
\* are queued by different calls with a shutdown check in between
\* (round_runner.py:250-263, 320-329).
ReportsAgree ==
  \A p \in Pairs : repo.matrix[p] # "none" /\ repo.reports[p] # "none"
                     => repo.matrix[p] = repo.reports[p]

\* A shutdown in the middle of a match leaves no trace of its partial margin,
\* neither a report nor a row ("discarding partial result",
\* round_runner.py:320-322).
NoPartialMargin == \A p \in Pairs : "partial" \notin {repo.matrix[p], repo.reports[p]}

\* Requests are append-only, also across restarts, and each is for a miner
\* whose win over the leader is committed with it or before it
\* (validation_requests.py:25-36, judge-service/README.md "Requests are
\* append-only and deduplicated by hotkey within the round").
RequestsEarned == [][/\ repo.requests \subseteq repo'.requests
                     /\ \A i \in repo'.requests : repo'.matrix[<<Leader, i>>] = "reached"]_vars

\* A miner who delivered nothing usable never takes the throne, not even from
\* a leader without generations ("treated symmetrically as "empty" -> draw, so
\* the leader keeps the throne", round_runner.py:284-292).
EmptyNeverWins == repo.winner \in Hotkeys => repo.winner \in Delivered

\* With producers that answer, finitely many faults and holds that end, every
\* round that reaches DUELS gets a winner and leaves the stage.
RoundDecided == <>[](repo.winner # Undecided /\ repo.stage # "duels")

\* A manual hold lasts until the operator ends it: "Manual hold for
\* inspection or intervention" (shared/subnet_common/competition/state.py:17).
HoldLasts == [][repo.stage = "paused" /\ repo'.stage # "paused" => Release]_vars

=============================================================================
