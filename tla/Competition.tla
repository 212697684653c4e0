----------------------------- MODULE Competition -----------------------------
(***************************************************************************)
(* The rounds of a competition, through the services that own its stages:  *)
(* the submission-collector (OPEN, MINER_GENERATION, COLLECTING), the      *)
(* judge (DUELS, here only what it commits; module Judge has the rest) and *)
(* the round-manager (FINALIZING), with the chain that reveals submissions *)
(* and the operator who may hold a round.  The services share nothing but  *)
(* the repository.  Each works from the commit it read; the flag stale     *)
(* says that somebody has committed since.  A plain commit is refused when *)
(* stale, a GitBatcher's is put on top of the new head at its next try.    *)
(***************************************************************************)
EXTENDS Integers, Sequences, FiniteSets

CONSTANTS
  Miners, Sources, First,  \* First is the source of the leader before round 1
  LastRound,          \* the last round that starts by last_competition_date
  Delays,             \* blocks from finalizing a round to the next round's start
  GenerationBlocks,   \* config.generation_stage_minutes, in blocks
  EmptyRounds,        \* may a round end without an admitted submission
  PauseOnStageEnd,    \* settings.pause_on_stage_end of the judge and the manager
  Slack,              \* bound on the blocks the chain runs past a deadline
  MaxReveals, MaxFaults, MaxLost, MaxHolds   \* bounds on what may happen; a lost
                                             \* reply and another disturbance
                                             \* do not happen in one behaviour

ASSUME CompetitionAssumption ==
  /\ {"leader", "none", "state"} \cap Miners = {}
  /\ First \in Sources /\ LastRound \in Nat \ {0}
  /\ Delays \subseteq Nat \ {0} /\ GenerationBlocks \in Nat
  /\ EmptyRounds \in BOOLEAN /\ PauseOnStageEnd \in BOOLEAN
  /\ {Slack, MaxReveals, MaxFaults, MaxLost, MaxHolds} \subseteq Nat

VARIABLES
  repo,        \* the head commit
  block,       \* the chain's height
  reveals,     \* the commitments revealed on it
  collector, judge, manager,   \* what each service holds in memory
  faults, lost, holds

vars == <<repo, block, reveals, collector, judge, manager, faults, lost, holds>>
services == <<collector, judge, manager>>
counters == <<faults, lost, holds>>

Rounds == 1 .. LastRound
Stages == {"open", "miner_generation", "collecting", "duels", "finalizing", "finished", "paused"}
Commitment == [miner : Miners, block : Nat, source : Sources]
Entry == [source : Sources, weight : {10}, block : Nat]   \* weight in tenths

Undecided == [hotkey |-> "none", source |-> First]
Result == [hotkey : Miners \cup {"leader", "none"}, source : Sources]

\* The branch: state.json, and the files of each round the services act on.
Repository ==
  [round : Rounds, stage : Stages, held : Stages \cup {"none"},
   schedule : [Rounds -> [earliest : Nat, latest : Nat]],
   submissions : [Rounds -> SUBSET Commitment], generated : [Rounds -> SUBSET Miners],
   winner : [Rounds -> Result], leaders : Seq(Entry) \ {<<>>}]

CollectorState ==
  [pc : {"idle", "publish", "deadline", "collect", "entered"}, stale : BOOLEAN,
   round : 0 .. LastRound, subs : SUBSET Commitment,
   done : SUBSET Miners, queue : SUBSET (Miners \cup {"state"})]
JudgeState ==
  [pc : {"idle", "running", "crowned", "entered"}, stale : BOOLEAN,
   round : 0 .. LastRound, result : Result, queue : SUBSET {"winner", "state"}]
ManagerState == [pc : {"idle", "commit"}, stale : BOOLEAN, start : Nat]

Unscheduled == [earliest |-> 0, latest |-> 0]
Idle == [pc |-> "idle", stale |-> FALSE]
NoWork == [pc |-> "idle", stale |-> FALSE, round |-> 0, subs |-> {},
           done |-> {}, queue |-> {}]
NoRunner == [pc |-> "idle", stale |-> FALSE, round |-> 0, result |-> Undecided, queue |-> {}]
NoPlan == [pc |-> "idle", stale |-> FALSE, start |-> 0]

Last(s) == s[Len(s)]
Schedule == repo.schedule[repo.round]
Deadline == Schedule.latest + GenerationBlocks

Init ==
  /\ repo = [round |-> 1, stage |-> "open", held |-> "none",
             schedule |-> [n \in Rounds |-> IF n = 1 THEN [earliest |-> 0, latest |-> 1] ELSE Unscheduled],
             submissions |-> [n \in Rounds |-> {}],
             generated |-> [n \in Rounds |-> {}],
             winner |-> [n \in Rounds |-> Undecided],
             leaders |-> <<[source |-> First, weight |-> 10, block |-> 0]>>]
  /\ block = 0 /\ reveals = {}
  /\ collector = NoWork /\ judge = NoRunner /\ manager = NoPlan
  /\ faults = 0 /\ lost = 0 /\ holds = 0

-----------------------------------------------------------------------------
(* Commits.                                                                *)

Behind(s) == [s EXCEPT !.stale = s.pc # "idle"]

\* Whoever moves the head leaves the others behind it.
CollectorMoves(next, self) ==
  repo' = next /\ collector' = self /\ judge' = Behind(judge) /\ manager' = Behind(manager)
JudgeMoves(next, self) ==
  repo' = next /\ judge' = self /\ collector' = Behind(collector) /\ manager' = Behind(manager)
ManagerMoves(next, self) ==
  repo' = next /\ manager' = self /\ collector' = Behind(collector) /\ judge' = Behind(judge)

\* state.json with its stage set; with pause_on_stage_end the operator lets
\* the round into the stage.
Enter(r, stage) == [r EXCEPT !.stage = stage, !.held = "none"]
EnterOrPause(r, stage) ==
  IF PauseOnStageEnd THEN [r EXCEPT !.stage = "paused", !.held = stage] ELSE Enter(r, stage)

Fault == faults < MaxFaults /\ lost = 0 /\ faults' = faults + 1 /\ UNCHANGED <<lost, holds>>

-----------------------------------------------------------------------------
(* submission-collector, OPEN and MINER_GENERATION.                        *)

\* The latest commitment of each miner within the reveal window.
Revealed == {r \in reveals : r.block >= Schedule.earliest /\ r.block <= Schedule.latest}
Latest == {r \in Revealed : \A q \in Revealed : q.miner = r.miner => q.block <= r.block}

\* The window is closed: commitments are read and those without the
\* conviction lock dropped.
AfterReveal(latest) ==
  /\ collector.pc = "idle" /\ repo.stage = "open"
  /\ block >= latest
  /\ \E admitted \in SUBSET Latest :
       /\ EmptyRounds \/ admitted # {}
       /\ collector' = [NoWork EXCEPT !.pc = "publish", !.round = repo.round, !.subs = admitted]
  /\ UNCHANGED <<repo, block, reveals, judge, manager, counters>>

\* Mutant: the window is read one block early.
ReadWindowEarly == AfterReveal(Schedule.latest - 1)

ReadSubmissions == AfterReveal(Schedule.latest)

\* What one commit changes: the round's files with the stage that needs them,
\* or only the stage when nobody was admitted.
PublicationEntering(r) ==
  IF collector.subs = {} THEN Enter(repo, "finalizing")
  ELSE [r EXCEPT !.submissions[collector.round] = collector.subs]

\* Mutant: the files are published before the stage.
PublishFilesFirst == PublicationEntering(repo)

Publication == PublicationEntering(Enter(repo, "miner_generation"))

PublishSubmissions ==
  /\ collector.pc = "publish" /\ ~collector.stale
  /\ CollectorMoves(Publication, NoWork)
  /\ UNCHANGED <<block, reveals, counters>>

ReachDeadline ==
  /\ collector.pc = "idle" /\ repo.stage = "miner_generation"
  /\ block >= Deadline
  /\ collector' = [NoWork EXCEPT !.pc = "deadline", !.round = repo.round]
  /\ UNCHANGED <<repo, block, reveals, judge, manager, counters>>

\* The iteration falls through to COLLECTING from its own commit.
StartCollecting ==
  /\ collector.pc = "deadline" /\ ~collector.stale
  /\ CollectorMoves(Enter(repo, "collecting"), [collector EXCEPT !.pc = "collect"])
  /\ UNCHANGED <<block, reveals, counters>>

\* A plain commit that is refused, or whose reply is lost, ends the iteration
\* with an exception.
CollectorRefused ==
  /\ collector.pc \in {"publish", "deadline"} /\ collector.stale
  /\ collector' = NoWork
  /\ UNCHANGED <<repo, block, reveals, judge, manager, counters>>

CollectorReplyLost ==
  /\ collector.pc \in {"publish", "deadline"} /\ ~collector.stale
  /\ CollectorMoves(IF collector.pc = "publish" THEN Publication ELSE Enter(repo, "collecting"), NoWork)
  /\ Fault /\ UNCHANGED <<block, reveals>>

-----------------------------------------------------------------------------
(* submission-collector, COLLECTING.                                       *)

ResumeCollecting ==
  /\ collector.pc = "idle" /\ repo.stage = "collecting"
  /\ collector' = [NoWork EXCEPT !.pc = "collect", !.round = repo.round]
  /\ UNCHANGED <<repo, block, reveals, judge, manager, counters>>

Submitted(n) == {s.miner : s \in repo.submissions[n]}
Uncollected == Submitted(collector.round) \ collector.done

\* One miner's index is read and queued as its generated.json.
CollectMiner ==
  /\ collector.pc = "collect"
  /\ \E m \in Uncollected :
       collector' = [collector EXCEPT !.done = @ \cup {m}, !.queue = @ \cup {m}]
  /\ UNCHANGED <<repo, block, reveals, judge, manager, counters>>

OpenDuels ==
  /\ collector.pc = "collect" /\ Uncollected = {}
  /\ collector' = [collector EXCEPT !.pc = "entered", !.queue = @ \cup {"state"}]
  /\ UNCHANGED <<repo, block, reveals, judge, manager, counters>>

\* What the collector's batcher commits.
Collected ==
  LET files == [repo EXCEPT !.generated[collector.round] = @ \cup (collector.queue \cap Miners)]
  IN  IF "state" \in collector.queue THEN [Enter(files, "duels") EXCEPT !.round = collector.round]
      ELSE files

\* After an attempt to commit: a write goes on, the last flush is over.
CollectorTried(queue, stale) ==
  {[collector EXCEPT !.queue = queue, !.stale = stale]}
    \cup IF collector.pc = "entered" THEN {NoWork} ELSE {}

CollectorLands ==
  /\ collector.pc \in {"collect", "entered"} /\ collector.queue # {} /\ ~collector.stale
  /\ \E self \in CollectorTried({}, FALSE) : CollectorMoves(Collected, self)
  /\ UNCHANGED <<block, reveals, counters>>

CollectorConflicts ==
  /\ collector.pc \in {"collect", "entered"} /\ collector.queue # {} /\ collector.stale
  /\ collector' \in CollectorTried(collector.queue, FALSE)
  /\ UNCHANGED <<repo, block, reveals, judge, manager, counters>>

\* The commit landed without a reply and its files are queued again.
CollectorLandsUnseen ==
  /\ collector.pc \in {"collect", "entered"} /\ collector.queue # {} /\ ~collector.stale
  /\ lost < MaxLost /\ faults + holds = 0 /\ lost' = lost + 1
  /\ \E self \in CollectorTried(collector.queue, FALSE) : CollectorMoves(Collected, self)
  /\ UNCHANGED <<block, reveals, faults, holds>>

CollectorDone ==
  /\ collector.pc = "entered" /\ collector.queue = {}
  /\ collector' = NoWork
  /\ UNCHANGED <<repo, block, reveals, judge, manager, counters>>

-----------------------------------------------------------------------------
(* judge-service, DUELS: what a runner reads and commits.  Module Judge     *)
(* has its duels, and shows that a restarted runner cannot choose again.   *)

JudgeStarts ==
  /\ judge.pc = "idle" /\ repo.stage = "duels"
  /\ judge' = [NoRunner EXCEPT !.pc = "running", !.round = repo.round]
  /\ UNCHANGED <<repo, block, reveals, collector, manager, counters>>

\* A finalized timeline names a submitted miner or the latest leader.
Outcomes ==
  {[hotkey |-> "leader", source |-> Last(repo.leaders).source]}
    \cup {[hotkey |-> s.miner, source |-> s.source] : s \in repo.submissions[judge.round]}

JudgeDecides ==
  /\ judge.pc = "running"
  /\ \E result \in Outcomes :
       judge' = [judge EXCEPT !.pc = "crowned", !.result = result, !.queue = {"winner"}]
  /\ UNCHANGED <<repo, block, reveals, collector, manager, counters>>


JudgeEnters ==
  /\ judge.pc = "crowned"
  /\ judge' = [judge EXCEPT !.pc = "entered", !.queue = @ \cup {"state"}]
  /\ UNCHANGED <<repo, block, reveals, collector, manager, counters>>

\* What the judge's batcher commits.
Judged ==
  LET files == IF "winner" \in judge.queue
               THEN [repo EXCEPT !.winner[judge.round] = judge.result] ELSE repo
  IN  IF "state" \in judge.queue
      THEN [EnterOrPause(files, "finalizing") EXCEPT !.round = judge.round] ELSE files

JudgeTried(queue, stale) ==
  {[judge EXCEPT !.queue = queue, !.stale = stale]}
    \cup IF judge.pc = "entered" THEN {NoRunner} ELSE {}

JudgeLands ==
  /\ judge.pc \in {"crowned", "entered"} /\ judge.queue # {} /\ ~judge.stale
  /\ \E self \in JudgeTried({}, FALSE) : JudgeMoves(Judged, self)
  /\ UNCHANGED <<block, reveals, counters>>

JudgeConflicts ==
  /\ judge.pc \in {"crowned", "entered"} /\ judge.queue # {} /\ judge.stale
  /\ judge' \in JudgeTried(judge.queue, FALSE)
  /\ UNCHANGED <<repo, block, reveals, collector, manager, counters>>

JudgeLandsUnseen ==
  /\ judge.pc \in {"crowned", "entered"} /\ judge.queue # {} /\ ~judge.stale
  /\ lost < MaxLost /\ faults + holds = 0 /\ lost' = lost + 1
  /\ \E self \in JudgeTried(judge.queue, FALSE) : JudgeMoves(Judged, self)
  /\ UNCHANGED <<block, reveals, faults, holds>>

JudgeDone ==
  /\ judge.pc = "entered" /\ judge.queue = {}
  /\ judge' = NoRunner
  /\ UNCHANGED <<repo, block, reveals, collector, manager, counters>>

-----------------------------------------------------------------------------
(* round-manager, FINALIZING.                                              *)

\* Without winner.json the cycle ends with an exception and is tried again.
ReadResult ==
  /\ manager.pc = "idle" /\ repo.stage = "finalizing"
  /\ repo.winner[repo.round] # Undecided
  /\ \E delay \in Delays :
       manager' = [pc |-> "commit", stale |-> FALSE, start |-> block + delay]
  /\ UNCHANGED <<repo, block, reveals, collector, judge, counters>>

\* Mutant: another hotkey with the leader's source takes over.
CrownAnyHotkey(leaders, result, start) ==
  IF result.hotkey = "leader" THEN leaders
  ELSE Append(leaders, [source |-> result.source, weight |-> 10, block |-> start])

\* _find_new_leader: a defense, by the leader or by its source, adds nothing.
Crown(leaders, result, start) ==
  IF result.hotkey = "leader" \/ result.source = Last(leaders).source THEN leaders
  ELSE Append(leaders, [source |-> result.source, weight |-> 10, block |-> start])

\* Mutant: a round that starts after its leader.
WindowLate(previous, start) == [earliest |-> previous.latest + 1, latest |-> start + 1]

Window(previous, start) == [earliest |-> previous.latest + 1, latest |-> start]

\* _commit_round_updates: state, schedule and leader in one commit.
NextRound ==
  LET crowned == [repo EXCEPT !.leaders = Crown(@, repo.winner[repo.round], manager.start)]
  IN  IF repo.round = LastRound THEN Enter(crowned, "finished")
      ELSE [EnterOrPause(crowned, "open") EXCEPT
              !.round = repo.round + 1,
              !.schedule[repo.round + 1] = Window(Schedule, manager.start)]

AdvanceRound ==
  /\ manager.pc = "commit" /\ ~manager.stale
  /\ ManagerMoves(NextRound, NoPlan)
  /\ UNCHANGED <<block, reveals, counters>>

ManagerReplyLost ==
  /\ manager.pc = "commit" /\ ~manager.stale
  /\ ManagerMoves(NextRound, NoPlan)
  /\ Fault /\ UNCHANGED <<block, reveals>>

RefusedTo(next) ==
  /\ manager.pc = "commit" /\ manager.stale
  /\ manager' = next
  /\ UNCHANGED <<repo, block, reveals, collector, judge, counters>>

\* Mutant: the refused commit is tried again on the same base.
RetriedOnTheSameBase == RefusedTo(manager)

ManagerRefused == RefusedTo(NoPlan)

-----------------------------------------------------------------------------
(* Failures, the chain and the operator.                                   *)

\* An exception or a crash ends an iteration of any service.
Abort ==
  /\ Fault
  /\ \/ collector.pc # "idle" /\ collector' = NoWork /\ UNCHANGED <<judge, manager>>
     \/ judge.pc # "idle" /\ judge' = NoRunner /\ UNCHANGED <<collector, manager>>
     \/ manager.pc # "idle" /\ manager' = NoPlan /\ UNCHANGED <<collector, judge>>
  /\ UNCHANGED <<repo, block, reveals>>

\* A block with the commitments revealed in it, MaxReveals to a window.
NewBlock ==
  /\ block < Deadline + Slack
  /\ block' = block + 1
  /\ \E S \in SUBSET Miners, source \in Sources :
       /\ reveals' = reveals \cup {[miner |-> m, block |-> block + 1, source |-> source] : m \in S}
       /\ LET window == {r \in reveals' : r.block >= Schedule.earliest}
          IN  /\ Cardinality(window) <= MaxReveals
              /\ EmptyRounds \/ block + 1 < Schedule.latest \/ window # {}
  /\ UNCHANGED <<repo, services, counters>>

OperatorMoves(next) ==
  /\ repo' = next
  /\ collector' = Behind(collector) /\ judge' = Behind(judge) /\ manager' = Behind(manager)
  /\ UNCHANGED <<block, reveals, faults, lost>>

Hold ==
  /\ repo.stage \notin {"paused", "finished"}
  /\ holds < MaxHolds /\ lost = 0 /\ holds' = holds + 1
  /\ OperatorMoves([repo EXCEPT !.stage = "paused", !.held = repo.stage])

Release ==
  /\ repo.stage = "paused"
  /\ OperatorMoves(Enter(repo, repo.held)) /\ UNCHANGED holds

\* The competition is over; the services still look at its state.
Over == repo.stage = "finished" /\ UNCHANGED vars

-----------------------------------------------------------------------------

Collector ==
  \/ ReadSubmissions \/ PublishSubmissions \/ ReachDeadline \/ StartCollecting \/ CollectorRefused
  \/ ResumeCollecting \/ CollectMiner \/ OpenDuels
  \/ CollectorLands \/ CollectorConflicts \/ CollectorDone
Judge == JudgeStarts \/ JudgeDecides \/ JudgeEnters \/ JudgeLands \/ JudgeConflicts \/ JudgeDone
Manager == ReadResult \/ AdvanceRound \/ ManagerRefused
Failures == CollectorReplyLost \/ ManagerReplyLost \/ CollectorLandsUnseen \/ JudgeLandsUnseen \/ Abort

Next == Collector \/ Judge \/ Manager \/ Failures \/ NewBlock \/ Hold \/ Release \/ Over

Spec == Init /\ [][Next]_vars

\* Every service's loop runs again, blocks keep coming and the operator ends
\* each hold.
Fairness == /\ WF_vars(Collector) /\ WF_vars(Judge) /\ WF_vars(Manager)
            /\ WF_vars(NewBlock) /\ WF_vars(Release)
FairSpec == Spec /\ Fairness

-----------------------------------------------------------------------------
(* Properties.                                                             *)

\* A service at work knows its round.
TypeOK ==
  /\ repo \in Repository
  /\ collector \in CollectorState /\ judge \in JudgeState /\ manager \in ManagerState
  /\ collector.pc # "idle" => collector.round \in Rounds
  /\ judge.pc # "idle" => judge.round \in Rounds
  /\ block \in Nat /\ reveals \subseteq Commitment
  /\ faults \in 0 .. MaxFaults /\ lost \in 0 .. MaxLost /\ holds \in 0 .. MaxHolds

\* The stage a round is in, or will be in when the operator lets it go on.
Stage(r) == IF r.stage = "paused" THEN r.held ELSE r.stage

\* The stages follow the stage machine of README.md, with the transition of an
\* empty round (submission-collector/README.md:37), and the round number moves
\* only with FINALIZING -> OPEN, as long as no reply of a batcher's commit is lost.
StageMachine ==
  {<<"open", "miner_generation">>, <<"open", "finalizing">>, <<"miner_generation", "collecting">>,
   <<"collecting", "duels">>, <<"duels", "finalizing">>, <<"finalizing", "finished">>}
PassStage ==
  \/ Stage(repo') = Stage(repo) /\ repo'.round = repo.round
  \/ <<Stage(repo), Stage(repo')>> \in StageMachine /\ repo'.round = repo.round
  \/ Stage(repo) = "finalizing" /\ Stage(repo') = "open" /\ repo'.round = repo.round + 1
StagesInOrder == [][lost' = 0 => PassStage]_repo

\* The ended rounds and leader.json implement Reign: over conflicts, lost
\* replies, crashes and retries a round is ended once, its result is never
\* changed afterwards and the leader changes with it or not at all
\* (finalize_round.py:84-109), as long as no reply of a batcher's commit is lost.
Ended == IF repo.stage = "finished" THEN repo.round ELSE repo.round - 1
Promise == INSTANCE Reign WITH
  results <- [n \in 1 .. Ended |-> repo.winner[n].source],
  reign <- [i \in 1 .. Len(repo.leaders) |-> repo.leaders[i].source]
IsReign == Promise!Init /\ [][lost' = 0 => [Promise!Next]_(Promise!vars)]_repo

\* A new leader takes over at the start of the round after its victory, so no
\* two entries are for the same block and get_leader's scan from the end finds
\* the right one (leader.py:18-23; round-manager/README.md "effective at the
\* next round start block").
LeadersTakeTurns ==
  lost = 0 => \A i \in 2 .. Len(repo.leaders) :
    /\ repo.leaders[i].block > repo.leaders[i - 1].block
    /\ \/ \E n \in Rounds : repo.schedule[n].latest = repo.leaders[i].block
       \/ repo.stage = "finished" /\ i = Len(repo.leaders)

\* What a miner entered a round with is its last commitment of the round's
\* window, also in the light of commitments revealed since
\* (collection_iteration.py:204-211, submission.py:14-54).
AdmittedIsLatest ==
  lost = 0 => \A n \in Rounds : \A s \in repo.submissions[n], r \in reveals :
    r.miner = s.miner /\ r.block <= repo.schedule[n].latest => r.block <= s.block

\* A round's seed, prompts and submissions, once published, stand: a retried
\* iteration never draws them again (collection_iteration.py:228-253).
PublicationStands ==
  [][lost' = 0 => \A n \in Rounds : repo.submissions[n] # {} => repo'.submissions[n] = repo.submissions[n]]_repo

\* The judge never starts on a round whose results are not all committed,
\* although they are written one by one and by iterations that may fail
\* (collection_iteration.py:301-310, download.py:60-71).
DuelsHaveResults ==
  Stage(repo) = "duels" => Submitted(repo.round) \subseteq repo.generated[repo.round]

\* "The competition progresses through well-defined stages" (README.md:30):
\* the branch never goes back to an earlier round.
RoundsOnlyAdvance == [][repo'.round >= repo.round]_repo

\* The competition reaches its end, over crashes, lost replies, holds and the
\* rounds that a lost reply repeats, unless it comes to a round without
\* winner.json, which require_round_result (round_result.py:22-26) raises for.
WithoutWinner == repo.stage = "finalizing" /\ repo.winner[repo.round] = Undecided
CompetitionEnds == <>(repo.stage = "finished") \/ <>[]WithoutWinner

\* "Updating the leader and creating the next round schedule": a round in
\* FINALIZING is finalized by the round-manager (README.md:38).
FinalizingEnds == (repo.stage = "finalizing") ~> (repo.stage # "finalizing")

=============================================================================
