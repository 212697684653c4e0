-------------------------- MODULE CompetitionProofs --------------------------
(***************************************************************************)
(* Proofs about Competition, for any miners, sources and number of rounds. *)
(* As long as no reply of a batcher's commit has been lost (lost = 0), the *)
(* stages are passed in order, the competition implements Reign, and the   *)
(* files of a round agree with its window, with the chain and with the     *)
(* leaders, over every interleaving, refused commit, crash and hold.  The  *)
(* last part is about the weights-setter that pays those leaders.          *)
(***************************************************************************)
EXTENDS Competition, WeightsSetter, SequenceTheorems, NaturalsInduction, WellFoundedInduction, TLAPS

-----------------------------------------------------------------------------
(* Types.                                                                  *)

LEMMA EnterType ==
  ASSUME NEW r \in Repository, NEW stage \in Stages
  PROVE  Enter(r, stage) \in Repository /\ EnterOrPause(r, stage) \in Repository
BY Zenon, SMT DEF Enter, EnterOrPause, Repository, Stages

LEMMA BehindType ==
  /\ collector \in CollectorState => Behind(collector) \in CollectorState
  /\ judge \in JudgeState => Behind(judge) \in JudgeState
  /\ manager \in ManagerState => Behind(manager) \in ManagerState
BY DEF Behind, CollectorState, JudgeState, ManagerState

LEMMA InitialTypes ==
  /\ NoWork \in CollectorState /\ NoRunner \in JudgeState /\ NoPlan \in ManagerState
  /\ NoWork.pc = "idle" /\ NoRunner.pc = "idle" /\ NoPlan.pc = "idle"
  /\ Undecided \in Result
BY CompetitionAssumption DEF NoWork, NoRunner, NoPlan, Undecided, Result,
   CollectorState, JudgeState, ManagerState

\* What each committer puts on the branch is a repository again.
LEMMA PublicationType ==
  ASSUME TypeOK, collector.pc = "publish"
  PROVE  Publication \in Repository
<1>1. /\ Enter(repo, "finalizing") \in Repository
      /\ Enter(repo, "miner_generation") \in Repository
  BY EnterType DEF TypeOK, Stages
<1>2. collector.round \in Rounds /\ collector.subs \in SUBSET Commitment
  BY DEF TypeOK, CollectorState
<1> QED BY <1>1, <1>2 DEF Publication, PublicationEntering, Repository

LEMMA CollectedType ==
  ASSUME TypeOK, collector.pc # "idle"
  PROVE  Collected \in Repository
<1> DEFINE files == [repo EXCEPT !.generated[collector.round] = @ \cup (collector.queue \cap Miners)]
<1>1. collector.round \in Rounds
  BY DEF TypeOK
<1>2. files \in Repository
  BY <1>1 DEF TypeOK, Repository
<1>3. Enter(files, "duels") \in Repository
  BY <1>2, EnterType DEF Stages
<1>4. [Enter(files, "duels") EXCEPT !.round = collector.round] \in Repository
  BY <1>1, <1>3 DEF Repository
<1> QED BY <1>2, <1>4 DEF Collected

LEMMA JudgedType ==
  ASSUME TypeOK, judge.pc # "idle"
  PROVE  Judged \in Repository
<1> DEFINE files == IF "winner" \in judge.queue
                    THEN [repo EXCEPT !.winner[judge.round] = judge.result] ELSE repo
<1>1. judge.round \in Rounds /\ judge.result \in Result
  BY DEF TypeOK, JudgeState
<1>2. files \in Repository
  BY <1>1 DEF TypeOK, Repository
<1>3. EnterOrPause(files, "finalizing") \in Repository
  BY <1>2, EnterType DEF Stages
<1>4. [EnterOrPause(files, "finalizing") EXCEPT !.round = judge.round] \in Repository
  BY <1>1, <1>3 DEF Repository
<1> QED BY <1>2, <1>4 DEF Judged

LEMMA CrownType ==
  ASSUME NEW before \in Seq(Entry) \ {<<>>}, NEW result \in Result, NEW first \in Nat
  PROVE  Crown(before, result, first) \in Seq(Entry) \ {<<>>}
<1>1. [source |-> result.source, weight |-> 10, block |-> first] \in Entry
  BY DEF Result, Entry
<1>2. Append(before, [source |-> result.source, weight |-> 10, block |-> first])
        \in Seq(Entry) \ {<<>>}
  BY <1>1, AppendProperties
<1> QED BY <1>2 DEF Crown

LEMMA NextRoundType ==
  ASSUME TypeOK
  PROVE  NextRound \in Repository
<1> DEFINE crowned == [repo EXCEPT !.leaders = Crown(@, repo.winner[repo.round], manager.start)]
<1>1. repo.round \in Rounds /\ repo.winner[repo.round] \in Result /\ manager.start \in Nat
      /\ repo.leaders \in Seq(Entry) \ {<<>>}
  BY DEF TypeOK, Repository, ManagerState
<1>2. crowned \in Repository
  BY <1>1, CrownType DEF TypeOK, Repository
<1>3. Enter(crowned, "finished") \in Repository /\ EnterOrPause(crowned, "open") \in Repository
  BY <1>2, EnterType DEF Stages
<1>4. Window(Schedule, manager.start) \in [earliest : Nat, latest : Nat]
  BY <1>1 DEF TypeOK, Repository, Schedule, Window
<1>5. ASSUME repo.round # LastRound
      PROVE  [EnterOrPause(crowned, "open") EXCEPT !.round = repo.round + 1,
                !.schedule[repo.round + 1] = Window(Schedule, manager.start)] \in Repository
  <2>1. repo.round + 1 \in Rounds
    BY <1>1, <1>5, CompetitionAssumption DEF Rounds
  <2> QED BY <1>3, <1>4, <2>1 DEF Repository
<1> QED BY <1>3, <1>5 DEF NextRound

LEMMA HoldType ==
  ASSUME TypeOK
  PROVE  /\ [repo EXCEPT !.stage = "paused", !.held = repo.stage] \in Repository
         /\ repo.held # "none" => Enter(repo, repo.held) \in Repository
<1>1. repo.held # "none" => repo.held \in Stages
  BY DEF TypeOK, Repository
<1>2. [repo EXCEPT !.stage = "paused", !.held = repo.stage] \in Repository
  BY DEF TypeOK, Repository, Stages
<1> QED BY <1>1, <1>2, EnterType DEF TypeOK

Active == {"open", "miner_generation", "collecting", "duels", "finalizing"}

\* A paused round is held in a stage that some service acts on.
HeldIsActive == repo.stage = "paused" => repo.held \in Active

LEMMA HeldKept ==
  ASSUME TypeOK, HeldIsActive
  PROVE  /\ Publication.stage # "paused"
         /\ Collected.stage = "paused" => Collected.held \in Active
         /\ Judged.stage = "paused" => Judged.held \in Active
         /\ NextRound.stage = "paused" => NextRound.held \in Active
<1>1. Publication.stage # "paused"
  BY DEF Publication, PublicationEntering, Enter, TypeOK, Repository
<1>2. Collected.stage = "paused" => Collected.held \in Active
  BY DEF Collected, Enter, TypeOK, Repository, HeldIsActive
<1>3. Judged.stage = "paused" => Judged.held \in Active
  BY DEF Judged, Enter, EnterOrPause, TypeOK, Repository, HeldIsActive, Active
<1>4. NextRound.stage = "paused" => NextRound.held \in Active
  BY DEF NextRound, Enter, EnterOrPause, TypeOK, Repository, Active
<1> QED BY <1>1, <1>2, <1>3, <1>4

\* A step of one service that leaves the branch alone.
LEMMA CollectorAlone ==
  ASSUME TypeOK, HeldIsActive, UNCHANGED <<repo, block, reveals, judge, manager, counters>>,
         collector' \in CollectorState, collector'.pc # "idle" => collector'.round \in Rounds
  PROVE  TypeOK' /\ HeldIsActive'
BY DEF TypeOK, HeldIsActive, counters

LEMMA CollectorTypes ==
  ASSUME TypeOK, HeldIsActive, Collector \/ CollectorReplyLost \/ CollectorLandsUnseen
  PROVE  TypeOK' /\ HeldIsActive'
<1> USE CompetitionAssumption, InitialTypes, BehindType
<1>1. CASE ReadSubmissions
  <2>1. Latest \subseteq Commitment
    BY DEF Latest, Revealed, TypeOK
  <2>2. repo.round \in Rounds
    BY DEF TypeOK, Repository
  <2>3. PICK admitted \in SUBSET Latest :
          collector' = [NoWork EXCEPT !.pc = "publish", !.round = repo.round, !.subs = admitted]
    BY <1>1 DEF ReadSubmissions, AfterReveal
  <2>4. collector' \in CollectorState /\ collector'.round \in Rounds
    <3>1. repo.round \in 0 .. LastRound
      BY <2>2 DEF Rounds
    <3> QED BY <2>1, <2>2, <2>3, <3>1 DEF CollectorState
  <2> QED BY <1>1, <2>4, CollectorAlone DEF ReadSubmissions, AfterReveal
<1>2. CASE ReachDeadline \/ ResumeCollecting
  <2>1. repo.round \in Rounds
    BY DEF TypeOK, Repository
  <2>2. collector' \in CollectorState /\ collector'.round \in Rounds
    <3>1. repo.round \in 0 .. LastRound
      BY <2>1 DEF Rounds
    <3>2. \E step \in {"deadline", "collect"} :
            collector' = [NoWork EXCEPT !.pc = step, !.round = repo.round]
      BY <1>2 DEF ReachDeadline, ResumeCollecting
    <3> QED BY <2>1, <3>1, <3>2 DEF CollectorState
  <2> QED BY <1>2, <2>2, CollectorAlone DEF ReachDeadline, ResumeCollecting
<1>3. CASE CollectorRefused \/ CollectorDone
  <2>1. collector' \in CollectorState /\ collector'.pc = "idle"
    BY <1>3 DEF CollectorRefused, CollectorDone
  <2> QED BY <1>3, <2>1, CollectorAlone DEF CollectorRefused, CollectorDone
<1>4. CASE CollectMiner
  <2>1. collector.round \in Rounds
    BY <1>4 DEF CollectMiner, TypeOK
  <2>2. Uncollected \subseteq Miners
    BY <2>1, SMTT(30) DEF Uncollected, Submitted, TypeOK, Repository, Commitment
  <2>3. PICK m \in Uncollected :
          collector' = [collector EXCEPT !.done = @ \cup {m}, !.queue = @ \cup {m}]
    BY <1>4 DEF CollectMiner
  <2>4. collector' \in CollectorState /\ collector'.round \in Rounds
    <3> DEFINE d == collector.done \cup {m}
               q == collector.queue \cup {m}
    <3>1. d \in SUBSET Miners /\ q \in SUBSET (Miners \cup {"state"})
      BY <2>2 DEF TypeOK, CollectorState
    <3>2. collector' = [collector EXCEPT !.done = d, !.queue = q]
      BY <2>3
    <3> HIDE DEF d, q
    <3>3. collector \in CollectorState
      BY DEF TypeOK
    <3>4. collector' \in CollectorState /\ collector'.round = collector.round
      BY <3>1, <3>2, <3>3, Zenon, SMTT(30) DEF CollectorState
    <3> QED BY <2>1, <3>4
  <2> QED BY <1>4, <2>4, CollectorAlone DEF CollectMiner
<1>5. CASE OpenDuels
  <2>1. collector' = [collector EXCEPT !.pc = "entered", !.queue = @ \cup {"state"}]
    BY <1>5 DEF OpenDuels
  <2>2. collector.round \in Rounds
    BY <1>5 DEF OpenDuels, TypeOK
  <2>3. collector' \in CollectorState /\ collector'.round \in Rounds
    BY <2>1, <2>2 DEF TypeOK, CollectorState
  <2> QED BY <1>5, <2>3, CollectorAlone DEF OpenDuels
<1>6. CASE PublishSubmissions
  BY <1>6, PublicationType, HeldKept DEF PublishSubmissions, CollectorMoves, TypeOK, HeldIsActive,
     NoWork, Behind, counters
<1>7. Enter(repo, "collecting") \in Repository /\ Enter(repo, "collecting").stage = "collecting"
  <2>1. Enter(repo, "collecting") \in Repository
    BY EnterType DEF TypeOK, Stages
  <2>2. Enter(repo, "collecting").stage = "collecting"
    BY DEF TypeOK, Repository, Enter
  <2> QED BY <2>1, <2>2
<1>8. CASE StartCollecting
  BY <1>7, <1>8 DEF StartCollecting, CollectorMoves, TypeOK, HeldIsActive,
     Behind, counters, CollectorState, JudgeState, ManagerState
<1>9. CASE CollectorReplyLost
  BY <1>7, <1>9, PublicationType, HeldKept DEF CollectorReplyLost, CollectorMoves, TypeOK,
     HeldIsActive, NoWork, Behind, counters, Fault, JudgeState, ManagerState
<1>10. ASSUME NEW queue \in SUBSET (Miners \cup {"state"}), NEW self \in CollectorTried(queue, FALSE)
       PROVE  self \in CollectorState /\ (self.pc # "idle" => self.round \in Rounds)
  <2>1. CASE self = NoWork
    BY <2>1, InitialTypes
  <2>2. CASE self = [collector EXCEPT !.queue = queue, !.stale = FALSE]
    <3>1. collector \in CollectorState /\ (collector.pc # "idle" => collector.round \in Rounds)
      BY DEF TypeOK
    <3>2. self \in CollectorState /\ self.pc = collector.pc /\ self.round = collector.round
      BY <2>2, <3>1, Zenon, SMTT(30) DEF CollectorState
    <3> QED BY <3>1, <3>2
  <2> QED BY <1>10, <2>1, <2>2 DEF CollectorTried
<1>11. {} \in SUBSET (Miners \cup {"state"}) /\ collector.queue \in SUBSET (Miners \cup {"state"})
  BY DEF TypeOK, CollectorState
<1>12. CASE CollectorLands \/ CollectorLandsUnseen
  <2>1. PICK self : /\ CollectorMoves(Collected, self)
                    /\ self \in CollectorTried({}, FALSE) \cup CollectorTried(collector.queue, FALSE)
    BY <1>12 DEF CollectorLands, CollectorLandsUnseen
  <2>2. self \in CollectorState /\ (self.pc # "idle" => self.round \in Rounds)
    BY <2>1, <1>10, <1>11
  <2>3. collector.pc # "idle"
    BY <1>12 DEF CollectorLands, CollectorLandsUnseen
  <2>4. repo' \in Repository /\ HeldIsActive'
    BY <2>1, <2>3, CollectedType, HeldKept DEF CollectorMoves, HeldIsActive
  <2>5. UNCHANGED <<block, reveals, faults, holds>> /\ lost' \in 0 .. MaxLost
    <3>1. CASE CollectorLands
      BY <3>1 DEF CollectorLands, counters, TypeOK
    <3>2. CASE CollectorLandsUnseen
      BY <3>2 DEF CollectorLandsUnseen, TypeOK
    <3> QED BY <1>12, <3>1, <3>2
  <2> QED BY <2>1, <2>2, <2>4, <2>5 DEF CollectorMoves, TypeOK, Behind, JudgeState, ManagerState
<1>13. CASE CollectorConflicts
  BY <1>10, <1>11, <1>13 DEF CollectorConflicts, TypeOK, HeldIsActive, counters
<1> QED BY <1>1, <1>2, <1>3, <1>4, <1>5, <1>6, <1>8, <1>9, <1>12, <1>13 DEF Collector

LEMMA JudgeTypes ==
  ASSUME TypeOK, HeldIsActive, Judge \/ JudgeLandsUnseen
  PROVE  TypeOK' /\ HeldIsActive'
<1> USE CompetitionAssumption, InitialTypes, BehindType
<1>1. ASSUME UNCHANGED <<repo, block, reveals, collector, manager, counters>>,
             judge' \in JudgeState, judge'.pc # "idle" => judge'.round \in Rounds
      PROVE  TypeOK' /\ HeldIsActive'
  BY <1>1 DEF TypeOK, HeldIsActive, counters
<1>2. CASE JudgeStarts
  <2>1. repo.round \in Rounds /\ repo.round \in 0 .. LastRound
    BY DEF TypeOK, Repository, Rounds
  <2>2. judge' = [NoRunner EXCEPT !.pc = "running", !.round = repo.round]
    BY <1>2 DEF JudgeStarts
  <2>3. judge' \in JudgeState /\ judge'.round \in Rounds
    BY <2>1, <2>2 DEF JudgeState
  <2> QED BY <1>1, <1>2, <2>3 DEF JudgeStarts
<1>3. CASE JudgeDecides
  <2>1. judge.round \in Rounds
    BY <1>3 DEF JudgeDecides, TypeOK
  <2>2. Outcomes \subseteq Result
    <3>1. repo.leaders # <<>> /\ repo.leaders \in Seq(Entry)
      BY DEF TypeOK, Repository
    <3>2. Last(repo.leaders) \in Entry
      BY <3>1 DEF Last
    <3>3. repo.submissions[judge.round] \subseteq Commitment
      BY <2>1 DEF TypeOK, Repository
    <3> QED BY <3>2, <3>3 DEF Outcomes, Result, Entry, Commitment
  <2>3. PICK result \in Outcomes :
          judge' = [judge EXCEPT !.pc = "crowned", !.result = result, !.queue = {"winner"}]
    BY <1>3 DEF JudgeDecides
  <2>4. judge' \in JudgeState /\ judge'.round \in Rounds
    BY <2>1, <2>2, <2>3 DEF TypeOK, JudgeState
  <2> QED BY <1>1, <1>3, <2>4 DEF JudgeDecides
<1>4. CASE JudgeEnters
  <2>1. judge' = [judge EXCEPT !.pc = "entered", !.queue = @ \cup {"state"}] /\ judge.round \in Rounds
    BY <1>4 DEF JudgeEnters, TypeOK
  <2>2. judge' \in JudgeState /\ judge'.round \in Rounds
    BY <2>1 DEF TypeOK, JudgeState
  <2> QED BY <1>1, <1>4, <2>2 DEF JudgeEnters
<1>5. CASE JudgeDone
  <2>1. judge' \in JudgeState /\ judge'.pc = "idle"
    BY <1>5 DEF JudgeDone
  <2> QED BY <1>1, <1>5, <2>1 DEF JudgeDone
<1>6. ASSUME NEW queue \in SUBSET {"winner", "state"}, NEW self \in JudgeTried(queue, FALSE)
      PROVE  self \in JudgeState /\ (self.pc # "idle" => self.round \in Rounds)
  BY <1>6 DEF JudgeTried, TypeOK, JudgeState
<1>7. {} \in SUBSET {"winner", "state"} /\ judge.queue \in SUBSET {"winner", "state"}
  BY DEF TypeOK, JudgeState
<1>8. CASE JudgeConflicts
  BY <1>1, <1>6, <1>7, <1>8 DEF JudgeConflicts
<1>9. CASE JudgeLands \/ JudgeLandsUnseen
  <2>1. PICK self : /\ JudgeMoves(Judged, self)
                    /\ self \in JudgeTried({}, FALSE) \cup JudgeTried(judge.queue, FALSE)
    BY <1>9 DEF JudgeLands, JudgeLandsUnseen
  <2>2. self \in JudgeState /\ (self.pc # "idle" => self.round \in Rounds)
    BY <2>1, <1>6, <1>7
  <2>3. judge.pc # "idle"
    BY <1>9 DEF JudgeLands, JudgeLandsUnseen
  <2>4. repo' \in Repository /\ HeldIsActive'
    BY <2>1, <2>3, JudgedType, HeldKept DEF JudgeMoves, HeldIsActive
  <2>5. UNCHANGED <<block, reveals, faults, holds>> /\ lost' \in 0 .. MaxLost
    <3>1. CASE JudgeLands
      BY <3>1 DEF JudgeLands, counters, TypeOK
    <3>2. CASE JudgeLandsUnseen
      BY <3>2 DEF JudgeLandsUnseen, TypeOK
    <3> QED BY <1>9, <3>1, <3>2
  <2> QED BY <2>1, <2>2, <2>4, <2>5 DEF JudgeMoves, TypeOK, Behind, CollectorState, ManagerState
<1> QED BY <1>2, <1>3, <1>4, <1>5, <1>8, <1>9 DEF Judge

LEMMA ManagerTypes ==
  ASSUME TypeOK, HeldIsActive, Manager \/ ManagerReplyLost
  PROVE  TypeOK' /\ HeldIsActive'
<1> USE CompetitionAssumption, InitialTypes, BehindType
<1>1. CASE ReadResult
  <2>1. PICK delay \in Delays : manager' = [pc |-> "commit", stale |-> FALSE, start |-> block + delay]
    BY <1>1 DEF ReadResult
  <2>2. manager' \in ManagerState
    BY <2>1 DEF ManagerState, TypeOK
  <2> QED BY <1>1, <2>2 DEF ReadResult, TypeOK, HeldIsActive, counters
<1>2. CASE ManagerRefused
  BY <1>2 DEF ManagerRefused, RefusedTo, TypeOK, HeldIsActive, counters
<1>3. CASE AdvanceRound \/ ManagerReplyLost
  <2>1. ManagerMoves(NextRound, NoPlan)
    BY <1>3 DEF AdvanceRound, ManagerReplyLost
  <2>2. repo' \in Repository /\ HeldIsActive'
    BY <2>1, NextRoundType, HeldKept DEF ManagerMoves, HeldIsActive
  <2>3. UNCHANGED <<block, reveals, lost, holds>> /\ faults' \in 0 .. MaxFaults
    <3>1. CASE AdvanceRound
      BY <3>1 DEF AdvanceRound, counters, TypeOK
    <3>2. CASE ManagerReplyLost
      BY <3>2 DEF ManagerReplyLost, Fault, TypeOK
    <3> QED BY <1>3, <3>1, <3>2
  <2>4. collector' \in CollectorState /\ judge' \in JudgeState /\ manager' \in ManagerState
    BY <2>1 DEF ManagerMoves, TypeOK
  <2>5. /\ collector'.pc = collector.pc /\ collector'.round = collector.round
        /\ judge'.pc = judge.pc /\ judge'.round = judge.round
    BY <2>1 DEF ManagerMoves, Behind, TypeOK, CollectorState, JudgeState
  <2> QED BY <2>2, <2>3, <2>4, <2>5 DEF TypeOK
<1> QED BY <1>1, <1>2, <1>3 DEF Manager

LEMMA OtherTypes ==
  ASSUME TypeOK, HeldIsActive, Abort \/ NewBlock \/ Hold \/ Release \/ Over
  PROVE  TypeOK' /\ HeldIsActive'
<1> USE CompetitionAssumption, InitialTypes, BehindType
<1>1. CASE Abort
  <2>1. faults' \in 0 .. MaxFaults /\ UNCHANGED <<repo, block, reveals, lost, holds>>
    BY <1>1 DEF Abort, Fault, TypeOK
  <2> QED BY <1>1, <2>1 DEF Abort, TypeOK, HeldIsActive
<1>2. CASE NewBlock
  <2>1. block' = block + 1 /\ UNCHANGED <<repo, services, counters>>
    BY <1>2 DEF NewBlock
  <2>2. PICK S \in SUBSET Miners, source \in Sources :
          reveals' = reveals \cup {[miner |-> m, block |-> block + 1, source |-> source] : m \in S}
    BY <1>2 DEF NewBlock
  <2>3. block' \in Nat /\ reveals' \subseteq Commitment
    BY <2>1, <2>2 DEF TypeOK, Commitment
  <2> QED BY <2>1, <2>3 DEF TypeOK, HeldIsActive, services, counters
<1>3. ASSUME NEW next, OperatorMoves(next), next \in Repository, holds' \in 0 .. MaxHolds
      PROVE  TypeOK'
  <2>1. UNCHANGED <<block, reveals, faults, lost>> /\ repo' = next
    BY <1>3 DEF OperatorMoves
  <2>2. collector' \in CollectorState /\ (collector'.pc # "idle" => collector'.round \in Rounds)
    BY <1>3 DEF OperatorMoves, TypeOK, Behind, CollectorState
  <2>3. judge' \in JudgeState /\ (judge'.pc # "idle" => judge'.round \in Rounds)
    BY <1>3 DEF OperatorMoves, TypeOK, Behind, JudgeState
  <2>4. manager' \in ManagerState
    BY <1>3 DEF OperatorMoves, TypeOK, Behind, ManagerState
  <2> QED BY <1>3, <2>1, <2>2, <2>3, <2>4 DEF TypeOK
<1>4. CASE Hold
  <2>1. repo' = [repo EXCEPT !.stage = "paused", !.held = repo.stage] /\ repo.stage \in Active
    BY <1>4 DEF Hold, OperatorMoves, TypeOK, Repository, Stages, Active
  <2>2. HeldIsActive'
    BY <2>1 DEF HeldIsActive, TypeOK, Repository
  <2>3. repo' \in Repository
    BY <2>1, HoldType
  <2>4. holds' \in 0 .. MaxHolds
    BY <1>4 DEF Hold, TypeOK
  <2> QED BY <1>3, <1>4, <2>2, <2>3, <2>4 DEF Hold, OperatorMoves
<1>5. CASE Release
  <2>1. repo' = Enter(repo, repo.held) /\ repo.held \in Active
    BY <1>5 DEF Release, OperatorMoves, HeldIsActive
  <2>2. HeldIsActive'
    BY <2>1 DEF HeldIsActive, Enter, TypeOK, Repository, Active
  <2>3. repo' \in Repository
    BY <2>1, HoldType DEF Active
  <2>4. holds' \in 0 .. MaxHolds
    BY <1>5 DEF Release, TypeOK
  <2> QED BY <1>3, <1>5, <2>2, <2>3, <2>4 DEF Release, OperatorMoves
<1>6. CASE Over
  BY <1>6 DEF Over, vars, TypeOK, HeldIsActive
<1> QED BY <1>1, <1>2, <1>4, <1>5, <1>6

LEMMA InitialType == Init => TypeOK /\ HeldIsActive
<1> SUFFICES ASSUME Init PROVE TypeOK /\ HeldIsActive
  OBVIOUS
<1>1. <<[source |-> First, weight |-> 10, block |-> 0]>> \in Seq(Entry) \ {<<>>}
  BY CompetitionAssumption DEF Entry
<1>2. 1 \in Rounds
  BY CompetitionAssumption DEF Rounds
<1>3. [n \in Rounds |-> IF n = 1 THEN [earliest |-> 0, latest |-> 1] ELSE Unscheduled]
        \in [Rounds -> [earliest : Nat, latest : Nat]]
  BY DEF Unscheduled
<1>4. repo \in Repository
  BY <1>1, <1>2, <1>3, InitialTypes DEF Init, Repository, Stages
<1>5. repo.stage = "open"
  BY DEF Init
<1> QED BY <1>4, <1>5, InitialTypes, CompetitionAssumption DEF Init, TypeOK, HeldIsActive

LEMMA TypeStep ==
  ASSUME TypeOK, HeldIsActive, [Next]_vars
  PROVE  TypeOK' /\ HeldIsActive'
<1>1. CASE UNCHANGED vars
  BY <1>1 DEF vars, TypeOK, HeldIsActive
<1> QED BY <1>1, CollectorTypes, JudgeTypes, ManagerTypes, OtherTypes DEF Next, Failures

\* State, files and services keep their types, and every round that starts is
\* one of the competition's, whatever is refused, lost or held
\* (finalize_round.py:207-211).
THEOREM CompetitionType == Spec => []TypeOK
<1>1. TypeOK /\ HeldIsActive /\ [Next]_vars => (TypeOK /\ HeldIsActive)'
  BY TypeStep
<1> QED BY <1>1, InitialType, PTL DEF Spec

-----------------------------------------------------------------------------
(***************************************************************************)
(* While no reply is lost, who is about to commit knows the stage: a plain *)
(* commit that is not stale finds the stage it was prepared for, and what  *)
(* a batcher holds belongs to the round in the stage of its service.  This *)
(* is inductive, and it is what a lost reply breaks.                       *)
(***************************************************************************)
CollectorFollows ==
  /\ collector.pc = "publish" /\ ~collector.stale =>
       repo.stage = "open" /\ collector.round = repo.round
  /\ collector.pc = "deadline" /\ ~collector.stale =>
       repo.stage = "miner_generation" /\ collector.round = repo.round
  /\ collector.pc = "collect" \/ collector.queue # {} =>
       Stage(repo) = "collecting" /\ collector.round = repo.round
  /\ collector.pc \in {"idle", "publish", "deadline"} => collector.queue = {}
  /\ "state" \in collector.queue => collector.pc = "entered"

\* A result with the leader's name is the leader's.
Defends(result, crowned) == result.hotkey = "leader" => result.source = Last(crowned).source

JudgeFollows ==
  /\ judge.pc \in {"running", "crowned"} \/ judge.queue # {} =>
       Stage(repo) = "duels" /\ judge.round = repo.round
  /\ judge.pc \in {"idle", "running"} => judge.queue = {}
  /\ "state" \in judge.queue => judge.pc = "entered"
  /\ "winner" \in judge.queue => Defends(judge.result, repo.leaders)

ManagerFollows == manager.pc = "commit" /\ ~manager.stale => repo.stage = "finalizing"

ResultFollows ==
  /\ repo.stage # "finished" => Defends(repo.winner[repo.round], repo.leaders)
  /\ \A n \in Rounds : n > repo.round => repo.winner[n] = Undecided

Follows == CollectorFollows /\ JudgeFollows /\ ManagerFollows /\ ResultFollows

IInv == TypeOK /\ HeldIsActive /\ Follows

\* The fields that a step of a stage leaves alone.
SameFiles(r, q) == r.round = q.round /\ r.winner = q.winner /\ r.leaders = q.leaders

LEMMA EnterStage ==
  ASSUME NEW r \in Repository, NEW stage \in Active \cup {"finished"}
  PROVE  /\ Enter(r, stage).stage = stage /\ SameFiles(Enter(r, stage), r)
         /\ Stage(Enter(r, stage)) = stage
         /\ Stage(EnterOrPause(r, stage)) = stage /\ SameFiles(EnterOrPause(r, stage), r)
<1>1. stage # "paused"
  BY DEF Active
<1>2. Enter(r, stage).stage = stage /\ SameFiles(Enter(r, stage), r)
  BY DEF Enter, Repository, SameFiles
<1>3. Stage(Enter(r, stage)) = stage
  BY <1>1, <1>2 DEF Stage
<1>4. CASE PauseOnStageEnd
  <2> DEFINE p == [r EXCEPT !.stage = "paused", !.held = stage]
  <2>1. p.stage = "paused" /\ p.held = stage /\ SameFiles(p, r)
    BY DEF Repository, SameFiles
  <2> QED BY <1>2, <1>3, <1>4, <2>1 DEF EnterOrPause, Stage
<1>5. CASE ~PauseOnStageEnd
  BY <1>2, <1>3, <1>5 DEF EnterOrPause
<1> QED BY <1>2, <1>3, <1>4, <1>5

LEMMA PublicationStage ==
  ASSUME TypeOK, collector.pc = "publish"
  PROVE  SameFiles(Publication, repo) /\ Stage(Publication) \in {"finalizing", "miner_generation"}
<1>1. repo \in Repository
  BY DEF TypeOK
<1>2. CASE collector.subs = {}
  BY <1>1, <1>2, EnterStage DEF Publication, PublicationEntering, Active
<1>3. CASE collector.subs # {}
  <2> DEFINE r == Enter(repo, "miner_generation")
  <2> DEFINE q == [r EXCEPT !.submissions[collector.round] = collector.subs]
  <2>1. r.stage = "miner_generation" /\ SameFiles(r, repo)
    BY <1>1, EnterStage DEF Active
  <2>2. r \in Repository
    BY <1>1, EnterType DEF Stages
  <2>3. q.stage = r.stage /\ SameFiles(q, r)
    BY <2>2 DEF Repository, SameFiles
  <2>4. Publication = q
    BY <1>3 DEF Publication, PublicationEntering
  <2> HIDE DEF q, r
  <2> QED BY <2>1, <2>3, <2>4 DEF Stage, SameFiles
<1> QED BY <1>2, <1>3

LEMMA CollectedStage ==
  ASSUME TypeOK, collector.pc # "idle", collector.round = repo.round
  PROVE  /\ SameFiles(Collected, repo)
         /\ Stage(Collected) = IF "state" \in collector.queue THEN "duels" ELSE Stage(repo)
<1> DEFINE files == [repo EXCEPT !.generated[collector.round] = @ \cup (collector.queue \cap Miners)]
<1>1. repo \in Repository /\ collector.round \in Rounds
  BY DEF TypeOK
<1>2. files \in Repository /\ files.stage = repo.stage /\ files.held = repo.held /\ SameFiles(files, repo)
  BY <1>1 DEF Repository, SameFiles
<1> DEFINE r == Enter(files, "duels")
<1> DEFINE q == [r EXCEPT !.round = collector.round]
<1>3. r.stage = "duels" /\ SameFiles(r, files) /\ r \in Repository
  BY <1>2, EnterStage, EnterType DEF Active, Stages
<1>4. q.stage = "duels" /\ SameFiles(q, repo)
  BY <1>2, <1>3 DEF Repository, SameFiles
<1>5. Collected = IF "state" \in collector.queue THEN q ELSE files
  BY DEF Collected
<1> HIDE DEF files, r, q
<1> QED BY <1>2, <1>4, <1>5 DEF Stage

LEMMA JudgedStage ==
  ASSUME TypeOK, judge.pc # "idle", judge.round = repo.round
  PROVE  /\ Judged.round = repo.round /\ Judged.leaders = repo.leaders
         /\ Judged.winner = IF "winner" \in judge.queue
                            THEN [repo.winner EXCEPT ![repo.round] = judge.result] ELSE repo.winner
         /\ Stage(Judged) = IF "state" \in judge.queue THEN "finalizing" ELSE Stage(repo)
<1> DEFINE files == IF "winner" \in judge.queue
                    THEN [repo EXCEPT !.winner[judge.round] = judge.result] ELSE repo
<1>1. repo \in Repository /\ judge.round \in Rounds /\ judge.result \in Result
  BY DEF TypeOK, JudgeState
<1>2. /\ files \in Repository /\ files.stage = repo.stage /\ files.held = repo.held
      /\ files.round = repo.round /\ files.leaders = repo.leaders
      /\ files.winner = IF "winner" \in judge.queue
                        THEN [repo.winner EXCEPT ![repo.round] = judge.result] ELSE repo.winner
  BY <1>1 DEF Repository
<1> DEFINE r == EnterOrPause(files, "finalizing")
<1> DEFINE q == [r EXCEPT !.round = judge.round]
<1>3. Stage(r) = "finalizing" /\ SameFiles(r, files) /\ r \in Repository
  BY <1>2, EnterStage, EnterType DEF Active, Stages
<1>4. q.stage = r.stage /\ q.held = r.held /\ SameFiles(q, files)
  BY <1>2, <1>3 DEF Repository, SameFiles
<1>5. Judged = IF "state" \in judge.queue THEN q ELSE files
  BY DEF Judged
<1> HIDE DEF files, r, q
<1> QED BY <1>2, <1>3, <1>4, <1>5 DEF Stage, SameFiles

LEMMA NextRoundStage ==
  ASSUME TypeOK
  PROVE  /\ NextRound.winner = repo.winner
         /\ NextRound.leaders = Crown(repo.leaders, repo.winner[repo.round], manager.start)
         /\ repo.round = LastRound => NextRound.stage = "finished" /\ NextRound.round = repo.round
         /\ repo.round # LastRound => Stage(NextRound) = "open" /\ NextRound.stage # "finished"
                                      /\ NextRound.round = repo.round + 1
<1> DEFINE after == Crown(repo.leaders, repo.winner[repo.round], manager.start)
<1> DEFINE crowned == [repo EXCEPT !.leaders = after]
<1>1. repo \in Repository /\ repo.round \in Rounds /\ repo.winner[repo.round] \in Result
      /\ repo.leaders \in Seq(Entry) \ {<<>>} /\ manager.start \in Nat
  BY DEF TypeOK, Repository, ManagerState
<1>2. after \in Seq(Entry) \ {<<>>}
  BY <1>1, CrownType
<1> HIDE DEF after
<1>3. /\ crowned \in Repository /\ crowned.round = repo.round
      /\ crowned.winner = repo.winner /\ crowned.leaders = after
  BY <1>1, <1>2 DEF Repository
<1> HIDE DEF crowned
<1> DEFINE r == EnterOrPause(crowned, "open")
<1> DEFINE q == [r EXCEPT !.round = repo.round + 1,
                          !.schedule[repo.round + 1] = Window(Schedule, manager.start)]
<1>4. Stage(r) = "open" /\ SameFiles(r, crowned) /\ r \in Repository
  BY <1>3, EnterStage, EnterType DEF Active, Stages
<1>5. /\ Enter(crowned, "finished").stage = "finished"
      /\ SameFiles(Enter(crowned, "finished"), crowned)
  BY <1>3, EnterStage
<1> HIDE DEF r
<1>6. q.stage = r.stage /\ q.held = r.held /\ q.winner = r.winner /\ q.leaders = r.leaders
      /\ q.round = repo.round + 1
  BY <1>4 DEF Repository
<1>7. NextRound = IF repo.round = LastRound THEN Enter(crowned, "finished") ELSE q
  BY DEF NextRound, crowned, after, r
<1> HIDE DEF q
<1>8. CASE repo.round = LastRound
  BY <1>3, <1>5, <1>7, <1>8 DEF SameFiles, after
<1>9. CASE repo.round # LastRound
  <2>1. NextRound = q
    BY <1>7, <1>9
  <2>2. Stage(NextRound) = "open" /\ NextRound.stage # "finished"
    BY <2>1, <1>4, <1>6 DEF Stage
  <2> QED BY <2>1, <2>2, <1>3, <1>4, <1>6, <1>9 DEF SameFiles, after
<1> QED BY <1>8, <1>9

-----------------------------------------------------------------------------
(* The steps.                                                              *)

ReignStep == Promise!Next \/ UNCHANGED Promise!vars

LEMMA ReignStutter ==
  ASSUME TypeOK, repo'.round = repo.round, repo'.leaders = repo.leaders,
         repo.stage # "finished", repo'.stage # "finished",
         \A n \in 1 .. repo.round - 1 : repo'.winner[n] = repo.winner[n]
  PROVE  ReignStep
<1>1. Ended = repo.round - 1 /\ Ended' = repo.round - 1
  BY DEF Ended
<1>2. UNCHANGED <<[n \in 1 .. Ended |-> repo.winner[n].source],
                  [i \in 1 .. Len(repo.leaders) |-> repo.leaders[i].source]>>
  BY <1>1
<1> QED BY <1>2 DEF ReignStep, Promise!vars

\* A commit of another service: what a service holds is stale, and still of
\* its round unless its stage is over.
LEMMA CollectorKept ==
  ASSUME IInv, collector' = Behind(collector),
         \/ Stage(repo) # "collecting"
         \/ Stage(repo') = Stage(repo) /\ repo'.round = repo.round
  PROVE  CollectorFollows'
<1>1. /\ collector'.pc = collector.pc /\ collector'.queue = collector.queue
      /\ collector'.round = collector.round /\ (collector'.pc # "idle" => collector'.stale)
  BY DEF IInv, TypeOK, CollectorState, Behind
<1> QED BY <1>1 DEF IInv, Follows, CollectorFollows

LEMMA JudgeKept ==
  ASSUME IInv, judge' = Behind(judge),
         \/ Stage(repo) # "duels"
         \/ Stage(repo') = Stage(repo) /\ repo'.round = repo.round /\ repo'.leaders = repo.leaders
  PROVE  JudgeFollows'
<1>1. /\ judge'.pc = judge.pc /\ judge'.queue = judge.queue
      /\ judge'.round = judge.round /\ judge'.result = judge.result
  BY DEF IInv, TypeOK, JudgeState, Behind
<1> QED BY <1>1 DEF IInv, Follows, JudgeFollows

LEMMA ManagerKept ==
  ASSUME IInv, manager' = Behind(manager)
  PROVE  ManagerFollows'
BY DEF IInv, TypeOK, ManagerState, Behind, ManagerFollows

LEMMA ResultKept ==
  ASSUME IInv, repo.stage # "finished", SameFiles(repo', repo)
  PROVE  ResultFollows'
BY DEF IInv, Follows, ResultFollows, SameFiles

\* A commit of the collector's that moves the round on within its own stages.
LEMMA CollectorPasses ==
  ASSUME IInv, NEW next, NEW self, CollectorMoves(next, self),
         Stage(repo) \in {"open", "miner_generation", "collecting"},
         SameFiles(next, repo), Stage(next) # "finished",
         Stage(next) = Stage(repo) \/ <<Stage(repo), Stage(next)>> \in StageMachine
  PROVE  JudgeFollows' /\ ManagerFollows' /\ ResultFollows' /\ PassStage /\ ReignStep
<1>1. repo' = next /\ judge' = Behind(judge) /\ manager' = Behind(manager)
  BY DEF CollectorMoves
<1>2. repo.stage # "finished" /\ repo'.stage # "finished"
  BY <1>1 DEF Stage
<1>3. repo'.round = repo.round /\ repo'.leaders = repo.leaders /\ repo'.winner = repo.winner
  BY <1>1 DEF SameFiles
<1>4. JudgeFollows' /\ ManagerFollows' /\ ResultFollows'
  BY <1>1, <1>2, JudgeKept, ManagerKept, ResultKept
<1>5. PassStage
  BY <1>1, <1>3 DEF PassStage
<1>6. ReignStep
  BY <1>2, <1>3, ReignStutter DEF IInv
<1> QED BY <1>4, <1>5, <1>6

LEMMA CollectorStep ==
  ASSUME IInv, Collector \/ CollectorReplyLost
  PROVE  Follows' /\ (UNCHANGED repo \/ (PassStage /\ ReignStep))
<1> USE InitialTypes
<1>1. NoWork.queue = {}
  BY DEF NoWork
<1>2. collector \in CollectorState /\ repo \in Repository
  BY DEF IInv, TypeOK
<1>3. ASSUME UNCHANGED <<repo, judge, manager>>, CollectorFollows'
      PROVE  Follows'
  BY <1>3 DEF IInv, Follows, JudgeFollows, ManagerFollows, ResultFollows
<1>4. CASE collector' = NoWork /\ UNCHANGED <<repo, judge, manager>>
  BY <1>1, <1>3, <1>4 DEF CollectorFollows
<1>5. CASE ReadSubmissions
  <2>1. PICK admitted : collector' = [NoWork EXCEPT !.pc = "publish", !.round = repo.round, !.subs = admitted]
    BY <1>5 DEF ReadSubmissions, AfterReveal
  <2>2. collector'.pc = "publish" /\ collector'.round = repo.round /\ collector'.queue = {}
    BY <2>1 DEF NoWork
  <2>3. repo.stage = "open" /\ UNCHANGED <<repo, judge, manager>>
    BY <1>5 DEF ReadSubmissions, AfterReveal
  <2> QED BY <1>3, <2>2, <2>3 DEF CollectorFollows
<1>6. CASE ReachDeadline
  <2>1. collector'.pc = "deadline" /\ collector'.round = repo.round /\ collector'.queue = {}
    BY <1>6 DEF ReachDeadline, NoWork
  <2>2. repo.stage = "miner_generation" /\ UNCHANGED <<repo, judge, manager>>
    BY <1>6 DEF ReachDeadline
  <2> QED BY <1>3, <2>1, <2>2 DEF CollectorFollows
<1>7. CASE ResumeCollecting
  <2>1. collector'.pc = "collect" /\ collector'.round = repo.round /\ collector'.queue = {}
    BY <1>7 DEF ResumeCollecting, NoWork
  <2>2. Stage(repo) = "collecting" /\ UNCHANGED <<repo, judge, manager>>
    BY <1>7 DEF ResumeCollecting, Stage
  <2> QED BY <1>3, <2>1, <2>2 DEF CollectorFollows
<1>8. CASE CollectMiner
  <2>1. PICK m \in Uncollected :
          collector' = [collector EXCEPT !.done = @ \cup {m}, !.queue = @ \cup {m}]
    BY <1>8 DEF CollectMiner
  <2>2. m \in Miners
    BY <2>1, <1>8 DEF Uncollected, Submitted, CollectMiner, IInv, TypeOK, Repository, Commitment
  <2>3. /\ collector'.pc = collector.pc /\ collector'.round = collector.round
        /\ collector'.queue = collector.queue \cup {m} /\ collector'.stale = collector.stale
    BY <2>1, <1>2 DEF CollectorState
  <2>4. collector.pc = "collect" /\ UNCHANGED <<repo, judge, manager>> /\ m # "state"
    BY <1>8, <2>2, CompetitionAssumption DEF CollectMiner
  <2> QED BY <1>3, <2>3, <2>4 DEF IInv, Follows, CollectorFollows
<1>9. CASE OpenDuels
  <2>1. /\ collector' = [collector EXCEPT !.pc = "entered", !.queue = @ \cup {"state"}]
        /\ collector.pc = "collect" /\ UNCHANGED <<repo, judge, manager>>
    BY <1>9 DEF OpenDuels
  <2>2. collector'.pc = "entered" /\ collector'.round = collector.round
    BY <2>1, <1>2 DEF CollectorState
  <2> QED BY <1>3, <2>1, <2>2 DEF IInv, Follows, CollectorFollows
<1>10. CASE CollectorConflicts
  <2>1. collector' = NoWork \/ collector' = [collector EXCEPT !.queue = collector.queue, !.stale = FALSE]
    BY <1>10 DEF CollectorConflicts, CollectorTried
  <2>2. UNCHANGED <<repo, judge, manager>> /\ collector.pc \in {"collect", "entered"}
    BY <1>10 DEF CollectorConflicts
  <2>3. ASSUME collector' # NoWork
        PROVE  /\ collector'.pc = collector.pc /\ collector'.round = collector.round
               /\ collector'.queue = collector.queue
    BY <2>1, <2>3, <1>2 DEF CollectorState
  <2> QED BY <1>3, <1>4, <2>2, <2>3 DEF IInv, Follows, CollectorFollows
<1>11. CASE collector.pc = "publish" /\ ~collector.stale /\ CollectorMoves(Publication, NoWork)
  <2>1. Stage(repo) = "open"
    BY <1>11 DEF IInv, Follows, CollectorFollows, Stage
  <2>2. SameFiles(Publication, repo) /\ Stage(Publication) \in {"finalizing", "miner_generation"}
    BY <1>11, PublicationStage DEF IInv
  <2>3. JudgeFollows' /\ ManagerFollows' /\ ResultFollows' /\ PassStage /\ ReignStep
    BY <1>11, <2>1, <2>2, CollectorPasses DEF StageMachine
  <2>4. CollectorFollows'
    BY <1>1, <1>11 DEF CollectorMoves, CollectorFollows
  <2> QED BY <2>3, <2>4 DEF Follows
<1>12. ASSUME collector.pc = "deadline", ~collector.stale,
              NEW self, CollectorMoves(Enter(repo, "collecting"), self),
              self \in {NoWork, [collector EXCEPT !.pc = "collect"]}
       PROVE  Follows' /\ PassStage /\ ReignStep
  <2>1. Stage(repo) = "miner_generation" /\ collector.round = repo.round
    BY <1>12 DEF IInv, Follows, CollectorFollows, Stage
  <2>2. SameFiles(Enter(repo, "collecting"), repo) /\ Stage(Enter(repo, "collecting")) = "collecting"
    BY <1>2, EnterStage DEF Active
  <2>3. JudgeFollows' /\ ManagerFollows' /\ ResultFollows' /\ PassStage /\ ReignStep
    BY <1>12, <2>1, <2>2, CollectorPasses DEF StageMachine
  <2>4. collector' = self /\ Stage(repo') = "collecting" /\ repo'.round = repo.round
    BY <1>12, <2>2 DEF CollectorMoves, SameFiles
  <2>5. collector.queue = {}
    BY <1>12 DEF IInv, Follows, CollectorFollows
  <2>6. ASSUME self = NoWork
        PROVE  CollectorFollows'
    BY <1>1, <2>4, <2>6 DEF CollectorFollows
  <2>7. ASSUME self = [collector EXCEPT !.pc = "collect"]
        PROVE  CollectorFollows'
    <3>1. collector'.pc = "collect" /\ collector'.round = repo'.round /\ collector'.queue = {}
      BY <1>2, <2>1, <2>4, <2>5, <2>7 DEF CollectorState
    <3> QED BY <2>4, <3>1 DEF CollectorFollows
  <2> QED BY <1>12, <2>3, <2>6, <2>7 DEF Follows
<1>13. CASE CollectorLands
  <2>1. PICK self \in CollectorTried({}, FALSE) : CollectorMoves(Collected, self)
    BY <1>13 DEF CollectorLands
  <2>2. /\ Stage(repo) = "collecting" /\ collector.round = repo.round
        /\ collector.pc \in {"collect", "entered"}
        /\ "state" \in collector.queue => collector.pc = "entered"
    BY <1>13 DEF CollectorLands, IInv, Follows, CollectorFollows
  <2>3. /\ SameFiles(Collected, repo)
        /\ Stage(Collected) = IF "state" \in collector.queue THEN "duels" ELSE Stage(repo)
    BY <2>2, CollectedStage DEF IInv
  <2>4. JudgeFollows' /\ ManagerFollows' /\ ResultFollows' /\ PassStage /\ ReignStep
    BY <2>1, <2>2, <2>3, CollectorPasses DEF StageMachine
  <2>5. collector' = NoWork \/ collector' = [collector EXCEPT !.queue = {}, !.stale = FALSE]
    BY <2>1 DEF CollectorTried, CollectorMoves
  <2>6. repo'.round = repo.round /\ (collector.pc = "collect" => Stage(repo') = "collecting")
    BY <2>1, <2>2, <2>3 DEF CollectorMoves, SameFiles
  <2>7. ASSUME collector' # NoWork
        PROVE  /\ collector'.pc = collector.pc /\ collector'.round = collector.round
               /\ collector'.queue = {}
    BY <2>5, <2>7, <1>2 DEF CollectorState
  <2>8. CollectorFollows'
    BY <1>1, <2>2, <2>6, <2>7 DEF CollectorFollows
  <2> QED BY <2>4, <2>8 DEF Follows
<1> QED
  <2>1. CASE CollectorRefused \/ CollectorDone
    BY <1>4, <2>1 DEF CollectorRefused, CollectorDone
  <2>2. CASE PublishSubmissions
    BY <1>11, <2>2 DEF PublishSubmissions
  <2>3. CASE StartCollecting
    BY <1>12, <2>3 DEF StartCollecting
  <2>4. CASE CollectorReplyLost
    BY <1>11, <1>12, <2>4 DEF CollectorReplyLost
  <2>5. UNCHANGED repo \/ PublishSubmissions \/ StartCollecting \/ CollectorReplyLost \/ CollectorLands
    BY DEF Collector, ReadSubmissions, AfterReveal, ReachDeadline, CollectorRefused, ResumeCollecting,
       CollectMiner, OpenDuels, CollectorConflicts, CollectorDone
  <2> QED BY <1>5, <1>6, <1>7, <1>8, <1>9, <1>10, <1>11, <1>12, <1>13, <2>1, <2>2, <2>3, <2>4, <2>5
          DEF Collector

LEMMA JudgeStep ==
  ASSUME IInv, Judge
  PROVE  Follows' /\ (UNCHANGED repo \/ (PassStage /\ ReignStep))
<1> USE InitialTypes
<1>1. NoRunner.queue = {}
  BY DEF NoRunner
<1>2. judge \in JudgeState /\ repo \in Repository
  BY DEF IInv, TypeOK
<1>3. ASSUME UNCHANGED <<repo, collector, manager>>, JudgeFollows'
      PROVE  Follows'
  BY <1>3 DEF IInv, Follows, CollectorFollows, ManagerFollows, ResultFollows
<1>4. ASSUME judge' = NoRunner
      PROVE  JudgeFollows'
  BY <1>1, <1>4 DEF JudgeFollows
<1>5. CASE JudgeStarts
  <2>1. judge'.pc = "running" /\ judge'.round = repo.round /\ judge'.queue = {}
    BY <1>5 DEF JudgeStarts, NoRunner
  <2>2. Stage(repo) = "duels" /\ UNCHANGED <<repo, collector, manager>>
    BY <1>5 DEF JudgeStarts, Stage
  <2> QED BY <1>3, <2>1, <2>2 DEF JudgeFollows
<1>6. CASE JudgeDecides
  <2>1. PICK result \in Outcomes :
          judge' = [judge EXCEPT !.pc = "crowned", !.result = result, !.queue = {"winner"}]
    BY <1>6 DEF JudgeDecides
  <2>2. judge.pc = "running" /\ UNCHANGED <<repo, collector, manager>>
    BY <1>6 DEF JudgeDecides
  <2>3. /\ judge'.pc = "crowned" /\ judge'.round = judge.round /\ judge'.queue = {"winner"}
        /\ judge'.result = result
    BY <2>1, <1>2 DEF JudgeState
  <2>4. judge.round \in Rounds
    BY <2>2 DEF IInv, TypeOK
  <2>5. Defends(result, repo.leaders)
    <3>1. \A s \in repo.submissions[judge.round] : s.miner # "leader"
      BY <2>4, <1>2, CompetitionAssumption DEF Repository, Commitment
    <3> QED BY <2>1, <3>1 DEF Outcomes, Defends
  <2> QED BY <1>3, <2>2, <2>3, <2>5 DEF IInv, Follows, JudgeFollows
<1>7. CASE JudgeEnters
  <2>1. judge' = [judge EXCEPT !.pc = "entered", !.queue = @ \cup {"state"}]
    BY <1>7 DEF JudgeEnters
  <2>2. judge.pc = "crowned" /\ UNCHANGED <<repo, collector, manager>>
    BY <1>7 DEF JudgeEnters
  <2>3. /\ judge'.pc = "entered" /\ judge'.round = judge.round /\ judge'.result = judge.result
        /\ judge'.queue = judge.queue \cup {"state"}
    BY <2>1, <1>2 DEF JudgeState
  <2> QED BY <1>3, <2>2, <2>3 DEF IInv, Follows, JudgeFollows
<1>8. CASE JudgeDone
  BY <1>3, <1>4, <1>8 DEF JudgeDone
<1>9. CASE JudgeConflicts
  <2>1. judge' = NoRunner \/ judge' = [judge EXCEPT !.queue = judge.queue, !.stale = FALSE]
    BY <1>9 DEF JudgeConflicts, JudgeTried
  <2>2. UNCHANGED <<repo, collector, manager>>
    BY <1>9 DEF JudgeConflicts
  <2>3. ASSUME judge' # NoRunner
        PROVE  /\ judge'.pc = judge.pc /\ judge'.round = judge.round
               /\ judge'.queue = judge.queue /\ judge'.result = judge.result
    BY <2>1, <2>3, <1>2 DEF JudgeState
  <2> QED BY <1>3, <1>4, <2>2, <2>3 DEF IInv, Follows, JudgeFollows
<1>10. CASE JudgeLands
  <2>1. PICK self \in JudgeTried({}, FALSE) : JudgeMoves(Judged, self)
    BY <1>10 DEF JudgeLands
  <2>2. /\ Stage(repo) = "duels" /\ judge.round = repo.round
        /\ judge.pc \in {"crowned", "entered"}
        /\ "state" \in judge.queue => judge.pc = "entered"
        /\ "winner" \in judge.queue => Defends(judge.result, repo.leaders)
    BY <1>10 DEF JudgeLands, IInv, Follows, JudgeFollows
  <2>3. /\ repo' = Judged /\ judge' = self
        /\ collector' = Behind(collector) /\ manager' = Behind(manager)
    BY <2>1 DEF JudgeMoves
  <2>4. /\ repo'.round = repo.round /\ repo'.leaders = repo.leaders
        /\ repo'.winner = IF "winner" \in judge.queue
                          THEN [repo.winner EXCEPT ![repo.round] = judge.result] ELSE repo.winner
        /\ Stage(repo') = IF "state" \in judge.queue THEN "finalizing" ELSE Stage(repo)
    BY <2>2, <2>3, JudgedStage DEF IInv
  <2>5. repo.stage # "finished" /\ repo'.stage # "finished"
    BY <2>2, <2>4 DEF Stage
  <2>6. repo.round \in Rounds /\ repo.winner \in [Rounds -> Result]
    BY <1>2 DEF Repository
  <2>7. CollectorFollows' /\ ManagerFollows'
    BY <2>2, <2>3, CollectorKept, ManagerKept
  <2>8. ResultFollows'
    BY <2>2, <2>4, <2>5, <2>6 DEF IInv, Follows, ResultFollows, Rounds
  <2>9. PassStage
    BY <2>2, <2>4 DEF PassStage, StageMachine
  <2>10. ReignStep
    <3>1. \A n \in 1 .. repo.round - 1 : repo'.winner[n] = repo.winner[n]
      BY <2>4, <2>6 DEF Rounds
    <3> QED BY <3>1, <2>4, <2>5, ReignStutter DEF IInv
  <2>11. JudgeFollows'
    <3>1. judge' = NoRunner \/ judge' = [judge EXCEPT !.queue = {}, !.stale = FALSE]
      BY <2>1, <2>3 DEF JudgeTried
    <3>2. ASSUME judge' # NoRunner
          PROVE  judge'.pc = judge.pc /\ judge'.round = judge.round /\ judge'.queue = {}
      BY <3>1, <3>2, <1>2 DEF JudgeState
    <3> QED BY <1>4, <2>2, <2>4, <3>2 DEF JudgeFollows
  <2> QED BY <2>7, <2>8, <2>9, <2>10, <2>11 DEF Follows
<1> QED
  <2>1. UNCHANGED repo \/ JudgeLands
    BY DEF Judge, JudgeStarts, JudgeDecides, JudgeEnters, JudgeConflicts, JudgeDone
  <2> QED BY <1>5, <1>6, <1>7, <1>8, <1>9, <1>10, <2>1 DEF Judge

LEMMA AppendIsFunction ==
  ASSUME NEW S, NEW q \in Seq(S), NEW s \in S
  PROVE  Append(q, s) = [i \in 1 .. Len(q) + 1 |-> IF i = Len(q) + 1 THEN s ELSE q[i]]
<1>1. /\ Append(q, s) \in Seq(S) /\ Len(Append(q, s)) = Len(q) + 1
      /\ \A i \in 1 .. Len(q) : Append(q, s)[i] = q[i]
      /\ Append(q, s)[Len(q) + 1] = s
  BY AppendProperties
<1>2. Append(q, s) = [i \in 1 .. Len(q) + 1 |-> Append(q, s)[i]]
  BY <1>1, LenProperties
<1>3. \A i \in 1 .. Len(q) + 1 : Append(q, s)[i] = IF i = Len(q) + 1 THEN s ELSE q[i]
  BY <1>1, LenProperties
<1> QED BY <1>2, <1>3

\* The round ends with its result, and leader.json changes with it or not.
LEMMA RoundEnds ==
  ASSUME IInv, repo.stage = "finalizing", repo'.winner = repo.winner, Ended' = repo.round,
         repo'.leaders = Crown(repo.leaders, repo.winner[repo.round], manager.start)
  PROVE  ReignStep
<1> DEFINE results == [n \in 1 .. Ended |-> repo.winner[n].source]
<1> DEFINE reign == [i \in 1 .. Len(repo.leaders) |-> repo.leaders[i].source]
<1> DEFINE result == repo.winner[repo.round]
<1> DEFINE s == result.source
<1>1. /\ repo.round \in Nat \ {0} /\ repo.round \in Rounds
      /\ repo.winner \in [Rounds -> Result] /\ result \in Result
      /\ repo.leaders \in Seq(Entry) /\ repo.leaders # <<>>
      /\ manager.start \in Nat /\ 1 .. repo.round \subseteq Rounds
  <2>1. repo \in Repository /\ manager \in ManagerState
    BY DEF IInv, TypeOK
  <2>2. repo.round \in Rounds /\ manager.start \in Nat
    BY <2>1 DEF Repository, ManagerState
  <2>3. repo.winner \in [Rounds -> Result] /\ repo.leaders \in Seq(Entry) /\ repo.leaders # <<>>
    BY <2>1 DEF Repository
  <2>4. repo.round \in Nat \ {0} /\ 1 .. repo.round \subseteq Rounds
    BY <2>2, CompetitionAssumption DEF Rounds
  <2> QED BY <2>2, <2>3, <2>4
<1>2. s \in Sources
  BY <1>1 DEF Result
<1>3. Ended = repo.round - 1
  BY DEF Ended
<1>4. results' = Append(results, s)
  <2>1. results' = [n \in 1 .. repo.round |-> repo.winner[n].source]
    OBVIOUS
  <2>2. results \in Seq(Sources) /\ Len(results) = repo.round - 1
    <3>1. \A n \in 1 .. repo.round - 1 : repo.winner[n].source \in Sources
      BY <1>1 DEF Result
    <3> QED BY <1>1, <1>3, <3>1
  <2>3. Append(results, s) = [n \in 1 .. repo.round |-> IF n = repo.round THEN s ELSE results[n]]
    <3> HIDE DEF results, s
    <3> QED BY <1>1, <1>2, <2>2, AppendIsFunction
  <2>4. \A n \in 1 .. repo.round : n # repo.round => results[n] = repo.winner[n].source
    BY <1>1, <1>3
  <2> HIDE DEF results
  <2> QED BY <1>1, <2>1, <2>3, <2>4
<1>5. /\ reign \in Seq(Sources) /\ Len(reign) = Len(repo.leaders)
      /\ Len(repo.leaders) \in Nat \ {0}
      /\ reign[Len(reign)] = Last(repo.leaders).source
  <2>1. \A i \in 1 .. Len(repo.leaders) : repo.leaders[i].source \in Sources
    <3>1. \A i \in 1 .. Len(repo.leaders) : repo.leaders[i] \in Entry
      BY <1>1, ElementOfSeq
    <3> QED BY <3>1 DEF Entry
  <2>2. Len(repo.leaders) \in Nat \ {0}
    BY <1>1, EmptySeq
  <2> QED BY <1>1, <2>1, <2>2 DEF Last
<1>6. reign' = IF s = reign[Len(reign)] THEN reign ELSE Append(reign, s)
  <2>1. CASE result.hotkey = "leader" \/ s = Last(repo.leaders).source
    <3>1. s = Last(repo.leaders).source
      BY <2>1 DEF IInv, Follows, ResultFollows, Defends
    <3>2. repo'.leaders = repo.leaders
      BY <2>1 DEF Crown
    <3> QED BY <3>1, <3>2, <1>5
  <2>2. CASE ~(result.hotkey = "leader" \/ s = Last(repo.leaders).source)
    <3> DEFINE e == [source |-> s, weight |-> 10, block |-> manager.start]
    <3>1. repo'.leaders = Append(repo.leaders, e)
      BY <2>2 DEF Crown
    <3>2. e \in Entry
      BY <1>1, <1>2 DEF Entry
    <3>3. /\ Len(Append(repo.leaders, e)) = Len(repo.leaders) + 1
          /\ \A i \in 1 .. Len(repo.leaders) : Append(repo.leaders, e)[i] = repo.leaders[i]
          /\ Append(repo.leaders, e)[Len(repo.leaders) + 1] = e
      BY <1>1, <3>2, AppendProperties
    <3>4. reign' = [i \in 1 .. Len(repo.leaders) + 1 |-> Append(repo.leaders, e)[i].source]
      BY <3>1, <3>3
    <3>5. /\ Len(Append(reign, s)) = Len(repo.leaders) + 1
          /\ Append(reign, s) = [i \in 1 .. Len(repo.leaders) + 1 |->
               IF i = Len(repo.leaders) + 1 THEN s ELSE reign[i]]
      BY <1>2, <1>5
    <3>6. \A i \in 1 .. Len(repo.leaders) + 1 :
            Append(repo.leaders, e)[i].source = IF i = Len(repo.leaders) + 1 THEN s ELSE reign[i]
      BY <1>5, <3>3
    <3>7. reign' = Append(reign, s)
      <4> HIDE DEF reign, e
      <4> QED BY <3>4, <3>5, <3>6
    <3> QED BY <2>2, <3>7, <1>5
  <2> QED BY <2>1, <2>2
<1>7. ASSUME NEW p \in Sources, p = s
      PROVE  Promise!EndRound(p)
  BY <1>4, <1>6, <1>7 DEF Promise!EndRound, Promise!Leader
<1>8. Promise!Next
  BY <1>2, <1>7 DEF Promise!Next
<1> QED BY <1>8 DEF ReignStep

LEMMA ManagerStep ==
  ASSUME IInv, Manager \/ ManagerReplyLost
  PROVE  Follows' /\ (UNCHANGED repo \/ (PassStage /\ ReignStep))
<1>1. manager \in ManagerState /\ repo \in Repository /\ repo.round \in Rounds
  BY DEF IInv, TypeOK, Repository
<1>2. CASE ReadResult
  <2>1. repo.stage = "finalizing" /\ UNCHANGED <<repo, collector, judge>>
    BY <1>2 DEF ReadResult
  <2> QED BY <2>1 DEF IInv, Follows, CollectorFollows, JudgeFollows, ManagerFollows, ResultFollows
<1>3. CASE ManagerRefused
  <2>1. manager' = NoPlan /\ UNCHANGED <<repo, collector, judge>>
    BY <1>3 DEF ManagerRefused, RefusedTo
  <2> QED BY <2>1, InitialTypes
          DEF IInv, Follows, CollectorFollows, JudgeFollows, ManagerFollows, ResultFollows
<1>4. CASE AdvanceRound \/ ManagerReplyLost
  <2>1. manager.pc = "commit" /\ ~manager.stale /\ ManagerMoves(NextRound, NoPlan)
    BY <1>4 DEF AdvanceRound, ManagerReplyLost
  <2>2. /\ repo' = NextRound /\ manager' = NoPlan
        /\ collector' = Behind(collector) /\ judge' = Behind(judge)
    BY <2>1 DEF ManagerMoves
  <2>3. repo.stage = "finalizing" /\ Stage(repo) = "finalizing"
    BY <2>1 DEF IInv, Follows, ManagerFollows, Stage
  <2>4. /\ repo'.winner = repo.winner
        /\ repo'.leaders = Crown(repo.leaders, repo.winner[repo.round], manager.start)
        /\ repo.round = LastRound => repo'.stage = "finished" /\ repo'.round = repo.round
        /\ repo.round # LastRound => Stage(repo') = "open" /\ repo'.stage # "finished"
                                     /\ repo'.round = repo.round + 1
    BY <2>2, NextRoundStage DEF IInv
  <2>5. CollectorFollows' /\ JudgeFollows'
    BY <2>2, <2>3, CollectorKept, JudgeKept
  <2>6. ManagerFollows'
    BY <2>2, InitialTypes DEF ManagerFollows
  <2>7. ResultFollows'
    <3>1. repo.round # LastRound => repo.round + 1 \in Rounds
      BY <1>1, CompetitionAssumption DEF Rounds
    <3>2. repo.round # LastRound => repo.winner[repo.round + 1] = Undecided
      BY <3>1, <1>1 DEF IInv, Follows, ResultFollows, Rounds
    <3>3. Undecided.hotkey # "leader"
      BY DEF Undecided
    <3>4. \A n \in Rounds : n > repo'.round => n > repo.round
      BY <1>1, <2>4, CompetitionAssumption DEF Rounds
    <3> QED BY <2>4, <3>2, <3>3, <3>4 DEF IInv, Follows, ResultFollows, Defends
  <2>8. PassStage
    BY <2>3, <2>4 DEF PassStage, StageMachine, Stage
  <2>9. Ended' = repo.round
    BY <1>1, <2>4 DEF Ended, Rounds
  <2>10. ReignStep
    BY <2>3, <2>4, <2>9, RoundEnds
  <2> QED BY <2>5, <2>6, <2>7, <2>8, <2>10 DEF Follows
<1> QED BY <1>2, <1>3, <1>4 DEF Manager

LEMMA OtherStep ==
  ASSUME IInv, Abort \/ NewBlock \/ Hold \/ Release \/ Over
  PROVE  Follows' /\ (UNCHANGED repo \/ (PassStage /\ ReignStep))
<1>1. collector \in CollectorState /\ judge \in JudgeState /\ manager \in ManagerState
      /\ repo \in Repository
  BY DEF IInv, TypeOK
<1>2. CASE Abort
  <2>1. /\ UNCHANGED repo /\ collector' \in {collector, NoWork} /\ judge' \in {judge, NoRunner}
        /\ manager' \in {manager, NoPlan}
    BY <1>2 DEF Abort
  <2>2. NoWork.queue = {} /\ NoRunner.queue = {}
    BY DEF NoWork, NoRunner
  <2>3. CollectorFollows'
    BY <2>1, <2>2, InitialTypes DEF IInv, Follows, CollectorFollows
  <2>4. JudgeFollows'
    BY <2>1, <2>2, InitialTypes DEF IInv, Follows, JudgeFollows
  <2>5. ManagerFollows' /\ ResultFollows'
    BY <2>1, InitialTypes DEF IInv, Follows, ManagerFollows, ResultFollows
  <2> QED BY <2>1, <2>3, <2>4, <2>5 DEF Follows
<1>3. CASE NewBlock \/ Over
  <2>1. UNCHANGED <<repo, collector, judge, manager>>
    BY <1>3 DEF NewBlock, Over, services, vars
  <2> QED BY <2>1 DEF IInv, Follows, CollectorFollows, JudgeFollows, ManagerFollows, ResultFollows
<1>4. CASE Hold \/ Release
  <2>1. /\ SameFiles(repo', repo) /\ Stage(repo') = Stage(repo)
        /\ repo.stage # "finished" /\ repo'.stage # "finished"
    <3>1. CASE Hold
      <4>1. repo' = [repo EXCEPT !.stage = "paused", !.held = repo.stage]
            /\ repo.stage \notin {"paused", "finished"}
        BY <3>1 DEF Hold, OperatorMoves
      <4> QED BY <1>1, <4>1 DEF Repository, SameFiles, Stage
    <3>2. CASE Release
      <4>1. repo' = Enter(repo, repo.held) /\ repo.stage = "paused" /\ repo.held \in Active
        BY <3>2 DEF Release, OperatorMoves, IInv, HeldIsActive
      <4>2. Stage(repo) = repo.held /\ Enter(repo, repo.held).stage = repo.held
            /\ Stage(Enter(repo, repo.held)) = repo.held /\ SameFiles(Enter(repo, repo.held), repo)
        BY <1>1, <4>1, EnterStage DEF Stage
      <4> QED BY <4>1, <4>2 DEF Active
    <3> QED BY <1>4, <3>1, <3>2
  <2>2. collector' = Behind(collector) /\ judge' = Behind(judge) /\ manager' = Behind(manager)
    BY <1>4 DEF Hold, Release, OperatorMoves
  <2>3. repo'.round = repo.round /\ repo'.leaders = repo.leaders /\ repo'.winner = repo.winner
    BY <2>1 DEF SameFiles
  <2>4. Follows'
    BY <2>1, <2>2, <2>3, CollectorKept, JudgeKept, ManagerKept, ResultKept DEF Follows
  <2>5. PassStage /\ ReignStep
    BY <2>1, <2>3, ReignStutter DEF PassStage, IInv
  <2> QED BY <2>4, <2>5
<1> QED BY <1>2, <1>3, <1>4

-----------------------------------------------------------------------------
(* The theorems.                                                           *)

LEMMA InitialFollows == Init => IInv /\ Promise!Init
<1> SUFFICES ASSUME Init PROVE IInv /\ Promise!Init
  OBVIOUS
<1>1. repo.round = 1 /\ repo.stage = "open" /\ repo.winner = [n \in Rounds |-> Undecided]
      /\ repo.leaders = <<[source |-> First, weight |-> 10, block |-> 0]>>
  BY DEF Init
<1>2. TypeOK /\ HeldIsActive
  BY InitialType
<1>3. 1 \in Rounds
  BY CompetitionAssumption DEF Rounds
<1>4. ResultFollows
  BY <1>1, <1>3 DEF ResultFollows, Defends, Undecided
<1>5. CollectorFollows /\ JudgeFollows /\ ManagerFollows
  BY DEF Init, CollectorFollows, JudgeFollows, ManagerFollows, NoWork, NoRunner, NoPlan
<1>6. Promise!Init
  <2>1. Ended = 0
    BY <1>1 DEF Ended
  <2>2. [n \in 1 .. Ended |-> repo.winner[n].source] = <<>>
    BY <2>1
  <2>3. [i \in 1 .. Len(repo.leaders) |-> repo.leaders[i].source] = <<First>>
    BY <1>1
  <2> QED BY <2>2, <2>3 DEF Promise!Init
<1> QED BY <1>2, <1>4, <1>5, <1>6 DEF IInv, Follows

\* A batcher's lost reply is counted and never forgotten.
LEMMA LostGrows ==
  ASSUME TypeOK, [Next]_vars
  PROVE  lost' = 0 => lost = 0 /\ ~CollectorLandsUnseen /\ ~JudgeLandsUnseen
<1>1. lost \in Nat
  BY CompetitionAssumption DEF TypeOK
<1>2. CollectorLandsUnseen \/ JudgeLandsUnseen => lost' = lost + 1
  BY DEF CollectorLandsUnseen, JudgeLandsUnseen
<1>3. Collector => lost' = lost
  BY DEF counters, Collector, ReadSubmissions, AfterReveal, PublishSubmissions, ReachDeadline,
     StartCollecting, CollectorRefused, ResumeCollecting, CollectMiner, OpenDuels,
     CollectorLands, CollectorConflicts, CollectorDone
<1>4. Judge \/ Manager => lost' = lost
  BY DEF counters, Judge, JudgeStarts, JudgeDecides, JudgeEnters, JudgeLands, JudgeConflicts,
     JudgeDone, Manager, ReadResult, AdvanceRound, ManagerRefused, RefusedTo
<1>5. CollectorReplyLost \/ ManagerReplyLost \/ Abort => lost' = lost
  BY DEF CollectorReplyLost, ManagerReplyLost, Abort, Fault
<1>6. NewBlock \/ Hold \/ Release \/ Over \/ UNCHANGED vars => lost' = lost
  BY DEF vars, counters, NewBlock, Hold, Release, OperatorMoves, Over
<1>7. lost' = lost \/ lost' = lost + 1
  BY <1>2, <1>3, <1>4, <1>5, <1>6 DEF Next, Failures
<1> QED BY <1>1, <1>2, <1>7

LEMMA Step ==
  ASSUME lost' = 0, IInv, [Next]_vars
  PROVE  IInv' /\ (UNCHANGED repo \/ (PassStage /\ ReignStep))
<1>1. CASE UNCHANGED vars
  BY <1>1, TypeStep DEF vars, IInv, Follows, CollectorFollows, JudgeFollows, ManagerFollows, ResultFollows
<1>2. CASE Next
  <2>1. ~CollectorLandsUnseen /\ ~JudgeLandsUnseen
    BY <1>2, LostGrows DEF IInv
  <2>2. Follows' /\ (UNCHANGED repo \/ (PassStage /\ ReignStep))
    BY <1>2, <2>1, CollectorStep, JudgeStep, ManagerStep, OtherStep DEF Next, Failures
  <2>3. TypeOK' /\ HeldIsActive'
    BY <1>2, TypeStep DEF IInv
  <2> QED BY <2>2, <2>3 DEF IInv
<1> QED BY <1>1, <1>2

Commits == TypeOK /\ HeldIsActive /\ (lost = 0 => IInv)

\* A commit that is not stale finds the round in the stage it was prepared
\* for, over all interleavings of the services and the operator, as long as no
\* reply of a batcher's commit has been lost.
THEOREM CommitsFollow == Spec => []Commits
<1>1. Init => Commits
  BY InitialFollows, InitialType DEF Commits
<1>2. Commits /\ [Next]_vars => Commits'
  <2> SUFFICES ASSUME Commits, [Next]_vars PROVE Commits'
    OBVIOUS
  <2>1. TypeOK' /\ HeldIsActive'
    BY TypeStep DEF Commits
  <2>2. lost' = 0 => IInv'
    BY LostGrows, Step DEF Commits
  <2> QED BY <2>1, <2>2 DEF Commits
<1> QED BY <1>1, <1>2, PTL DEF Spec

\* The stages are passed in the order of the stage machine and the round
\* number moves only with a new OPEN (README.md:30-46).
THEOREM StagesAreInOrder == Spec => StagesInOrder
<1>1. Commits /\ [Next]_vars => [lost' = 0 => PassStage]_repo
  BY LostGrows, Step DEF Commits
<1> QED BY <1>1, CommitsFollow, PTL DEF Spec, StagesInOrder

\* Each round is ended once, its result stands, and leader.json changes with
\* it or not at all (finalize_round.py:84-109, 214-272).
THEOREM CompetitionIsReign == Spec => IsReign
<1>1. Commits /\ [Next]_vars => [lost' = 0 => [Promise!Next]_(Promise!vars)]_repo
  <2> SUFFICES ASSUME Commits, [Next]_vars, lost' = 0 PROVE [[Promise!Next]_(Promise!vars)]_repo
    OBVIOUS
  <2>1. UNCHANGED repo => UNCHANGED Promise!vars
    BY DEF Promise!vars, Ended
  <2> QED BY <2>1, LostGrows, Step DEF Commits, ReignStep
<1> QED BY <1>1, InitialFollows, CommitsFollow, PTL DEF Spec, IsReign

-----------------------------------------------------------------------------
(***************************************************************************)
(* The windows, the admissions and the leaders, in numbers of blocks: the  *)
(* files of a round against the schedule, the chain and what the services  *)
(* read before they commit.                                                *)
(***************************************************************************)
\* Who is admitted in S revealed nothing later in the window that ends at l.
Admits(S, l) ==
  \A s \in S, r \in reveals : r.miner = s.miner /\ r.block <= l => r.block <= s.block

\* A round's files appear after its window, and never before the round.
FilesFit ==
  /\ \A r \in reveals : r.block <= block
  /\ Stage(repo) # "open" => block >= Schedule.latest
  /\ \A n \in Rounds : /\ repo.submissions[n] # {} => block >= repo.schedule[n].latest
                       /\ n > repo.round => repo.submissions[n] = {}
                       /\ Admits(repo.submissions[n], repo.schedule[n].latest)
  /\ Stage(repo) = "open" => repo.submissions[repo.round] = {}

\* What is read before a commit that can still succeed.
PlansFit ==
  /\ collector.pc = "publish" /\ ~collector.stale =>
       block >= Schedule.latest /\ Admits(collector.subs, Schedule.latest)
  /\ manager.pc = "commit" /\ ~manager.stale => manager.start > Schedule.latest

LeaderOfLast(i) == repo.stage = "finished" /\ i = Len(repo.leaders)
LeadersFit ==
  /\ \A i \in 1 .. Len(repo.leaders) :
       repo.leaders[i].block <= Schedule.latest \/ LeaderOfLast(i)
  /\ \A i \in 2 .. Len(repo.leaders) :
       /\ repo.leaders[i].block > repo.leaders[i - 1].block
       /\ LeaderOfLast(i) \/ \E n \in 1 .. repo.round : repo.schedule[n].latest = repo.leaders[i].block

Fits == FilesFit /\ PlansFit /\ LeadersFit

\* The fields that these speak of.
SameRound(r, q) ==
  r.round = q.round /\ r.schedule = q.schedule /\ r.submissions = q.submissions /\ r.leaders = q.leaders

LEMMA EnterRound ==
  ASSUME NEW r \in Repository, NEW stage
  PROVE  SameRound(Enter(r, stage), r) /\ SameRound(EnterOrPause(r, stage), r)
BY DEF Enter, EnterOrPause, Repository, SameRound

LEMMA PublicationRound ==
  ASSUME TypeOK, collector.pc = "publish"
  PROVE  /\ Publication.round = repo.round /\ Publication.schedule = repo.schedule
         /\ Publication.leaders = repo.leaders
         /\ Publication.submissions = IF collector.subs = {} THEN repo.submissions
                                      ELSE [repo.submissions EXCEPT ![collector.round] = collector.subs]
<1>1. repo \in Repository
  BY DEF TypeOK
<1> DEFINE r == Enter(repo, "miner_generation")
<1>2. r \in Repository /\ SameRound(r, repo) /\ SameRound(Enter(repo, "finalizing"), repo)
  BY <1>1, EnterType, EnterRound DEF Stages
<1> DEFINE q == [r EXCEPT !.submissions[collector.round] = collector.subs]
<1>3. /\ q.round = r.round /\ q.schedule = r.schedule /\ q.leaders = r.leaders
      /\ q.submissions = [r.submissions EXCEPT ![collector.round] = collector.subs]
  BY <1>2 DEF Repository
<1>4. Publication = IF collector.subs = {} THEN Enter(repo, "finalizing") ELSE q
  BY DEF Publication, PublicationEntering
<1> HIDE DEF q, r
<1> QED BY <1>2, <1>3, <1>4 DEF SameRound

LEMMA CollectedRound ==
  ASSUME TypeOK, collector.pc # "idle", collector.round = repo.round
  PROVE  SameRound(Collected, repo)
<1> DEFINE files == [repo EXCEPT !.generated[collector.round] = @ \cup (collector.queue \cap Miners)]
<1>1. repo \in Repository /\ collector.round \in Rounds
  BY DEF TypeOK
<1>2. files \in Repository /\ SameRound(files, repo)
  BY <1>1 DEF Repository, SameRound
<1> DEFINE r == Enter(files, "duels")
<1> DEFINE q == [r EXCEPT !.round = collector.round]
<1>3. SameRound(r, files) /\ r \in Repository
  BY <1>2, EnterRound, EnterType DEF Stages
<1>4. SameRound(q, repo)
  BY <1>2, <1>3 DEF Repository, SameRound
<1>5. Collected = IF "state" \in collector.queue THEN q ELSE files
  BY DEF Collected
<1> HIDE DEF files, r, q
<1> QED BY <1>2, <1>4, <1>5

LEMMA JudgedRound ==
  ASSUME TypeOK, judge.pc # "idle", judge.round = repo.round
  PROVE  SameRound(Judged, repo)
<1> DEFINE files == IF "winner" \in judge.queue
                    THEN [repo EXCEPT !.winner[judge.round] = judge.result] ELSE repo
<1>1. repo \in Repository /\ judge.round \in Rounds /\ judge.result \in Result
  BY DEF TypeOK, JudgeState
<1>2. files \in Repository /\ SameRound(files, repo)
  BY <1>1 DEF Repository, SameRound
<1> DEFINE r == EnterOrPause(files, "finalizing")
<1> DEFINE q == [r EXCEPT !.round = judge.round]
<1>3. SameRound(r, files) /\ r \in Repository
  BY <1>2, EnterRound, EnterType DEF Stages
<1>4. SameRound(q, repo)
  BY <1>2, <1>3 DEF Repository, SameRound
<1>5. Judged = IF "state" \in judge.queue THEN q ELSE files
  BY DEF Judged
<1> HIDE DEF files, r, q
<1> QED BY <1>2, <1>4, <1>5

LEMMA NextRoundRound ==
  ASSUME TypeOK
  PROVE  /\ NextRound.submissions = repo.submissions
         /\ NextRound.schedule = IF repo.round = LastRound THEN repo.schedule
                ELSE [repo.schedule EXCEPT ![repo.round + 1] = Window(Schedule, manager.start)]
<1> DEFINE after == Crown(repo.leaders, repo.winner[repo.round], manager.start)
<1> DEFINE crowned == [repo EXCEPT !.leaders = after]
<1>1. repo \in Repository /\ repo.round \in Rounds /\ repo.winner[repo.round] \in Result
      /\ repo.leaders \in Seq(Entry) \ {<<>>} /\ manager.start \in Nat
  BY DEF TypeOK, Repository, ManagerState
<1>2. after \in Seq(Entry) \ {<<>>}
  BY <1>1, CrownType
<1> HIDE DEF after
<1>3. /\ crowned \in Repository /\ crowned.round = repo.round
      /\ crowned.schedule = repo.schedule /\ crowned.submissions = repo.submissions
  BY <1>1, <1>2 DEF Repository
<1> HIDE DEF crowned
<1> DEFINE r == EnterOrPause(crowned, "open")
<1> DEFINE q == [r EXCEPT !.round = repo.round + 1,
                          !.schedule[repo.round + 1] = Window(Schedule, manager.start)]
<1>4. SameRound(r, crowned) /\ r \in Repository /\ SameRound(Enter(crowned, "finished"), crowned)
  BY <1>3, EnterRound, EnterType DEF Stages
<1> HIDE DEF r
<1>5. /\ q.submissions = r.submissions
      /\ q.schedule = [r.schedule EXCEPT ![repo.round + 1] = Window(Schedule, manager.start)]
  BY <1>4 DEF Repository
<1>6. NextRound = IF repo.round = LastRound THEN Enter(crowned, "finished") ELSE q
  BY DEF NextRound, crowned, after, r
<1> HIDE DEF q
<1> QED BY <1>3, <1>4, <1>5, <1>6 DEF SameRound

\* A publication, once there, is left alone.
Stands == \A n \in Rounds : repo.submissions[n] # {} => repo'.submissions[n] = repo.submissions[n]

\* Steps that change no number: the round stays as it is, and a service that
\* did not look at the branch and the chain has no new plan.
LEMMA QuietFits ==
  ASSUME IInv, Fits, UNCHANGED <<block, reveals>>,
         \/ repo' = repo
         \/ /\ SameRound(repo', repo) /\ repo.stage # "finished" /\ repo'.stage # "finished"
            /\ (Stage(repo') = "open") <=> (Stage(repo) = "open"),
         collector'.pc = "publish" /\ ~collector'.stale => repo' = repo /\ collector' = collector,
         manager'.pc = "commit" /\ ~manager'.stale => repo' = repo /\ manager' = manager
  PROVE  Fits' /\ Stands
<1>1. SameRound(repo', repo) /\ Schedule' = Schedule
  BY DEF SameRound, Schedule
<1>2. (Stage(repo') = "open") <=> (Stage(repo) = "open")
  OBVIOUS
<1>3. (repo'.stage = "finished") <=> (repo.stage = "finished")
  OBVIOUS
<1>4. FilesFit'
  BY <1>1, <1>2 DEF Fits, FilesFit, Admits, SameRound
<1>5. PlansFit'
  BY <1>1 DEF Fits, PlansFit, Admits
<1>6. LeadersFit'
  BY <1>1, <1>3 DEF Fits, LeadersFit, LeaderOfLast, SameRound
<1>7. Stands
  BY <1>1 DEF Stands, SameRound
<1> QED BY <1>4, <1>5, <1>6, <1>7 DEF Fits

LEMMA BlockFits ==
  ASSUME IInv, Fits, NewBlock
  PROVE  Fits' /\ Stands
<1>1. UNCHANGED <<repo, collector, judge, manager>> /\ block' = block + 1 /\ block \in Nat
  BY DEF NewBlock, services, IInv, TypeOK
<1>2. PICK S \in SUBSET Miners, source \in Sources :
        reveals' = reveals \cup {[miner |-> m, block |-> block + 1, source |-> source] : m \in S}
  BY DEF NewBlock
<1>3. /\ reveals \subseteq Commitment /\ repo \in Repository /\ collector \in CollectorState
      /\ \A r \in reveals' \ reveals : r.block = block + 1
  BY <1>2 DEF IInv, TypeOK
<1>4. \A r \in reveals : r.block \in Nat
  BY <1>3 DEF Commitment
<1>5. \A n \in Rounds : repo.schedule[n].latest \in Nat
  BY <1>3 DEF Repository
<1>6. Schedule.latest \in Nat
  BY <1>3, <1>5 DEF Schedule, Repository
<1>7. FilesFit'
  <2>1. \A r \in reveals' : r.block <= block'
    BY <1>1, <1>3, <1>4 DEF Fits, FilesFit
  <2>2. ASSUME NEW n \in Rounds
        PROVE  Admits(repo.submissions[n], repo.schedule[n].latest)'
    <3>1. CASE repo.submissions[n] = {}
      BY <1>1, <3>1 DEF Admits
    <3>2. CASE repo.submissions[n] # {}
      <4>1. repo.schedule[n].latest <= block /\ Admits(repo.submissions[n], repo.schedule[n].latest)
        BY <3>2 DEF Fits, FilesFit
      <4>2. \A t \in repo.submissions[n], r \in reveals' :
              r.miner = t.miner /\ r.block <= repo.schedule[n].latest => r.block <= t.block
        BY <1>1, <1>3, <1>5, <4>1 DEF Admits
      <4> QED BY <1>1, <4>1, <4>2 DEF Admits
    <3> QED BY <3>1, <3>2
  <2>3. Stage(repo') # "open" => block' >= Schedule'.latest
    BY <1>1, <1>6 DEF Fits, FilesFit, Schedule
  <2>4. \A n \in Rounds : repo'.submissions[n] # {} => block' >= repo'.schedule[n].latest
    BY <1>1, <1>5 DEF Fits, FilesFit
  <2> QED BY <1>1, <2>1, <2>2, <2>3, <2>4 DEF Fits, FilesFit
<1>8. PlansFit'
  <2>1. ASSUME collector.pc = "publish", ~collector.stale
        PROVE  block' >= Schedule.latest /\ Admits(collector.subs, Schedule.latest)'
    <3>1. block >= Schedule.latest /\ Admits(collector.subs, Schedule.latest)
      BY <2>1 DEF Fits, PlansFit
    <3>2. \A t \in collector.subs, r \in reveals' :
            r.miner = t.miner /\ r.block <= Schedule.latest => r.block <= t.block
      BY <1>1, <1>3, <1>6, <3>1 DEF Admits
    <3> QED BY <1>1, <1>6, <3>1, <3>2 DEF Admits, Schedule
  <2> QED BY <1>1, <2>1 DEF Fits, PlansFit, Schedule
<1>9. LeadersFit' /\ Stands
  BY <1>1 DEF Fits, LeadersFit, LeaderOfLast, Schedule, Stands
<1> QED BY <1>7, <1>8, <1>9 DEF Fits

LEMMA ReadFits ==
  ASSUME IInv, Fits, ReadSubmissions
  PROVE  Fits' /\ Stands
<1>1. UNCHANGED <<repo, block, reveals, manager>> /\ block >= Schedule.latest
  BY DEF ReadSubmissions, AfterReveal
<1>2. PICK admitted \in SUBSET Latest :
        collector' = [NoWork EXCEPT !.pc = "publish", !.round = repo.round, !.subs = admitted]
  BY DEF ReadSubmissions, AfterReveal
<1>3. collector'.subs = admitted
  BY <1>2 DEF NoWork
<1>4. Admits(admitted, Schedule.latest)
  <2> SUFFICES ASSUME NEW t \in admitted, NEW r \in reveals,
                      r.miner = t.miner, r.block <= Schedule.latest
               PROVE  r.block <= t.block
    BY DEF Admits
  <2>1. t \in Revealed /\ \A q \in Revealed : q.miner = t.miner => q.block <= t.block
    BY DEF Latest
  <2>2. CASE r \in Revealed
    BY <2>1, <2>2
  <2>3. CASE r \notin Revealed
    <3>1. r.block \in Nat /\ t.block \in Nat /\ Schedule.earliest \in Nat
      BY <2>1 DEF IInv, TypeOK, Commitment, Revealed, Schedule, Repository
    <3>2. ~(r.block >= Schedule.earliest) /\ t.block >= Schedule.earliest
      BY <2>1, <2>3 DEF Revealed
    <3> QED BY <3>1, <3>2
  <2> QED BY <2>2, <2>3
<1>5. PlansFit'
  <2>1. Schedule' = Schedule
    BY <1>1 DEF Schedule
  <2>2. Admits(collector'.subs, Schedule.latest)
    BY <1>3, <1>4
  <2> QED BY <1>1, <2>1, <2>2 DEF Fits, PlansFit, Admits
<1>6. FilesFit' /\ LeadersFit' /\ Stands
  BY <1>1 DEF Fits, FilesFit, LeadersFit, LeaderOfLast, Schedule, Stands, Admits
<1> QED BY <1>5, <1>6 DEF Fits

LEMMA PlanFits ==
  ASSUME IInv, Fits, ReadResult
  PROVE  Fits' /\ Stands
<1>1. UNCHANGED <<repo, block, reveals, collector>> /\ repo.stage = "finalizing"
  BY DEF ReadResult
<1>2. PICK delay \in Delays : manager' = [pc |-> "commit", stale |-> FALSE, start |-> block + delay]
  BY DEF ReadResult
<1>3. block \in Nat /\ Schedule.latest \in Nat /\ delay \in Nat \ {0}
  BY CompetitionAssumption DEF IInv, TypeOK, Repository, Schedule
<1>4. block >= Schedule.latest
  BY <1>1 DEF Fits, FilesFit, Stage
<1>5. manager'.start > Schedule.latest
  BY <1>2, <1>3, <1>4
<1>6. PlansFit'
  BY <1>1, <1>5 DEF Fits, PlansFit, Admits, Schedule
<1>7. FilesFit' /\ LeadersFit' /\ Stands
  BY <1>1 DEF Fits, FilesFit, LeadersFit, LeaderOfLast, Schedule, Stands, Admits
<1> QED BY <1>6, <1>7 DEF Fits

\* The commits of the round's submissions, and of its end.
LEMMA PublicationFits ==
  ASSUME IInv, Fits, UNCHANGED <<block, reveals>>, collector.pc = "publish", ~collector.stale,
         CollectorMoves(Publication, NoWork)
  PROVE  Fits' /\ Stands
<1>1. repo' = Publication /\ collector' = NoWork /\ manager' = Behind(manager)
  BY DEF CollectorMoves
<1>2. repo.stage = "open" /\ Stage(repo) = "open" /\ collector.round = repo.round
  BY DEF IInv, Follows, CollectorFollows, Stage
<1>3. repo \in Repository /\ repo.round \in Rounds /\ repo.submissions \in [Rounds -> SUBSET Commitment]
  BY DEF IInv, TypeOK, Repository
<1>4. /\ repo'.round = repo.round /\ repo'.schedule = repo.schedule /\ repo'.leaders = repo.leaders
      /\ repo'.submissions = IF collector.subs = {} THEN repo.submissions
                             ELSE [repo.submissions EXCEPT ![repo.round] = collector.subs]
  BY <1>1, <1>2, PublicationRound DEF IInv
<1>5. Stage(repo') \in {"finalizing", "miner_generation"}
  BY <1>1, PublicationStage DEF IInv
<1>6. block >= Schedule.latest /\ Admits(collector.subs, Schedule.latest)
      /\ repo.submissions[repo.round] = {}
  BY <1>2 DEF Fits, PlansFit, FilesFit
<1>7. Schedule' = Schedule /\ Schedule = repo.schedule[repo.round]
  BY <1>4 DEF Schedule
<1>8. \A n \in Rounds : \/ repo'.submissions[n] = repo.submissions[n]
                        \/ n = repo.round /\ repo'.submissions[n] = collector.subs
  BY <1>3, <1>4
<1>9. FilesFit'
  <2>1. ASSUME NEW n \in Rounds
        PROVE  /\ repo'.submissions[n] # {} => block' >= repo'.schedule[n].latest
               /\ n > repo'.round => repo'.submissions[n] = {}
               /\ Admits(repo.submissions[n], repo.schedule[n].latest)'
    <3>1. CASE repo'.submissions[n] = repo.submissions[n]
      BY <1>4, <3>1 DEF Fits, FilesFit, Admits
    <3>2. CASE n = repo.round /\ repo'.submissions[n] = collector.subs
      <4>1. ~(n > repo.round)
        BY <1>3, <3>2 DEF Rounds
      <4> QED BY <1>4, <1>6, <1>7, <3>2, <4>1 DEF Admits
    <3> QED BY <1>8, <3>1, <3>2
  <2>2. \A r \in reveals' : r.block <= block'
    BY DEF Fits, FilesFit
  <2> QED BY <1>5, <1>6, <1>7, <2>1, <2>2 DEF FilesFit
<1>10. PlansFit'
  <2>1. collector'.pc # "publish"
    BY <1>1 DEF NoWork
  <2>2. manager'.pc = "commit" => manager'.stale
    BY <1>1 DEF Behind, IInv, TypeOK, ManagerState
  <2> QED BY <2>1, <2>2 DEF PlansFit
<1>11. LeadersFit'
  <2>1. repo.stage # "finished" /\ repo'.stage # "finished"
    BY <1>2, <1>5 DEF Stage
  <2> QED BY <1>4, <1>7, <2>1, SMTT(30) DEF Fits, LeadersFit, LeaderOfLast
<1>12. Stands
  BY <1>6, <1>8 DEF Stands
<1> QED BY <1>9, <1>10, <1>11, <1>12 DEF Fits

\* For comparisons with the next state's numbers.
LEMMA NotLater ==
  ASSUME NEW a \in Nat, NEW b \in Nat, NEW c \in Nat, a <= b, b <= c
  PROVE  a <= a /\ a <= c
OBVIOUS

\* The commit of a round's end, with the next round's schedule.
LEMMA RoundFits ==
  ASSUME IInv, Fits, UNCHANGED <<block, reveals>>, manager.pc = "commit", ~manager.stale,
         ManagerMoves(NextRound, NoPlan)
  PROVE  Fits' /\ Stands
<1>1. repo' = NextRound /\ manager' = NoPlan /\ collector' = Behind(collector)
  BY DEF ManagerMoves
<1>2. repo.stage = "finalizing" /\ manager.start > Schedule.latest
  BY DEF IInv, Follows, ManagerFollows, Fits, PlansFit
<1>3. /\ repo \in Repository /\ repo.round \in Rounds /\ manager.start \in Nat
      /\ repo.schedule \in [Rounds -> [earliest : Nat, latest : Nat]] /\ Schedule.latest \in Nat
      /\ repo.leaders \in Seq(Entry) /\ repo.leaders # <<>> /\ Rounds = 1 .. LastRound
      /\ repo.winner[repo.round] \in Result /\ LastRound \in Nat \ {0}
  BY CompetitionAssumption DEF IInv, TypeOK, Repository, Schedule, ManagerState, Rounds
<1>4. /\ repo'.leaders = Crown(repo.leaders, repo.winner[repo.round], manager.start)
      /\ repo.round = LastRound => repo'.stage = "finished" /\ repo'.round = repo.round
      /\ repo.round # LastRound => Stage(repo') = "open" /\ repo'.stage # "finished"
                                   /\ repo'.round = repo.round + 1
  BY <1>1, NextRoundStage DEF IInv
<1>5. /\ repo'.submissions = repo.submissions
      /\ repo'.schedule = IF repo.round = LastRound THEN repo.schedule
           ELSE [repo.schedule EXCEPT ![repo.round + 1] = Window(Schedule, manager.start)]
  BY <1>1, NextRoundRound DEF IInv
<1>6. Window(Schedule, manager.start).latest = manager.start
  BY DEF Window
<1>7. \A n \in Rounds : n # repo.round + 1 => repo'.schedule[n] = repo.schedule[n]
  BY <1>3, <1>5
<1>8. repo.round # LastRound =>
        repo.round + 1 \in Rounds /\ Schedule'.latest = manager.start
        /\ repo'.schedule[repo.round + 1].latest = manager.start
  <2> SUFFICES ASSUME repo.round # LastRound
               PROVE  /\ repo.round + 1 \in Rounds /\ Schedule'.latest = manager.start
                      /\ repo'.schedule[repo.round + 1].latest = manager.start
    OBVIOUS
  <2>1. repo.round + 1 \in Rounds
    BY <1>3
  <2>2. repo'.schedule[repo.round + 1] = Window(Schedule, manager.start)
    <3>1. repo'.schedule = [repo.schedule EXCEPT ![repo.round + 1] = Window(Schedule, manager.start)]
      BY <1>5
    <3> QED BY <1>3, <2>1, <3>1
  <2>3. repo'.round = repo.round + 1
    BY <1>4
  <2>4. Schedule' = repo'.schedule[repo.round + 1]
    BY <2>3 DEF Schedule
  <2> QED BY <1>6, <2>1, <2>2, <2>4
<1>9. repo.round = LastRound => Schedule' = Schedule
  BY <1>4, <1>5 DEF Schedule
<1>10. FilesFit'
  <2>1. Stage(repo') # "open" => block' >= Schedule'.latest
    BY <1>2, <1>4, <1>9 DEF Fits, FilesFit, Stage
  <2>2. Stage(repo') = "open" => repo'.submissions[repo'.round] = {}
    <3>1. repo.round = LastRound => Stage(repo') # "open"
      BY <1>4 DEF Stage
    <3>2. repo.round # LastRound => repo.submissions[repo.round + 1] = {}
      <4>1. repo.round + 1 > repo.round
        BY <1>3
      <4> QED BY <1>8, <4>1 DEF Fits, FilesFit
    <3> QED BY <1>4, <1>5, <3>1, <3>2
  <2>3. ASSUME NEW n \in Rounds
        PROVE  /\ repo'.submissions[n] # {} => block' >= repo'.schedule[n].latest
               /\ n > repo'.round => repo'.submissions[n] = {}
               /\ Admits(repo.submissions[n], repo.schedule[n].latest)'
    <3>1. n > repo'.round => n > repo.round
      BY <1>3, <1>4
    <3>2. n = repo.round + 1 => repo.submissions[n] = {}
      BY <1>3, SMTT(30) DEF Fits, FilesFit
    <3>3. CASE n = repo.round + 1
      BY <1>5, <3>2, <3>3 DEF Admits
    <3>4. CASE n # repo.round + 1
      BY <1>5, <1>7, <3>1, <3>4 DEF Fits, FilesFit, Admits
    <3> QED BY <3>3, <3>4
  <2>4. \A r \in reveals' : r.block <= block'
    BY DEF Fits, FilesFit
  <2> QED BY <2>1, <2>2, <2>3, <2>4 DEF FilesFit
<1>11. PlansFit'
  <2>1. manager'.pc # "commit"
    BY <1>1 DEF NoPlan
  <2>2. collector'.pc = "publish" => collector'.stale
    BY <1>1 DEF Behind, IInv, TypeOK, CollectorState
  <2> QED BY <2>1, <2>2 DEF PlansFit
<1>12. LeadersFit'
  <2> DEFINE q == repo.leaders
  <2> DEFINE k == Len(repo.leaders)
  <2> DEFINE e == [source |-> repo.winner[repo.round].source, weight |-> 10, block |-> manager.start]
  <2>1. k \in Nat \ {0} /\ \A i \in 1 .. k : q[i] \in Entry /\ q[i].block \in Nat
    <3>1. k \in Nat \ {0}
      BY <1>3, EmptySeq
    <3>2. \A i \in 1 .. k : q[i] \in Entry
      BY <1>3, ElementOfSeq
    <3> QED BY <3>1, <3>2 DEF Entry
  <2>2. /\ \A i \in 1 .. k : q[i].block <= Schedule.latest
        /\ \A i \in 2 .. k : /\ q[i].block > q[i - 1].block
                             /\ \E n \in 1 .. repo.round : repo.schedule[n].latest = q[i].block
    BY <1>2 DEF Fits, LeadersFit, LeaderOfLast
  <2>3. \A n \in 1 .. repo.round : n \in 1 .. repo'.round /\ repo'.schedule[n] = repo.schedule[n]
    BY <1>3, <1>4, <1>7
  <2>4. Schedule'.latest \in Nat /\ Schedule.latest <= Schedule'.latest
        /\ (repo.round # LastRound => Schedule'.latest = manager.start)
    BY <1>2, <1>3, <1>8, <1>9
  <2>5. CASE repo'.leaders = q
    <3>1. Len(repo'.leaders) = k /\ \A i \in 1 .. k : repo'.leaders[i] = q[i]
      BY <2>5
    <3> HIDE DEF q, k
    <3>2. ASSUME NEW i \in 1 .. k
          PROVE  repo'.leaders[i].block <= Schedule'.latest
      BY <1>3, <2>1, <2>2, <2>4, <3>1, NotLater
    <3>3. \A i \in 2 .. k : i \in 1 .. k /\ i - 1 \in 1 .. k
      BY <2>1
    <3>4. \A i \in 2 .. k :
            /\ repo'.leaders[i].block > repo'.leaders[i - 1].block
            /\ \E n \in 1 .. repo'.round : repo'.schedule[n].latest = repo'.leaders[i].block
      BY <2>2, <2>3, <3>1, <3>3
    <3> QED BY <3>1, <3>2, <3>4 DEF LeadersFit
  <2>6. CASE repo'.leaders = Append(q, e)
    <3>1. e \in Entry /\ e.block = manager.start
      BY <1>3 DEF Entry, Result
    <3>2. /\ Len(repo'.leaders) = k + 1 /\ repo'.leaders[k + 1] = e
          /\ \A i \in 1 .. k : repo'.leaders[i] = q[i]
      BY <1>3, <2>6, <3>1, AppendProperties
    <3>3. repo.round = LastRound => repo'.stage = "finished" /\ Len(repo'.leaders) = k + 1
      BY <1>4, <3>2
    <3>4. repo.round # LastRound =>
            \E n \in 1 .. repo'.round : repo'.schedule[n].latest = manager.start
      BY <1>3, <1>4, <1>8
    <3> HIDE DEF q, k, e
    <3>5. ASSUME NEW i \in 1 .. k + 1
          PROVE  repo'.leaders[i].block <= Schedule'.latest \/ LeaderOfLast(i)'
      <4>1. CASE i \in 1 .. k
        BY <1>3, <2>1, <2>2, <2>4, <3>2, <4>1, NotLater DEF q
      <4>2. CASE i = k + 1
        <5>1. repo'.leaders[i].block = manager.start
          BY <3>1, <3>2, <4>2
        <5>2. repo.round = LastRound => LeaderOfLast(i)'
          BY <3>3, <4>2 DEF LeaderOfLast
        <5>3. repo.round # LastRound => repo'.leaders[i].block <= Schedule'.latest
          BY <1>3, <2>4, <5>1, NotLater
        <5> QED BY <5>2, <5>3
      <4> QED BY <2>1, <4>1, <4>2
    <3>6. ASSUME NEW i \in 2 .. k + 1
          PROVE  /\ repo'.leaders[i].block > repo'.leaders[i - 1].block
                 /\ \/ LeaderOfLast(i)'
                    \/ \E n \in 1 .. repo'.round : repo'.schedule[n].latest = repo'.leaders[i].block
      <4>1. CASE i \in 2 .. k
        <5>1. i \in 1 .. k /\ i - 1 \in 1 .. k
          BY <2>1, <4>1
        <5> QED BY <2>2, <2>3, <3>2, <4>1, <5>1
      <4>2. CASE i = k + 1
        <5>1. i - 1 = k /\ k \in 1 .. k
          BY <2>1, <4>2
        <5>2. q[k].block < manager.start
          BY <1>2, <1>3, <2>1, <2>2, <5>1
        <5>3. repo'.leaders[i].block = manager.start /\ repo'.leaders[i - 1] = q[k]
          BY <3>1, <3>2, <4>2, <5>1
        <5>4. repo'.leaders[i].block > repo'.leaders[i - 1].block
          BY <1>3, <2>1, <5>1, <5>2, <5>3
        <5> QED BY <3>3, <3>4, <4>2, <5>3, <5>4 DEF LeaderOfLast
      <4> QED BY <2>1, <4>1, <4>2
    <3> QED BY <3>2, <3>5, <3>6 DEF LeadersFit
  <2> QED BY <1>4, <2>5, <2>6 DEF Crown
<1>13. Stands
  BY <1>5 DEF Stands
<1> QED BY <1>10, <1>11, <1>12, <1>13 DEF Fits

LEMMA CollectorFits ==
  ASSUME IInv, Fits, Collector \/ CollectorReplyLost
  PROVE  Fits' /\ Stands
<1>1. collector \in CollectorState /\ repo \in Repository /\ manager \in ManagerState
  BY DEF IInv, TypeOK
<1>2. NoWork.pc = "idle"
  BY DEF NoWork
<1>3. UNCHANGED <<block, reveals>>
  BY DEF counters, Collector, ReadSubmissions, AfterReveal, PublishSubmissions, ReachDeadline,
     StartCollecting, CollectorRefused, ResumeCollecting, CollectMiner, OpenDuels,
     CollectorLands, CollectorConflicts, CollectorDone, CollectorReplyLost
<1>4. ASSUME UNCHANGED <<repo, manager>>, collector'.pc # "publish"
      PROVE  Fits' /\ Stands
  BY <1>3, <1>4, QuietFits
<1>5. ASSUME SameRound(repo', repo), manager' = Behind(manager), collector'.pc # "publish",
             Stage(repo) \notin {"open", "finished"}, Stage(repo') \notin {"open", "finished"}
      PROVE  Fits' /\ Stands
  <2>1. ~(manager'.pc = "commit" /\ ~manager'.stale)
    BY <1>1, <1>5 DEF Behind, ManagerState
  <2>2. repo.stage # "finished" /\ repo'.stage # "finished"
    BY <1>5 DEF Stage
  <2> QED BY <1>3, <1>5, <2>1, <2>2, QuietFits
<1>6. CASE ReachDeadline \/ ResumeCollecting \/ CollectorRefused \/ CollectorDone
  <2>1. collector'.pc # "publish"
    BY <1>2, <1>6 DEF ReachDeadline, ResumeCollecting, CollectorRefused, CollectorDone, NoWork
  <2> QED BY <1>4, <1>6, <2>1 DEF ReachDeadline, ResumeCollecting, CollectorRefused, CollectorDone
<1>7. CASE CollectMiner \/ OpenDuels \/ CollectorConflicts
  <2>1. CASE CollectMiner
    <3>1. collector'.pc = "collect"
      BY <1>1, <2>1 DEF CollectMiner, CollectorState
    <3> QED BY <1>4, <2>1, <3>1 DEF CollectMiner
  <2>2. CASE OpenDuels
    <3>1. collector'.pc = "entered"
      BY <1>1, <2>2 DEF OpenDuels, CollectorState
    <3> QED BY <1>4, <2>2, <3>1 DEF OpenDuels
  <2>3. CASE CollectorConflicts
    <3>1. collector'.pc # "publish"
      BY <1>1, <1>2, <2>3 DEF CollectorConflicts, CollectorTried, CollectorState
    <3> QED BY <1>4, <2>3, <3>1 DEF CollectorConflicts
  <2> QED BY <1>7, <2>1, <2>2, <2>3
<1>8. ASSUME collector.pc = "publish", ~collector.stale, CollectorMoves(Publication, NoWork)
      PROVE  Fits' /\ Stands
  BY <1>3, <1>8, PublicationFits
<1>9. ASSUME collector.pc = "deadline", ~collector.stale,
             NEW self, CollectorMoves(Enter(repo, "collecting"), self),
             self \in {NoWork, [collector EXCEPT !.pc = "collect"]}
      PROVE  Fits' /\ Stands
  <2>1. Stage(repo) = "miner_generation"
    BY <1>9 DEF IInv, Follows, CollectorFollows, Stage
  <2>2. SameRound(Enter(repo, "collecting"), repo) /\ Stage(Enter(repo, "collecting")) = "collecting"
    BY <1>1, EnterRound, EnterStage DEF Active
  <2>3. self.pc # "publish"
    BY <1>1, <1>2, <1>9 DEF CollectorState
  <2>4. repo' = Enter(repo, "collecting") /\ collector' = self /\ manager' = Behind(manager)
    BY <1>9 DEF CollectorMoves
  <2> QED BY <1>5, <2>1, <2>2, <2>3, <2>4
<1>10. CASE CollectorLands
  <2>1. PICK self \in CollectorTried({}, FALSE) : CollectorMoves(Collected, self)
    BY <1>10 DEF CollectorLands
  <2>2. /\ Stage(repo) = "collecting" /\ collector.round = repo.round
        /\ collector.pc \in {"collect", "entered"}
    BY <1>10 DEF CollectorLands, IInv, Follows, CollectorFollows
  <2>3. /\ SameRound(Collected, repo) /\ Stage(Collected) \in {"duels", "collecting"}
    BY <2>2, CollectedRound, CollectedStage DEF IInv
  <2>4. self.pc # "publish"
    BY <1>1, <1>2, <2>1, <2>2 DEF CollectorTried, CollectorState
  <2>5. repo' = Collected /\ collector' = self /\ manager' = Behind(manager)
    BY <2>1 DEF CollectorMoves
  <2> QED BY <1>5, <2>2, <2>3, <2>4, <2>5
<1>11. CASE CollectorReplyLost
  <2>1. CASE collector.pc = "publish"
    BY <1>8, <1>11, <2>1 DEF CollectorReplyLost
  <2>2. CASE collector.pc = "deadline"
    BY <1>9, <1>11, <2>2 DEF CollectorReplyLost
  <2> QED BY <1>11, <2>1, <2>2 DEF CollectorReplyLost
<1>12. CASE PublishSubmissions
  BY <1>8, <1>12 DEF PublishSubmissions
<1>13. CASE StartCollecting
  BY <1>9, <1>13 DEF StartCollecting
<1> QED BY <1>6, <1>7, <1>10, <1>11, <1>12, <1>13, ReadFits DEF Collector

LEMMA JudgeFits ==
  ASSUME IInv, Fits, Judge
  PROVE  Fits' /\ Stands
<1>1. collector \in CollectorState /\ manager \in ManagerState
  BY DEF IInv, TypeOK
<1>2. UNCHANGED <<block, reveals>>
  BY DEF counters, Judge, JudgeStarts, JudgeDecides, JudgeEnters, JudgeLands, JudgeConflicts, JudgeDone
<1>3. CASE JudgeLands
  <2>1. PICK self \in JudgeTried({}, FALSE) : JudgeMoves(Judged, self)
    BY <1>3 DEF JudgeLands
  <2>2. Stage(repo) = "duels" /\ judge.round = repo.round /\ judge.pc # "idle"
    BY <1>3 DEF JudgeLands, IInv, Follows, JudgeFollows
  <2>3. SameRound(Judged, repo) /\ Stage(Judged) \in {"finalizing", "duels"}
    BY <2>2, JudgedRound, JudgedStage DEF IInv
  <2>4. repo' = Judged /\ collector' = Behind(collector) /\ manager' = Behind(manager)
    BY <2>1 DEF JudgeMoves
  <2>5. /\ ~(collector'.pc = "publish" /\ ~collector'.stale)
        /\ ~(manager'.pc = "commit" /\ ~manager'.stale)
    BY <1>1, <2>4 DEF Behind, CollectorState, ManagerState
  <2>6. repo.stage # "finished" /\ repo'.stage # "finished"
        /\ Stage(repo) # "open" /\ Stage(repo') # "open"
    BY <2>2, <2>3, <2>4 DEF Stage
  <2> QED BY <1>2, <2>3, <2>4, <2>5, <2>6, QuietFits
<1>4. CASE ~JudgeLands
  <2>1. UNCHANGED <<repo, collector, manager>>
    BY <1>4 DEF Judge, JudgeStarts, JudgeDecides, JudgeEnters, JudgeConflicts, JudgeDone
  <2> QED BY <1>2, <2>1, QuietFits
<1> QED BY <1>3, <1>4

LEMMA ManagerFits ==
  ASSUME IInv, Fits, Manager \/ ManagerReplyLost
  PROVE  Fits' /\ Stands
<1>1. CASE ManagerRefused
  <2>1. UNCHANGED <<repo, block, reveals, collector>> /\ manager' = NoPlan
    BY <1>1 DEF ManagerRefused, RefusedTo
  <2>2. manager'.pc # "commit"
    BY <2>1 DEF NoPlan
  <2> QED BY <2>1, <2>2, QuietFits
<1>2. CASE AdvanceRound \/ ManagerReplyLost
  BY <1>2, RoundFits DEF AdvanceRound, ManagerReplyLost
<1> QED BY <1>1, <1>2, PlanFits DEF Manager

LEMMA OtherFits ==
  ASSUME IInv, Fits, Abort \/ NewBlock \/ Hold \/ Release \/ Over
  PROVE  Fits' /\ Stands
<1>1. collector \in CollectorState /\ manager \in ManagerState /\ repo \in Repository
  BY DEF IInv, TypeOK
<1>2. CASE Abort
  <2>1. /\ UNCHANGED <<repo, block, reveals>>
        /\ collector' \in {collector, NoWork} /\ manager' \in {manager, NoPlan}
    BY <1>2 DEF Abort
  <2>2. NoWork.pc # "publish" /\ NoPlan.pc # "commit"
    BY DEF NoWork, NoPlan
  <2> QED BY <2>1, <2>2, QuietFits
<1>3. CASE Over
  <2>1. UNCHANGED <<repo, block, reveals, collector, manager>>
    BY <1>3 DEF Over, vars
  <2> QED BY <2>1, QuietFits
<1>4. CASE Hold \/ Release
  <2>1. /\ SameRound(repo', repo) /\ Stage(repo') = Stage(repo)
        /\ repo.stage # "finished" /\ repo'.stage # "finished"
    <3>1. CASE Hold
      <4>1. repo' = [repo EXCEPT !.stage = "paused", !.held = repo.stage]
            /\ repo.stage \notin {"paused", "finished"}
        BY <3>1 DEF Hold, OperatorMoves
      <4> QED BY <1>1, <4>1 DEF Repository, SameRound, Stage
    <3>2. CASE Release
      <4>1. repo' = Enter(repo, repo.held) /\ repo.stage = "paused" /\ repo.held \in Active
        BY <3>2 DEF Release, OperatorMoves, IInv, HeldIsActive
      <4>2. Stage(repo) = repo.held /\ Enter(repo, repo.held).stage = repo.held
            /\ Stage(Enter(repo, repo.held)) = repo.held /\ SameRound(Enter(repo, repo.held), repo)
        BY <1>1, <4>1, EnterStage, EnterRound DEF Stage
      <4> QED BY <4>1, <4>2 DEF Active
    <3> QED BY <1>4, <3>1, <3>2
  <2>2. /\ collector' = Behind(collector) /\ manager' = Behind(manager)
        /\ UNCHANGED <<block, reveals>>
    BY <1>4 DEF Hold, Release, OperatorMoves
  <2>3. /\ ~(collector'.pc = "publish" /\ ~collector'.stale)
        /\ ~(manager'.pc = "commit" /\ ~manager'.stale)
    BY <1>1, <2>2 DEF Behind, CollectorState, ManagerState
  <2> QED BY <2>1, <2>2, <2>3, QuietFits
<1> QED BY <1>2, <1>3, <1>4, BlockFits

LEMMA FitsStep ==
  ASSUME lost' = 0, IInv, Fits, [Next]_vars
  PROVE  Fits' /\ Stands
<1>1. CASE UNCHANGED vars
  <2>1. UNCHANGED <<repo, block, reveals, collector, manager>>
    BY <1>1 DEF vars
  <2> QED BY <2>1, QuietFits
<1>2. CASE Next
  <2>1. ~CollectorLandsUnseen /\ ~JudgeLandsUnseen
    BY <1>2, LostGrows DEF IInv
  <2> QED BY <1>2, <2>1, CollectorFits, JudgeFits, ManagerFits, OtherFits DEF Next, Failures
<1> QED BY <1>1, <1>2

LEMMA InitialFits == Init => Fits
<1> SUFFICES ASSUME Init PROVE Fits
  OBVIOUS
<1>1. /\ repo.round = 1 /\ repo.stage = "open" /\ repo.submissions = [n \in Rounds |-> {}]
      /\ repo.schedule = [n \in Rounds |-> IF n = 1 THEN [earliest |-> 0, latest |-> 1] ELSE Unscheduled]
      /\ repo.leaders = <<[source |-> First, weight |-> 10, block |-> 0]>>
      /\ reveals = {} /\ collector = NoWork /\ manager = NoPlan
  BY DEF Init
<1>2. 1 \in Rounds
  BY CompetitionAssumption DEF Rounds
<1>3. FilesFit
  BY <1>1, <1>2 DEF FilesFit, Stage, Admits
<1>4. PlansFit
  BY <1>1 DEF PlansFit, NoWork, NoPlan
<1>5. LeadersFit
  <2>1. Schedule.latest = 1
    BY <1>1, <1>2 DEF Schedule
  <2>2. Len(repo.leaders) = 1 /\ repo.leaders[1].block = 0
    BY <1>1
  <2> QED BY <2>1, <2>2 DEF LeadersFit
<1> QED BY <1>3, <1>4, <1>5 DEF Fits

-----------------------------------------------------------------------------
(* The theorems.                                                           *)

RoundsFit == Commits /\ (lost = 0 => Fits)

\* What is in the files of a round agrees with the window, the chain and the
\* reign, over all interleavings of the chain and the services.
THEOREM FilesAgree == Spec => []RoundsFit
<1>1. Init => RoundsFit
  BY InitialFollows, InitialType, InitialFits DEF RoundsFit, Commits
<1>2. RoundsFit /\ [Next]_vars => RoundsFit'
  <2> SUFFICES ASSUME RoundsFit, [Next]_vars PROVE RoundsFit'
    OBVIOUS
  <2>1. TypeOK' /\ HeldIsActive'
    BY TypeStep DEF RoundsFit, Commits
  <2>2. lost' = 0 => IInv'
    BY LostGrows, Step DEF RoundsFit, Commits
  <2>3. lost' = 0 => Fits'
    BY LostGrows, FitsStep DEF RoundsFit, Commits
  <2> QED BY <2>1, <2>2, <2>3 DEF RoundsFit, Commits
<1> QED BY <1>1, <1>2, PTL DEF Spec

\* No two leaders take over at the same block, and each does at the start of a
\* round (finalize_round.py:84-109, leader.py:18-23).
THEOREM LeadersFollowRounds == Spec => []LeadersTakeTurns
<1>1. RoundsFit => LeadersTakeTurns
  <2> SUFFICES ASSUME RoundsFit, lost = 0, NEW i \in 2 .. Len(repo.leaders)
               PROVE  /\ repo.leaders[i].block > repo.leaders[i - 1].block
                      /\ \/ \E n \in Rounds : repo.schedule[n].latest = repo.leaders[i].block
                         \/ repo.stage = "finished" /\ i = Len(repo.leaders)
    BY DEF LeadersTakeTurns
  <2>1. LeadersFit
    BY DEF RoundsFit, Fits
  <2>2. repo.round \in Rounds
    BY DEF RoundsFit, Commits, TypeOK, Repository
  <2>3. 1 .. repo.round \subseteq Rounds
    BY <2>2, CompetitionAssumption DEF Rounds
  <2> QED BY <2>1, <2>3 DEF LeadersFit, LeaderOfLast
<1> QED BY <1>1, FilesAgree, PTL

\* What a miner entered a round with stays its last commitment of the window,
\* whatever the chain reveals later (collection_iteration.py:204-211).
THEOREM AdmittedStaysLatest == Spec => []AdmittedIsLatest
<1>1. RoundsFit => AdmittedIsLatest
  BY DEF RoundsFit, Fits, FilesFit, Admits, AdmittedIsLatest
<1> QED BY <1>1, FilesAgree, PTL

\* A published round is never drawn again, by whatever retry or crash
\* (collection_iteration.py:228-253).
THEOREM PublishedOnce == Spec => PublicationStands
<1>1. RoundsFit /\ [Next]_vars =>
        [lost' = 0 => \A n \in Rounds : repo.submissions[n] # {} =>
                        repo'.submissions[n] = repo.submissions[n]]_repo
  BY LostGrows, FitsStep DEF RoundsFit, Commits, Stands
<1> QED BY <1>1, FilesAgree, PTL DEF Spec, PublicationStands

-----------------------------------------------------------------------------
(* The results: what the collector has written or holds.                   *)

ResultsHeld ==
  /\ collector.pc \in {"idle", "publish", "deadline"} => collector.done = {}
  /\ collector.pc = "collect" \/ collector.queue # {} =>
       collector.done \subseteq repo.generated[collector.round] \cup collector.queue
  /\ "state" \in collector.queue => Submitted(collector.round) \subseteq collector.done
  /\ DuelsHaveResults

\* Steps that write no result.
LEMMA QuietResults ==
  ASSUME IInv, ResultsHeld,
         \/ collector' \in {NoWork, [NoWork EXCEPT !.pc = "collect", !.round = repo.round]}
         \/ collector'.pc \in {"publish", "deadline"} /\ collector'.done = {} /\ collector'.queue = {}
         \/ /\ collector' \in {collector, Behind(collector), [collector EXCEPT !.queue = @, !.stale = FALSE]}
            /\ \/ collector.pc # "collect" /\ collector.queue = {}
               \/ repo'.generated = repo.generated /\ repo'.submissions = repo.submissions,
         Stage(repo') = "duels" =>
           /\ Stage(repo) = "duels" /\ repo'.round = repo.round
           /\ repo'.generated = repo.generated /\ repo'.submissions = repo.submissions
  PROVE  ResultsHeld'
<1>1. DuelsHaveResults'
  BY DEF ResultsHeld, DuelsHaveResults, Submitted
<1>2. CASE collector' \in {NoWork, [NoWork EXCEPT !.pc = "collect", !.round = repo.round]}
  <2>1. CASE collector' = NoWork
    BY <1>1, <2>1 DEF ResultsHeld, NoWork
  <2>2. CASE collector' = [NoWork EXCEPT !.pc = "collect", !.round = repo.round]
    <3>1. collector'.done = {} /\ collector'.queue = {}
      BY <2>2 DEF NoWork
    <3> QED BY <1>1, <3>1 DEF ResultsHeld
  <2> QED BY <1>2, <2>1, <2>2
<1>3. CASE collector'.pc \in {"publish", "deadline"} /\ collector'.done = {} /\ collector'.queue = {}
  BY <1>1, <1>3 DEF ResultsHeld
<1>4. CASE /\ collector' \in {collector, Behind(collector), [collector EXCEPT !.queue = @, !.stale = FALSE]}
           /\ \/ collector.pc # "collect" /\ collector.queue = {}
              \/ repo'.generated = repo.generated /\ repo'.submissions = repo.submissions
  <2>1. /\ collector'.pc = collector.pc /\ collector'.queue = collector.queue
        /\ collector'.round = collector.round /\ collector'.done = collector.done
    BY <1>4 DEF IInv, TypeOK, CollectorState, Behind
  <2> QED BY <1>1, <1>4, <2>1 DEF ResultsHeld, Submitted
<1> QED BY <1>2, <1>3, <1>4

LEMMA CollectedResults ==
  ASSUME TypeOK, collector.pc # "idle", collector.round = repo.round
  PROVE  Collected.generated[repo.round] =
           repo.generated[repo.round] \cup (collector.queue \cap Miners)
<1> DEFINE files == [repo EXCEPT !.generated[collector.round] = @ \cup (collector.queue \cap Miners)]
<1>1. repo \in Repository /\ collector.round \in Rounds
  BY DEF TypeOK
<1>2. files.generated[repo.round] = repo.generated[repo.round] \cup (collector.queue \cap Miners)
  BY <1>1 DEF Repository
<1>3. files \in Repository
  BY <1>1 DEF Repository
<1> DEFINE r == Enter(files, "duels")
<1> DEFINE q == [r EXCEPT !.round = collector.round]
<1>4. r.generated = files.generated /\ q.generated = r.generated
  BY <1>3 DEF Enter, Repository
<1>5. Collected = IF "state" \in collector.queue THEN q ELSE files
  BY DEF Collected
<1> HIDE DEF files, r, q
<1> QED BY <1>2, <1>4, <1>5

LEMMA CollectorResults ==
  ASSUME IInv, ResultsHeld, Collector \/ CollectorReplyLost
  PROVE  ResultsHeld'
<1>1. collector \in CollectorState /\ repo \in Repository /\ repo.round \in Rounds
  BY DEF IInv, TypeOK, Repository
<1>2. CASE ReadSubmissions
  <2>1. PICK admitted : collector' = [NoWork EXCEPT !.pc = "publish", !.round = repo.round, !.subs = admitted]
    BY <1>2 DEF ReadSubmissions, AfterReveal
  <2>2. collector'.pc = "publish" /\ collector'.done = {} /\ collector'.queue = {}
    BY <2>1 DEF NoWork
  <2>3. UNCHANGED repo
    BY <1>2 DEF ReadSubmissions, AfterReveal
  <2> QED BY <2>2, <2>3, QuietResults
<1>3. CASE ReachDeadline
  <2>1. UNCHANGED repo /\ collector'.pc = "deadline" /\ collector'.done = {} /\ collector'.queue = {}
    BY <1>3 DEF ReachDeadline, NoWork
  <2> QED BY <2>1, QuietResults
<1>4. CASE ResumeCollecting \/ CollectorRefused \/ CollectorDone
  BY <1>4, QuietResults DEF ResumeCollecting, CollectorRefused, CollectorDone
<1>5. CASE CollectMiner
  <2>1. PICK m \in Uncollected :
          collector' = [collector EXCEPT !.done = @ \cup {m}, !.queue = @ \cup {m}]
    BY <1>5 DEF CollectMiner
  <2>2. /\ collector'.pc = "collect" /\ collector'.round = collector.round
        /\ collector'.done = collector.done \cup {m} /\ collector'.queue = collector.queue \cup {m}
    BY <1>1, <1>5, <2>1 DEF CollectMiner, CollectorState
  <2>3. UNCHANGED repo /\ collector.pc = "collect"
    BY <1>5 DEF CollectMiner
  <2>4. m # "state" /\ "state" \notin collector.queue
    <3>1. m \in Miners
      <4>1. collector.round \in Rounds /\ repo.submissions \in [Rounds -> SUBSET Commitment]
        BY <1>1, <2>3 DEF IInv, TypeOK, Repository
      <4> QED BY <2>1, <4>1 DEF Uncollected, Submitted, Commitment
    <3> QED BY <2>3, <3>1, CompetitionAssumption DEF IInv, Follows, CollectorFollows
  <2>5. collector'.done \subseteq repo'.generated[collector'.round] \cup collector'.queue
    BY <2>2, <2>3 DEF ResultsHeld
  <2>6. DuelsHaveResults'
    BY <2>3 DEF ResultsHeld, DuelsHaveResults, Submitted
  <2> QED BY <2>2, <2>4, <2>5, <2>6 DEF ResultsHeld
<1>6. CASE OpenDuels
  <2>1. /\ collector'.pc = "entered" /\ collector'.round = collector.round
        /\ collector'.done = collector.done /\ collector'.queue = collector.queue \cup {"state"}
    BY <1>1, <1>6 DEF OpenDuels, CollectorState
  <2>2. UNCHANGED repo /\ collector.pc = "collect" /\ Submitted(collector.round) \subseteq collector.done
    BY <1>6 DEF OpenDuels, Uncollected
  <2> QED BY <2>1, <2>2 DEF ResultsHeld, DuelsHaveResults, Submitted
<1>7. CASE CollectorConflicts
  BY <1>7, QuietResults DEF CollectorConflicts, CollectorTried
<1>8. ASSUME collector.pc = "publish", ~collector.stale, CollectorMoves(Publication, NoWork)
      PROVE  ResultsHeld'
  <2>1. Stage(repo') # "duels" /\ collector' = NoWork
    BY <1>8, PublicationStage DEF IInv, CollectorMoves
  <2> QED BY <2>1, QuietResults
<1>9. ASSUME collector.pc = "deadline", ~collector.stale,
             NEW self, CollectorMoves(Enter(repo, "collecting"), self),
             self \in {NoWork, [collector EXCEPT !.pc = "collect"]}
      PROVE  ResultsHeld'
  <2>1. Stage(repo') = "collecting" /\ collector' = self
    BY <1>1, <1>9, EnterStage DEF Active, CollectorMoves
  <2>2. CASE self = NoWork
    BY <2>1, <2>2, QuietResults
  <2>3. CASE self = [collector EXCEPT !.pc = "collect"]
    <3>1. collector.done = {} /\ collector.queue = {}
      BY <1>9 DEF ResultsHeld, IInv, Follows, CollectorFollows
    <3>2. collector'.pc = "collect" /\ collector'.done = {} /\ collector'.queue = {}
      BY <1>1, <2>1, <2>3, <3>1 DEF CollectorState
    <3> QED BY <2>1, <3>2 DEF ResultsHeld, DuelsHaveResults
  <2> QED BY <1>9, <2>2, <2>3
<1>10. CASE CollectorLands
  <2>1. PICK self \in CollectorTried({}, FALSE) : CollectorMoves(Collected, self)
    BY <1>10 DEF CollectorLands
  <2>2. /\ Stage(repo) = "collecting" /\ collector.round = repo.round
        /\ collector.pc \in {"collect", "entered"} /\ collector.queue # {}
    BY <1>10 DEF CollectorLands, IInv, Follows, CollectorFollows
  <2>3. repo' = Collected /\ collector' = self
    BY <2>1 DEF CollectorMoves
  <2>4. /\ SameRound(repo', repo)
        /\ Stage(repo') = IF "state" \in collector.queue THEN "duels" ELSE Stage(repo)
    BY <2>2, <2>3, CollectedRound, CollectedStage DEF IInv
  <2>5. repo'.generated[repo.round] = repo.generated[repo.round] \cup (collector.queue \cap Miners)
    BY <1>1, <2>2, <2>3, CollectedResults DEF IInv
  <2>6. collector.done \subseteq Miners
    BY <1>1 DEF CollectorState
  <2>7. collector.done \subseteq repo'.generated[repo.round]
    BY <2>2, <2>5, <2>6 DEF ResultsHeld
  <2>8. DuelsHaveResults'
    BY <2>2, <2>4, <2>7 DEF ResultsHeld, DuelsHaveResults, SameRound, Submitted
  <2>9. CASE collector' = NoWork
    BY <2>8, <2>9 DEF ResultsHeld, NoWork
  <2>10. CASE collector' = [collector EXCEPT !.queue = {}, !.stale = FALSE]
    <3>1. /\ collector'.pc = collector.pc /\ collector'.queue = {}
          /\ collector'.round = collector.round /\ collector'.done = collector.done
      BY <1>1, <2>10 DEF CollectorState
    <3> QED BY <2>2, <2>7, <2>8, <3>1 DEF ResultsHeld
  <2> QED BY <2>1, <2>3, <2>9, <2>10 DEF CollectorTried
<1>11. CASE CollectorReplyLost
  <2>1. CASE collector.pc = "publish"
    BY <1>8, <1>11, <2>1 DEF CollectorReplyLost
  <2>2. CASE collector.pc = "deadline"
    BY <1>9, <1>11, <2>2 DEF CollectorReplyLost
  <2> QED BY <1>11, <2>1, <2>2 DEF CollectorReplyLost
<1>12. CASE PublishSubmissions
  BY <1>8, <1>12 DEF PublishSubmissions
<1>13. CASE StartCollecting
  BY <1>9, <1>13 DEF StartCollecting
<1> QED BY <1>2, <1>3, <1>4, <1>5, <1>6, <1>7, <1>10, <1>11, <1>12, <1>13 DEF Collector

\* A commit of another service.
LEMMA OtherResults ==
  ASSUME IInv, ResultsHeld, Judge \/ Manager \/ ManagerReplyLost \/ Abort \/ NewBlock \/ Hold \/ Release \/ Over
  PROVE  ResultsHeld'
<1>1. repo \in Repository /\ repo.round \in Rounds
  BY DEF IInv, TypeOK, Repository
<1>2. CASE JudgeLands
  <2>1. repo' = Judged /\ collector' = Behind(collector)
    BY <1>2 DEF JudgeLands, JudgeMoves
  <2>2. Stage(repo) = "duels" /\ judge.round = repo.round /\ judge.pc # "idle"
    BY <1>2 DEF JudgeLands, IInv, Follows, JudgeFollows
  <2>3. collector.pc # "collect" /\ collector.queue = {}
    BY <2>2 DEF IInv, Follows, CollectorFollows
  <2>4. Stage(repo') = IF "state" \in judge.queue THEN "finalizing" ELSE "duels"
    BY <2>1, <2>2, JudgedStage DEF IInv
  <2>5. "state" \notin judge.queue =>
          /\ repo'.round = repo.round /\ repo'.generated = repo.generated
          /\ repo'.submissions = repo.submissions
    BY <1>1, <2>1 DEF Judged, Repository
  <2> QED BY <2>1, <2>2, <2>3, <2>4, <2>5, QuietResults
<1>3. CASE AdvanceRound \/ ManagerReplyLost
  <2>1. manager.pc = "commit" /\ ~manager.stale /\ repo' = NextRound /\ collector' = Behind(collector)
    BY <1>3 DEF AdvanceRound, ManagerReplyLost, ManagerMoves
  <2>2. Stage(repo) = "finalizing"
    BY <2>1 DEF IInv, Follows, ManagerFollows, Stage
  <2>3. collector.pc # "collect" /\ collector.queue = {}
    BY <2>2 DEF IInv, Follows, CollectorFollows
  <2>4. Stage(repo') # "duels"
    BY <2>1, NextRoundStage DEF IInv, Stage
  <2> QED BY <2>1, <2>3, <2>4, QuietResults
<1>4. CASE Hold \/ Release
  <2>1. collector' = Behind(collector)
    BY <1>4 DEF Hold, Release, OperatorMoves
  <2>2. /\ repo'.round = repo.round /\ repo'.submissions = repo.submissions
        /\ repo'.generated = repo.generated /\ Stage(repo') = Stage(repo)
    <3>1. CASE Hold
      <4>1. repo' = [repo EXCEPT !.stage = "paused", !.held = repo.stage] /\ repo.stage # "paused"
        BY <3>1 DEF Hold, OperatorMoves
      <4> QED BY <1>1, <4>1 DEF Repository, Stage
    <3>2. CASE Release
      <4>1. repo' = Enter(repo, repo.held) /\ repo.stage = "paused" /\ repo.held \in Active
        BY <3>2 DEF Release, OperatorMoves, IInv, HeldIsActive
      <4> QED BY <1>1, <4>1, EnterStage DEF Enter, Repository, Stage
    <3> QED BY <1>4, <3>1, <3>2
  <2> QED BY <2>1, <2>2, QuietResults
<1>5. CASE Abort
  BY <1>5, QuietResults DEF Abort
<1>6. CASE UNCHANGED <<repo, collector>>
  BY <1>6, QuietResults
<1>7. NewBlock \/ Over \/ ReadResult \/ ManagerRefused \/ (Judge /\ ~JudgeLands) => UNCHANGED <<repo, collector>>
  BY DEF NewBlock, services, Over, vars, ReadResult, ManagerRefused, RefusedTo,
     Judge, JudgeStarts, JudgeDecides, JudgeEnters, JudgeConflicts, JudgeDone
<1> QED BY <1>2, <1>3, <1>4, <1>5, <1>6, <1>7 DEF Manager

\* The judge never starts on a round whose results are not all committed,
\* although they are written one by one and by iterations that may fail
\* (collection_iteration.py:301-310, download.py:60-71), as long as no reply
\* of a batcher's commit is lost.
THEOREM DuelsAreCollected == Spec => [](lost = 0 => DuelsHaveResults)
<1> DEFINE Held == Commits /\ (lost = 0 => ResultsHeld)
<1>1. Init => Held
  <2> SUFFICES ASSUME Init PROVE ResultsHeld
    BY InitialFollows, InitialType DEF Commits
  <2>1. collector.done = {} /\ collector.queue = {} /\ Stage(repo) = "open"
    BY DEF Init, NoWork, Stage
  <2> QED BY <2>1 DEF ResultsHeld, DuelsHaveResults
<1>2. Held /\ [Next]_vars => Held'
  <2> SUFFICES ASSUME Held, [Next]_vars PROVE Held'
    OBVIOUS
  <2>1. TypeOK' /\ HeldIsActive'
    BY TypeStep DEF Commits
  <2>2. ASSUME lost' = 0
        PROVE  IInv' /\ ResultsHeld'
    <3>1. lost = 0 /\ IInv /\ ResultsHeld /\ ~CollectorLandsUnseen /\ ~JudgeLandsUnseen
      BY <2>2, LostGrows DEF Commits
    <3>2. IInv'
      BY <2>2, <3>1, Step
    <3>3. CASE UNCHANGED vars
      <4>1. UNCHANGED <<repo, collector>>
        BY <3>3 DEF vars
      <4> QED BY <3>1, <3>2, <4>1, QuietResults
    <3>4. CASE Next
      BY <3>1, <3>2, <3>4, CollectorResults, OtherResults DEF Next, Failures
    <3> QED BY <3>3, <3>4
  <2> QED BY <2>1, <2>2 DEF Commits
<1>3. Held => (lost = 0 => DuelsHaveResults)
  BY DEF ResultsHeld
<1> QED BY <1>1, <1>2, <1>3, PTL DEF Spec

-----------------------------------------------------------------------------
(* The weights-setter that pays those leaders (module WeightsSetter): the   *)
(* order of the leaders, the time an iteration has left, and whom it is      *)
(* about to pay.  No constant is bounded but by the two assumptions.         *)

\* get_leader, of any list of leaders.
LatestOf(s, n, b) == Max({0} \cup {i \in 1 .. n : s[i] <= b})

ActingNow == Acting(Len(leaders), now)

LeadersOrdered ==
  /\ leaders[1] = 0
  /\ \A j, k \in 1 .. Len(leaders) : j < k => leaders[j] + Reign <= leaders[k]

\* An iteration ends by its timeout, and it has read every leader who can act
\* before then.
TimeLeft ==
  /\ pc = "sleep" => now <= due /\ due <= now + Interval
  /\ pc # "sleep" => /\ now <= start + Timeout /\ seen >= 1
                     /\ \A j \in seen + 1 .. Len(leaders) : leaders[j] > start + Timeout

Resolved ==
  pc = "set" => /\ target.at >= start
                /\ target.leader \in {0, Acting(Len(leaders), target.at)}
                /\ target.leader = 0 => failures > 0

Right(l) == l = ActingNow \/ (failures > 0 /\ l = 0)

\* Only an iteration that started before the acting leader pays another.
StaleStartedBefore ==
  /\ pc = "set" /\ start >= leaders[ActingNow] => Right(target.leader)
  /\ pc = "verify" /\ start >= leaders[ActingNow] => Right(paid.leader)

\* By when the acting leader's first iteration without a failure has started.
StartsBy == leaders[ActingNow] + Interval + failures * (Interval + Timeout)

OnTheWay ==
  \/ Right(paid.leader) /\ (pc = "set" => Right(target.leader))
  \/ pc = "sleep" /\ due <= StartsBy
  \/ pc # "sleep" /\ start <= StartsBy
  \/ AwaitsNext /\ Reign <= Lateness + WaitForNext

WeightsInv ==
  WeightsTypeOK /\ LeadersOrdered /\ TimeLeft /\ Resolved /\ StaleStartedBefore /\ OnTheWay

\* Nat is well ordered.
LEMMA LeastNumber ==
  ASSUME NEW T \in SUBSET Nat, T # {}
  PROVE  \E x \in T : \A y \in T : x <= y
<1> DEFINE R == {p \in Nat \X Nat : p[1] < p[2]}
<1>1. IsWellFoundedOn(R, Nat)
  BY NatLessThanWellFounded DEF OpToRel
<1>2. PICK x \in T : \A y \in T : ~ (<<y, x>> \in R)
  <2> HIDE DEF R
  <2> QED BY <1>1, WFMin
<1>3. \A y \in T : ~(y < x)
  BY <1>2
<1> QED BY <1>2, <1>3

\* A set of numbers up to a bound has a greatest.
LEMMA Greatest ==
  ASSUME NEW n \in Nat, NEW S \in SUBSET (0 .. n), S # {}
  PROVE  Max(S) \in S /\ \A y \in S : Max(S) >= y
<1> DEFINE T == {m \in Nat : \A y \in S : y <= m}
<1>1. n \in T /\ T \subseteq Nat
  OBVIOUS
<1>2. PICK x \in T : \A y \in T : x <= y
  <2> HIDE DEF T
  <2> QED BY <1>1, LeastNumber
<1>3. x \in S
  <2> SUFFICES ASSUME x \notin S PROVE FALSE
    OBVIOUS
  <2>1. x \in Nat /\ \A y \in S : y <= x - 1
    BY <1>2
  <2>2. x - 1 \in Nat
    <3>1. PICK z : z \in S
      OBVIOUS
    <3> QED BY <2>1, <3>1
  <2>3. x - 1 \in T
    BY <2>1, <2>2
  <2>4. x <= x - 1
    <3> HIDE DEF T
    <3> QED BY <1>2, <2>3
  <2> QED BY <2>1, <2>4
<1>4. \E z \in S : \A y \in S : z >= y
  BY <1>2, <1>3
<1> QED BY <1>4 DEF Max

LEMMA Later ==
  ASSUME NEW a \in Nat, NEW b \in Nat
  PROVE  Max({a, b}) = IF a >= b THEN a ELSE b
<1>1. Max({a, b}) \in {a, b} /\ \A y \in {a, b} : Max({a, b}) >= y
  BY {a, b} \in SUBSET (0 .. a + b), Greatest
<1> QED BY <1>1

LEMMA LatestActs ==
  ASSUME NEW s \in Seq(Nat), NEW n \in 1 .. Len(s), NEW b \in Nat, s[1] <= b
  PROVE  /\ LatestOf(s, n, b) \in 1 .. n /\ s[LatestOf(s, n, b)] <= b
         /\ \A j \in 1 .. n : s[j] <= b => j <= LatestOf(s, n, b)
<1> DEFINE S == {0} \cup {i \in 1 .. n : s[i] <= b}
<1>1. S \in SUBSET (0 .. n) /\ S # {} /\ n \in Nat
  OBVIOUS
<1>2. Max(S) \in S /\ \A y \in S : Max(S) >= y
  <2> HIDE DEF S
  <2> QED BY <1>1, Greatest
<1>3. 1 \in S
  OBVIOUS
<1>4. Max(S) >= 1
  BY <1>2, <1>3
<1> QED BY <1>2, <1>4 DEF LatestOf

\* It is the only one.
LEMMA LatestIs ==
  ASSUME NEW s \in Seq(Nat), NEW n \in 1 .. Len(s), NEW b \in Nat, s[1] <= b,
         NEW k \in 1 .. n, s[k] <= b, \A j \in k + 1 .. n : s[j] > b
  PROVE  LatestOf(s, n, b) = k
<1>1. LatestOf(s, n, b) \in 1 .. n /\ s[LatestOf(s, n, b)] <= b /\ k <= LatestOf(s, n, b)
  BY LatestActs
<1>2. s[LatestOf(s, n, b)] \in Nat
  BY <1>1
<1>3. ~ (LatestOf(s, n, b) \in k + 1 .. n)
  BY <1>1, <1>2
<1> QED BY <1>1, <1>3

LEMMA ActingFacts ==
  ASSUME WeightsTypeOK, LeadersOrdered, NEW b \in Nat
  PROVE  LET k == Acting(Len(leaders), b)
         IN  /\ k \in 1 .. Len(leaders) /\ leaders[k] \in Nat /\ leaders[k] <= b
             /\ \A j \in k + 1 .. Len(leaders) : leaders[j] > b
<1>1. leaders \in Seq(Nat) /\ Len(leaders) \in 1 .. Len(leaders) /\ leaders[1] = 0
  BY DEF WeightsTypeOK, LeadersOrdered
<1>2. Acting(Len(leaders), b) = LatestOf(leaders, Len(leaders), b)
  BY DEF Acting, LatestOf
<1>3. /\ Acting(Len(leaders), b) \in 1 .. Len(leaders)
      /\ leaders[Acting(Len(leaders), b)] <= b
      /\ \A j \in 1 .. Len(leaders) : leaders[j] <= b => j <= Acting(Len(leaders), b)
  BY <1>1, <1>2, LatestActs
<1>4. \A j \in 1 .. Len(leaders) : leaders[j] \in Nat
  BY <1>1
<1> QED BY <1>3, <1>4

\* Whoever acts by the entries an iteration read acts by all of them, as long
\* as the later ones are not due.
LEMMA SeenSuffices ==
  ASSUME WeightsTypeOK, LeadersOrdered, NEW b \in Nat, NEW n \in 1 .. Len(leaders),
         \A j \in n + 1 .. Len(leaders) : leaders[j] > b
  PROVE  Acting(n, b) = Acting(Len(leaders), b)
<1> DEFINE k == Acting(n, b)
<1>1. leaders \in Seq(Nat) /\ Len(leaders) \in 1 .. Len(leaders) /\ leaders[1] <= b
  BY DEF WeightsTypeOK, LeadersOrdered
<1>2. /\ k \in 1 .. n /\ leaders[k] <= b
      /\ \A j \in 1 .. n : leaders[j] <= b => j <= k
  BY <1>1, LatestActs DEF Acting, LatestOf
<1>3. \A j \in 1 .. Len(leaders) : leaders[j] \in Nat
  BY <1>1
<1>4. \A j \in k + 1 .. Len(leaders) : leaders[j] > b
  BY <1>2, <1>3
<1>5. LatestOf(leaders, Len(leaders), b) = k
  <2> HIDE DEF k
  <2> QED BY <1>1, <1>2, <1>4, LatestIs
<1> QED BY <1>5 DEF Acting, LatestOf

LEMMA ActingRange ==
  ASSUME NEW n \in Nat, NEW b \in Nat
  PROVE  Acting(n, b) \in 0 .. n
<1> DEFINE S == {0} \cup {i \in 1 .. n : leaders[i] <= b}
<1>1. S \in SUBSET (0 .. n) /\ S # {}
  OBVIOUS
<1>2. Max(S) \in S
  <2> HIDE DEF S
  <2> QED BY <1>1, Greatest
<1> QED BY <1>1, <1>2 DEF Acting

\* When the loop looks at the time again.
LEMMA Sleeps ==
  ASSUME WeightsTypeOK, NEW time \in Nat, SleepUntil(time)
  PROVE  pc' = "sleep" /\ due' = IF time >= now + 1 THEN time ELSE now + 1
BY Later DEF SleepUntil, WeightsTypeOK

LEMMA SuccessSleeps ==
  ASSUME WeightsTypeOK, Success
  PROVE  pc' = "sleep" /\ due' = IF start + Interval >= now + 1 THEN start + Interval ELSE now + 1
<1>1. start + Interval \in Nat
  BY TimingAssumption DEF WeightsTypeOK
<1> QED BY <1>1, Sleeps DEF Success

LEMMA RetrySleeps ==
  ASSUME WeightsTypeOK, NEW time \in 0 .. now, RetryFrom(time)
  PROVE  /\ pc' = "sleep" /\ due' \in Nat
         /\ due' >= now + 1 /\ (due' = now + 1 \/ due' <= time + Interval)
<1>1. PICK r \in Retries : SleepUntil(time + r)
  BY DEF RetryFrom
<1>2. now \in Nat /\ r \in Nat /\ r <= Interval /\ time + r \in Nat /\ Interval \in Nat
  BY TimingAssumption, IntervalAssumption DEF WeightsTypeOK
<1> QED BY <1>1, <1>2, Sleeps

LEMMA IterationEnds ==
  ASSUME WeightsTypeOK, Success \/ RetryFrom(start) \/ RetryFrom(now)
  PROVE  /\ pc' = "sleep" /\ due' \in Nat
         /\ now + 1 <= due' /\ due' <= now + Interval
<1>1. now \in Nat /\ start \in 0 .. now /\ now \in 0 .. now
  BY DEF WeightsTypeOK
<1>2. Interval \in Nat /\ Interval >= 1
  BY TimingAssumption, IntervalAssumption
<1>3. CASE Success
  BY <1>1, <1>2, <1>3, SuccessSleeps
<1>4. CASE RetryFrom(start) \/ RetryFrom(now)
  BY <1>1, <1>2, <1>4, RetrySleeps
<1> QED BY <1>3, <1>4

\* What failed is tried again within an interval and a timeout of its start,
\* and what succeeded is repeated within an interval and a turn.
LEMMA FailsBy ==
  ASSUME WeightsTypeOK, TimeLeft, pc # "sleep", RetryFrom(start) \/ RetryFrom(now)
  PROVE  due' <= start + Interval + Timeout
<1>1. now \in Nat /\ start \in 0 .. now /\ now \in 0 .. now /\ now <= start + Timeout
  BY DEF WeightsTypeOK, TimeLeft
<1>2. Interval \in Nat /\ Interval >= 1 /\ Timeout \in Nat
  BY TimingAssumption, IntervalAssumption
<1>3. CASE RetryFrom(start)
  BY <1>1, <1>2, <1>3, RetrySleeps
<1>4. CASE RetryFrom(now)
  BY <1>1, <1>2, <1>4, RetrySleeps
<1> QED BY <1>3, <1>4

LEMMA SucceedsBy ==
  ASSUME WeightsTypeOK, TimeLeft, pc # "sleep", Success
  PROVE  due' <= start + Interval + 1
<1>1. now \in Nat /\ start \in 0 .. now /\ now <= start + Timeout
  BY DEF WeightsTypeOK, TimeLeft
<1>2. Interval \in Nat /\ Interval >= Timeout /\ Timeout \in Nat
  BY TimingAssumption, IntervalAssumption
<1> QED BY <1>1, <1>2, SuccessSleeps

\* How an action of the loop ends an iteration.
LEMMA LoopEnds ==
  ASSUME WeightsTypeOK, Iteration
  PROVE  /\ FetchLeaders \/ pc # "sleep"
         /\ \/ pc' # "sleep" /\ UNCHANGED due
            \/ Success /\ UNCHANGED failures
            \/ (RetryFrom(start) \/ RetryFrom(now)) /\ Failure
         /\ UNCHANGED failures \/ Failure
         /\ UNCHANGED world
BY DEF Iteration, FetchLeaders, ReadBlock, ResolveLeader, ResolveTo, SetWeights,
   SetWeightsFails, VerifyWeights, VerificationFails, IterationRaises, IterationTimesOut

LEMMA WeightsTypeStep == WeightsTypeOK /\ [WeightsNext]_weightsVars => WeightsTypeOK'
<1> SUFFICES ASSUME WeightsTypeOK, [WeightsNext]_weightsVars PROVE WeightsTypeOK'
  OBVIOUS
<1>1. /\ now \in Nat /\ Len(leaders) \in Nat /\ leaders \in Seq(Nat)
      /\ MaxTime \in Nat /\ MaxFailures \in Nat /\ MaxLeaders \in Nat
  BY TimingAssumption DEF WeightsTypeOK
<1>2. CASE Iteration
  <2>1. UNCHANGED world /\ failures' \in 0 .. MaxFailures
    BY <1>1, <1>2, LoopEnds DEF Failure, WeightsTypeOK
  <2>2. due' \in Nat
    BY <1>2, LoopEnds, IterationEnds DEF WeightsTypeOK
  <2>3. pc' \in {"sleep", "fetched", "resolve", "set", "verify"}
    BY <1>2, IterationEnds DEF Iteration, FetchLeaders, ReadBlock, ResolveLeader, ResolveTo,
       SetWeights, SetWeightsFails, VerifyWeights, VerificationFails, IterationRaises,
       IterationTimesOut
  <2>4. Acting(seen, now) \in 0 .. Len(leaders)
    <3>1. seen \in Nat /\ seen <= Len(leaders)
      BY <1>1 DEF WeightsTypeOK
    <3>2. Acting(seen, now) \in 0 .. seen
      BY <1>1, <3>1, ActingRange
    <3> QED BY <1>1, <3>1, <3>2
  <2>5. /\ start' \in 0 .. now /\ ref' \in 0 .. now /\ seen' \in 0 .. Len(leaders)
        /\ target' \in [leader : 0 .. Len(leaders), at : 0 .. now]
        /\ paid' \in [leader : 0 .. Len(leaders), update : -1 .. now]
    <3> USE DEF WeightsTypeOK
    <3>1. CASE FetchLeaders
      BY <1>1, <3>1 DEF FetchLeaders
    <3>2. CASE ReadBlock
      BY <1>1, <3>2 DEF ReadBlock
    <3>3. CASE ResolveLeader
      BY <1>1, <2>4, <3>3 DEF ResolveLeader, ResolveTo
    <3>4. CASE SetWeights
      BY <1>1, <3>4 DEF SetWeights
    <3>5. CASE SetWeightsFails \/ VerifyWeights \/ VerificationFails \/ IterationRaises
               \/ IterationTimesOut
      BY <3>5 DEF SetWeightsFails, VerifyWeights, VerificationFails, IterationRaises,
         IterationTimesOut
    <3> QED BY <1>2, <3>1, <3>2, <3>3, <3>4, <3>5 DEF Iteration
  <2> QED BY <2>1, <2>2, <2>3, <2>5 DEF WeightsTypeOK, world
<1>3. CASE Tick
  BY <1>1, <1>3 DEF Tick, WeightsTypeOK
<1>4. CASE PublishLeader
  <2>1. PICK d \in Leads : leaders' = Append(leaders, now + d)
    BY <1>4 DEF PublishLeader
  <2>2. now + d \in Nat
    BY <1>1, TimingAssumption
  <2>3. leaders' \in Seq(Nat) /\ Len(leaders') = Len(leaders) + 1
    BY <1>1, <2>1, <2>2
  <2> QED BY <1>1, <1>4, <2>3 DEF PublishLeader, WeightsTypeOK
<1>5. CASE UNCHANGED weightsVars
  BY <1>5 DEF weightsVars, WeightsTypeOK
<1> QED BY <1>2, <1>3, <1>4, <1>5 DEF WeightsNext

LEMMA WeightsInitially == WeightsInit => WeightsInv
<1> SUFFICES ASSUME WeightsInit PROVE WeightsInv
  OBVIOUS
<1>1. /\ Interval \in Nat /\ Timeout \in Nat /\ MaxFailures \in Nat /\ MaxTime \in Nat
      /\ MaxLeaders \in Nat /\ MaxLeaders >= 1
  BY TimingAssumption
<1>2. /\ leaders = <<0>> /\ leaders \in Seq(Nat) /\ Len(leaders) = 1 /\ leaders[1] = 0
      /\ now = 0 /\ pc = "sleep" /\ due = 0 /\ failures = 0
  BY DEF WeightsInit
<1>3. WeightsTypeOK
  BY <1>1, <1>2 DEF WeightsTypeOK, WeightsInit
<1>4. LeadersOrdered
  BY <1>2 DEF LeadersOrdered
<1>5. ActingNow = 1
  BY <1>2, <1>3, <1>4, ActingFacts DEF ActingNow
<1>6. TimeLeft /\ Resolved /\ StaleStartedBefore
  BY <1>1, <1>2 DEF TimeLeft, Resolved, StaleStartedBefore
<1>7. due <= StartsBy
  BY <1>1, <1>2, <1>5 DEF StartsBy
<1> QED BY <1>2, <1>3, <1>4, <1>6, <1>7 DEF OnTheWay, WeightsInv

\* Every reachable value has its type.
THEOREM WeightsType == WeightsSpec => []WeightsTypeOK
<1>1. WeightsInit => WeightsTypeOK
  BY WeightsInitially DEF WeightsInv
<1> QED BY <1>1, WeightsTypeStep, PTL DEF WeightsSpec

\* The loop changes no leader.
LEMMA LoopWorld ==
  ASSUME WeightsTypeOK, LeadersOrdered, Iteration
  PROVE  LeadersOrdered' /\ ActingNow' = ActingNow /\ UNCHANGED <<now, leaders>>
<1>1. UNCHANGED <<now, leaders>>
  BY LoopEnds DEF world
<1> QED BY <1>1 DEF LeadersOrdered, ActingNow, Acting

LEMMA LoopTimeLeft ==
  ASSUME WeightsTypeOK, LeadersOrdered, TimeLeft, Iteration
  PROVE  TimeLeft'
<1>1. /\ now \in Nat /\ Len(leaders) \in Nat /\ Len(leaders) >= 1 /\ Timeout \in Nat
      /\ UNCHANGED <<now, leaders>> /\ start \in 0 .. now
  BY LoopWorld, TimingAssumption DEF WeightsTypeOK
<1>2. CASE pc' = "sleep"
  <2>1. Success \/ RetryFrom(start) \/ RetryFrom(now)
    BY <1>2, LoopEnds
  <2>2. now + 1 <= due' /\ due' <= now + Interval /\ due' \in Nat
    BY <2>1, IterationEnds
  <2> QED BY <1>1, <1>2, <2>2 DEF TimeLeft
<1>3. CASE pc' # "sleep" /\ FetchLeaders
  BY <1>1, <1>3 DEF FetchLeaders, TimeLeft
<1>4. CASE pc' # "sleep" /\ pc # "sleep"
  <2>1. UNCHANGED <<start, seen>>
    BY <1>4 DEF Iteration, FetchLeaders, ReadBlock, ResolveLeader, ResolveTo, SetWeights,
       SetWeightsFails, VerifyWeights, VerificationFails, IterationRaises, IterationTimesOut
  <2> QED BY <1>1, <1>4, <2>1 DEF TimeLeft
<1> QED BY <1>2, <1>3, <1>4, LoopEnds

\* _resolve_leader finds the leader acting by the file of now.
LEMMA ResolvesActing ==
  ASSUME WeightsTypeOK, LeadersOrdered, TimeLeft, ResolveLeader
  PROVE  /\ pc' = "set" /\ target'.at = now
         /\ \/ target'.leader = ActingNow /\ UNCHANGED failures
            \/ target'.leader = 0 /\ Failure
         /\ UNCHANGED <<start, paid, due>>
<1>1. pc = "resolve" /\ now \in Nat /\ start \in 0 .. now /\ Timeout \in Nat
  BY TimingAssumption DEF ResolveLeader, ResolveTo, WeightsTypeOK
<1>2. /\ seen \in 1 .. Len(leaders) /\ now <= start + Timeout
      /\ \A j \in seen + 1 .. Len(leaders) : leaders[j] > start + Timeout
  BY <1>1 DEF TimeLeft, WeightsTypeOK
<1>3. \A j \in seen + 1 .. Len(leaders) : leaders[j] \in Nat
  BY <1>2 DEF WeightsTypeOK
<1>4. \A j \in seen + 1 .. Len(leaders) : leaders[j] > now
  BY <1>1, <1>2, <1>3
<1>5. Acting(seen, now) = ActingNow
  BY <1>1, <1>2, <1>4, SeenSuffices DEF ActingNow
<1> QED BY <1>5 DEF ResolveLeader, ResolveTo

LEMMA LoopResolved ==
  ASSUME WeightsTypeOK, LeadersOrdered, TimeLeft, Resolved, Iteration
  PROVE  Resolved'
<1>1. /\ now \in Nat /\ start \in 0 .. now /\ failures \in Nat /\ failures' \in Nat
      /\ failures' >= failures /\ UNCHANGED <<now, leaders>>
  BY LoopWorld, LoopEnds DEF WeightsTypeOK, Failure
<1>2. SUFFICES ASSUME pc' = "set" PROVE Resolved'
  BY DEF Resolved
<1>3. CASE ResolveLeader
  <2>1. target'.at = now /\ UNCHANGED start
    BY <1>3, ResolvesActing
  <2>2. Acting(Len(leaders), target.at)' = ActingNow
    BY <1>1, <2>1 DEF ActingNow, Acting
  <2>3. ActingNow \in 1 .. Len(leaders)
    BY <1>1, ActingFacts DEF ActingNow
  <2>4. /\ target'.leader \in {0, ActingNow}
        /\ target'.leader = 0 => failures' > 0
    BY <1>1, <1>3, <2>3, ResolvesActing DEF Failure
  <2> QED BY <1>1, <2>1, <2>2, <2>4 DEF Resolved
<1>4. CASE ~ResolveLeader
  <2>1. FALSE
    BY <1>2, <1>4, LoopEnds, IterationEnds DEF Iteration, FetchLeaders, ReadBlock, SetWeights,
       SetWeightsFails, VerifyWeights, VerificationFails, IterationRaises, IterationTimesOut
  <2> QED BY <2>1
<1> QED BY <1>3, <1>4

LEMMA LoopStale ==
  ASSUME WeightsTypeOK, LeadersOrdered, TimeLeft, StaleStartedBefore, Iteration
  PROVE  StaleStartedBefore'
<1>1. /\ now \in Nat /\ failures \in Nat /\ failures' \in Nat /\ failures' >= failures
      /\ UNCHANGED <<now, leaders>> /\ ActingNow' = ActingNow
      /\ leaders'[ActingNow'] = leaders[ActingNow]
  BY LoopWorld, LoopEnds DEF WeightsTypeOK, Failure
<1>2. CASE pc' \notin {"set", "verify"}
  BY <1>2 DEF StaleStartedBefore
<1>3. CASE ResolveLeader
  BY <1>1, <1>3, ResolvesActing DEF StaleStartedBefore, Right, Failure
<1>4. CASE SetWeights
  <2>1. CASE pc' = "verify"
    BY <1>1, <1>4, <2>1 DEF SetWeights, StaleStartedBefore, Right
  <2> QED BY <1>2, <1>4, <2>1, SuccessSleeps DEF SetWeights
<1>5. CASE ~ResolveLeader /\ ~SetWeights
  BY <1>2, <1>5, LoopEnds, IterationEnds DEF Iteration, FetchLeaders, ReadBlock,
     SetWeightsFails, VerifyWeights, VerificationFails, IterationRaises, IterationTimesOut
<1> QED BY <1>3, <1>4, <1>5

\* While the same leader acts, his turn's deadline only moves with failures.
LEMMA LoopOnTheWay ==
  ASSUME WeightsInv, Iteration
  PROVE  OnTheWay'
<1> DEFINE b == leaders[ActingNow]
           late == failures * (Interval + Timeout)
<1> USE DEF WeightsInv
<1>1. /\ now \in Nat /\ start \in 0 .. now /\ due \in Nat /\ failures \in Nat
      /\ UNCHANGED <<now, leaders>> /\ ActingNow' = ActingNow /\ Len(leaders) \in Nat
  BY LoopWorld DEF WeightsTypeOK
<1>2. /\ Interval \in Nat /\ Timeout \in Nat /\ Interval >= 1 /\ Interval >= Timeout
      /\ Reign \in Nat /\ WaitForNext \in Nat
  BY TimingAssumption, IntervalAssumption
<1>3. ActingNow \in 1 .. Len(leaders) /\ b \in Nat /\ b <= now
      /\ \A j \in ActingNow + 1 .. Len(leaders) : leaders[j] > now
  BY <1>1, ActingFacts DEF ActingNow
<1>4. late \in Nat /\ StartsBy = b + Interval + late /\ Lateness = late + Interval + Timeout
  BY <1>1, <1>2 DEF StartsBy, Lateness
<1>5. /\ failures' \in Nat /\ failures' >= failures
      /\ StartsBy' \in Nat /\ StartsBy' >= StartsBy /\ Lateness' \in Nat /\ Lateness' >= Lateness
      /\ Failure => StartsBy' = StartsBy + Interval + Timeout
  <2>1. CASE UNCHANGED failures
    BY <1>1, <1>2, <1>3, <1>4, <2>1 DEF StartsBy, Lateness, Failure
  <2>2. CASE Failure
    <3>1. failures' * (Interval + Timeout) = late + Interval + Timeout
      BY <1>1, <1>2, <2>2 DEF Failure
    <3>2. failures' = failures + 1
      BY <2>2 DEF Failure
    <3> QED BY <1>1, <1>2, <1>3, <1>4, <3>1, <3>2 DEF StartsBy, Lateness
  <2> QED BY <2>1, <2>2, LoopEnds
<1> HIDE DEF b, late
\* Nothing is promised of the wait for the next leader.
<1>6. Reign <= Lateness + WaitForNext => Reign <= Lateness' + WaitForNext
  <2>1. Lateness \in Nat
    BY <1>2, <1>4
  <2>2. Lateness' \in Nat /\ Lateness' >= Lateness
    BY <1>5
  <2>3. \A x, y \in Nat : y >= x /\ Reign <= x + WaitForNext => Reign <= y + WaitForNext
    BY <1>2
  <2> QED BY <2>1, <2>2, <2>3
<1>7. CASE AwaitsNext /\ Reign <= Lateness + WaitForNext
  <2>1. AwaitsNext'
    BY <1>1, <1>7 DEF AwaitsNext
  <2>2. Reign <= Lateness' + WaitForNext
    BY <1>7, <1>6
  <2> QED BY <2>1, <2>2 DEF OnTheWay
<1>8. CASE FetchLeaders
  <2>1. pc = "sleep" /\ pc' = "fetched" /\ start' = now /\ UNCHANGED <<paid, failures>>
        /\ now >= due
    BY <1>8 DEF FetchLeaders
  <2>2. CASE Right(paid.leader)
    BY <1>1, <2>1, <2>2 DEF OnTheWay, Right
  <2>3. CASE due <= StartsBy
    BY <1>1, <1>4, <1>5, <2>1, <2>3, <1>3 DEF OnTheWay, TimeLeft
  <2> QED BY <1>7, <2>1, <2>2, <2>3 DEF OnTheWay
<1>9. CASE pc # "sleep" /\ Right(paid.leader) /\ (pc = "set" => Right(target.leader))
  <2>1. CASE ResolveLeader
    BY <1>1, <1>5, <1>9, <2>1, ResolvesActing DEF Right, OnTheWay, Failure
  <2>2. CASE SetWeights
    BY <1>1, <1>5, <1>9, <2>2, SuccessSleeps DEF SetWeights, Right, OnTheWay
  <2>3. CASE ~ResolveLeader /\ ~SetWeights
    <3>1. pc' # "set" /\ UNCHANGED paid
      BY <1>9, <2>3, LoopEnds, IterationEnds DEF Iteration, FetchLeaders, ReadBlock,
         SetWeightsFails, VerifyWeights, VerificationFails, IterationRaises, IterationTimesOut
    <3> QED BY <1>1, <1>5, <1>9, <3>1 DEF Right, OnTheWay
  <2> QED BY <2>1, <2>2, <2>3
<1>10. CASE pc # "sleep" /\ start <= StartsBy /\ (RetryFrom(start) \/ RetryFrom(now)) /\ Failure
  <2>1. due' <= start + Interval + Timeout /\ due' \in Nat /\ pc' = "sleep"
    BY <1>10, FailsBy, IterationEnds
  <2>2. due' <= StartsBy'
    BY <1>1, <1>2, <1>3, <1>4, <1>5, <1>10, <2>1
  <2> QED BY <2>1, <2>2 DEF OnTheWay
<1>11. CASE pc # "sleep" /\ start <= StartsBy /\ pc' # "sleep"
  <2>1. UNCHANGED start
    BY <1>11 DEF Iteration, FetchLeaders, ReadBlock, ResolveLeader, ResolveTo, SetWeights,
       SetWeightsFails, VerifyWeights, VerificationFails, IterationRaises, IterationTimesOut
  <2>2. start <= StartsBy'
    BY <1>1, <1>2, <1>3, <1>4, <1>5, <1>11
  <2> QED BY <1>11, <2>1, <2>2 DEF OnTheWay
<1>12. CASE pc # "sleep" /\ start <= StartsBy /\ Success /\ UNCHANGED failures /\ pc' = "sleep"
  <2>1. due' <= start + Interval + 1 /\ pc' = "sleep" /\ due' \in Nat
        /\ due' = IF start + Interval >= now + 1 THEN start + Interval ELSE now + 1
    BY <1>12, SucceedsBy, SuccessSleeps, IterationEnds
  \* An iteration that started before the leader acted.
  <2>2. CASE start < b
    <3>1. due' <= StartsBy'
      BY <1>1, <1>2, <1>3, <1>4, <1>5, <2>1, <2>2
    <3> QED BY <2>1, <3>1 DEF OnTheWay
  <2>3. CASE start >= b
    <3>1. CASE SetWeights
      <4>1. Right(target.leader) /\ paid'.leader = target.leader
        BY <2>3, <3>1 DEF SetWeights, StaleStartedBefore, b
      <4> QED BY <1>1, <1>12, <4>1 DEF OnTheWay, Right
    <3>2. CASE VerifyWeights
      <4>1. Right(paid.leader) /\ paid' = paid
        BY <2>3, <3>2 DEF VerifyWeights, StaleStartedBefore, b
      <4> QED BY <1>1, <1>12, <4>1 DEF OnTheWay, Right
    <3>3. CASE ReadBlock
      <4>1. pc = "fetched" /\ Postpones(leaders[seen])
        BY <1>12, <3>3 DEF ReadBlock
      <4>2. seen \in 1 .. Len(leaders) /\ now <= start + Timeout
        BY <1>1, <4>1 DEF TimeLeft, WeightsTypeOK
      <4>3. leaders[seen] \in Nat
        BY <4>2 DEF WeightsTypeOK
      <4>4. now < leaders[seen] /\ leaders[seen] <= now + WaitForNext
        BY <1>1, <1>2, <4>1, <4>3 DEF Postpones
      <4>5. AwaitsNext'
        BY <1>1, <1>2, <4>2, <4>3, <4>4 DEF AwaitsNext
      <4>6. ActingNow < seen
        <5>1. \A j \in 1 .. ActingNow : leaders[j] <= b
          <6> SUFFICES ASSUME NEW j \in 1 .. ActingNow PROVE leaders[j] <= b
            OBVIOUS
          <6>1. j \in 1 .. Len(leaders) /\ (j = ActingNow \/ j < ActingNow)
            BY <1>1, <1>3
          <6>2. leaders[j] \in Nat
            BY <6>1 DEF WeightsTypeOK
          <6>3. j = ActingNow \/ leaders[j] + Reign <= b
            BY <1>3, <6>1 DEF LeadersOrdered, b
          <6> QED BY <1>2, <1>3, <6>2, <6>3 DEF b
        <5> QED BY <1>1, <1>3, <4>2, <4>3, <4>4, <5>1
      <4>7. b + Reign <= leaders[seen]
        BY <1>1, <1>3, <4>2, <4>6 DEF LeadersOrdered, b
      <4>8. Reign <= Lateness + WaitForNext
        BY <1>1, <1>2, <1>3, <1>4, <1>12, <4>2, <4>3, <4>4, <4>7
      <4>9. Reign <= Lateness' + WaitForNext
        BY <4>8, <1>6
      <4> QED BY <4>5, <4>9 DEF OnTheWay
    <3> QED BY <1>1, <1>12, <3>1, <3>2, <3>3, ResolvesActing DEF Iteration, FetchLeaders,
            SetWeightsFails, VerificationFails, IterationRaises, IterationTimesOut, Failure
  <2> QED BY <1>1, <1>3, <2>2, <2>3
<1> QED BY <1>7, <1>8, <1>9, <1>10, <1>11, <1>12, LoopEnds DEF OnTheWay

LEMMA TickKept ==
  ASSUME WeightsInv, Tick
  PROVE  WeightsInv'
<1> USE DEF WeightsInv
<1>1. WeightsTypeOK'
  BY WeightsTypeStep DEF WeightsNext
<1>2. /\ UNCHANGED <<leaders, pc, start, ref, seen, target, due, paid, failures>>
      /\ now' = now + 1 /\ now \in Nat /\ start \in 0 .. now /\ due \in Nat /\ failures \in Nat
      /\ IF pc = "sleep" THEN now < due ELSE now < start + Timeout
      /\ Len(leaders) \in Nat
  BY DEF Tick, WeightsTypeOK
<1>3. /\ Interval \in Nat /\ Timeout \in Nat /\ Interval >= 1 /\ Interval >= Timeout
      /\ Reign \in Nat /\ WaitForNext \in Nat
  BY TimingAssumption, IntervalAssumption
<1>4. LeadersOrdered'
  BY <1>2 DEF LeadersOrdered
<1>5. TimeLeft'
  BY <1>2, <1>3 DEF TimeLeft
<1>6. Resolved'
  <2>1. Acting(Len(leaders), target.at)' = Acting(Len(leaders), target.at)
    BY <1>2 DEF Acting
  <2> QED BY <1>2, <2>1 DEF Resolved
<1> DEFINE k == ActingNow
           l == ActingNow'
<1>7. /\ k \in 1 .. Len(leaders) /\ leaders[k] \in Nat /\ leaders[k] <= now
      /\ \A j \in k + 1 .. Len(leaders) : leaders[j] > now
  BY <1>2, ActingFacts DEF ActingNow
<1>8. /\ l \in 1 .. Len(leaders) /\ leaders[l] \in Nat /\ leaders[l] <= now + 1
      /\ \A j \in l + 1 .. Len(leaders) : leaders[j] > now + 1
  <2>1. WeightsTypeOK /\ LeadersOrdered /\ now + 1 \in Nat
    BY <1>2
  <2>2. l = Acting(Len(leaders), now + 1)
    BY <1>2 DEF ActingNow, Acting
  <2> QED BY <2>1, <2>2, ActingFacts
<1> HIDE DEF k, l
<1>9. leaders[l] = now + 1 \/ k = l
  <2>1. \A j \in 1 .. Len(leaders) : leaders[j] \in Nat
    BY DEF WeightsTypeOK
  <2>2. k <= l
    BY <1>2, <1>7, <1>8
  <2> QED BY <1>2, <1>7, <1>8, <2>1, <2>2
<1>10. failures * (Interval + Timeout) \in Nat
  BY <1>2, <1>3
\* A leader whose turn begins: whatever goes on started before.
<1>11. CASE leaders[l] = now + 1
  <2>1. StaleStartedBefore'
    BY <1>2, <1>11 DEF StaleStartedBefore, l
  <2>2. OnTheWay'
    <3>1. StartsBy' = now + 1 + Interval + failures * (Interval + Timeout)
      BY <1>2, <1>11 DEF StartsBy, l
    <3>2. pc = "sleep" => due <= StartsBy'
      BY <1>2, <1>3, <1>10, <3>1 DEF TimeLeft
    <3>3. pc # "sleep" => start <= StartsBy'
      BY <1>2, <1>3, <1>10, <3>1
    <3> QED BY <1>2, <3>2, <3>3 DEF OnTheWay
  <2> QED BY <1>1, <1>4, <1>5, <1>6, <2>1, <2>2
<1>12. CASE k = l /\ leaders[l] # now + 1
  <2>1. \A x : Right(x)' <=> x = k \/ (failures > 0 /\ x = 0)
    BY <1>2, <1>12 DEF Right, k, l
  <2>2. StaleStartedBefore'
    BY <1>2, <1>12 DEF StaleStartedBefore, Right, k, l
  <2>3. UNCHANGED <<StartsBy, Lateness>>
    BY <1>2, <1>12 DEF StartsBy, Lateness, k, l
  <2>4. AwaitsNext => AwaitsNext'
    <3> SUFFICES ASSUME NEW j \in 1 .. Len(leaders), leaders[j] \in now + 1 .. now + WaitForNext
                 PROVE  AwaitsNext'
      BY DEF AwaitsNext
    <3>1. leaders[j] > leaders[l]
      BY <1>2, <1>3, <1>7, <1>12
    <3>2. j > l
      <4> SUFFICES ASSUME j < l PROVE FALSE
        BY <1>2, <1>8, <3>1
      <4>1. leaders[j] + Reign <= leaders[l]
        BY <1>8 DEF LeadersOrdered
      <4> QED BY <1>2, <1>3, <1>8, <3>1, <4>1
    <3>3. leaders[j] > now + 1
      BY <1>2, <1>8, <3>2
    <3> QED BY <1>2, <1>3, <3>3 DEF AwaitsNext
  <2>5. OnTheWay'
    BY <1>2, <1>12, <2>3, <2>4 DEF OnTheWay, Right, k, l
  <2> QED BY <1>1, <1>4, <1>5, <1>6, <2>2, <2>5
<1> QED BY <1>9, <1>11, <1>12

LEMMA PublishKept ==
  ASSUME WeightsInv, PublishLeader
  PROVE  WeightsInv'
<1> USE DEF WeightsInv
<1> DEFINE n == Len(leaders)
<1>1. WeightsTypeOK'
  BY WeightsTypeStep DEF WeightsNext
<1>2. PICK d \in Leads : /\ now + d >= leaders[n] + Reign
                         /\ leaders' = Append(leaders, now + d)
  BY DEF PublishLeader
<1>3. /\ UNCHANGED <<now, pc, start, ref, seen, target, due, paid, failures>>
      /\ now \in Nat /\ start \in 0 .. now /\ leaders \in Seq(Nat) /\ n \in Nat /\ n >= 1
      /\ target.at \in 0 .. now /\ seen \in 0 .. n
  BY DEF PublishLeader, WeightsTypeOK
<1>4. /\ Timeout \in Nat /\ Reign \in Nat /\ WaitForNext \in Nat /\ d \in Nat /\ d > Timeout
  BY TimingAssumption
<1>5. /\ Len(leaders') = n + 1 /\ leaders'[n + 1] = now + d
      /\ \A j \in 1 .. n : leaders'[j] = leaders[j] /\ leaders[j] \in Nat
  BY <1>2, <1>3, <1>4
<1> HIDE DEF n
<1>6. LeadersOrdered'
  <2>1. leaders'[1] = 0
    BY <1>3, <1>5 DEF LeadersOrdered
  <2>2. ASSUME NEW j \in 1 .. n + 1, NEW k \in 1 .. n + 1, j < k
        PROVE  leaders'[j] + Reign <= leaders'[k]
    <3>1. CASE k \in 1 .. n
      BY <1>3, <1>5, <2>2, <3>1 DEF LeadersOrdered, n
    <3>2. CASE k = n + 1
      <4>1. j = n \/ (j \in 1 .. n /\ leaders[j] + Reign <= leaders[n])
        BY <1>3, <2>2, <3>2 DEF LeadersOrdered, n
      <4> QED BY <1>2, <1>3, <1>4, <1>5, <2>2, <3>2, <4>1 DEF n
    <3> QED BY <1>3, <3>1, <3>2
  <2> QED BY <1>3, <1>5, <2>1, <2>2 DEF LeadersOrdered
\* Who acted until now is not changed by a later leader.
<1>7. ASSUME NEW b \in 0 .. now
      PROVE  Acting(Len(leaders), b)' = Acting(Len(leaders), b)
  <2>1. \A i : i \in 1 .. n + 1 /\ leaders'[i] <= b <=> i \in 1 .. n /\ leaders[i] <= b
    BY <1>3, <1>4, <1>5
  <2>2. {i \in 1 .. n + 1 : leaders'[i] <= b} = {i \in 1 .. n : leaders[i] <= b}
    BY <2>1
  <2> QED BY <1>5, <2>2 DEF Acting, n
<1>8. ActingNow' = ActingNow
  BY <1>3, <1>7 DEF ActingNow, Acting
<1>9. ActingNow \in 1 .. n /\ leaders'[ActingNow'] = leaders[ActingNow]
  BY <1>3, <1>5, <1>8, ActingFacts DEF ActingNow, n
<1>10. TimeLeft'
  <2>1. pc # "sleep" => \A j \in seen + 1 .. n + 1 : leaders'[j] > start + Timeout
    BY <1>3, <1>4, <1>5 DEF TimeLeft, n
  <2> QED BY <1>3, <1>5, <2>1 DEF TimeLeft
<1>11. Resolved'
  <2>1. Acting(Len(leaders), target.at)' = Acting(Len(leaders), target.at)
    BY <1>3, <1>7 DEF Acting
  <2> QED BY <1>3, <2>1 DEF Resolved
<1>12. StaleStartedBefore'
  BY <1>3, <1>8, <1>9 DEF StaleStartedBefore, Right
<1>13. OnTheWay'
  <2>1. UNCHANGED <<StartsBy, Lateness>>
    BY <1>3, <1>9 DEF StartsBy, Lateness
  <2>2. AwaitsNext => AwaitsNext'
    BY <1>3, <1>5 DEF AwaitsNext, n
  <2> QED BY <1>3, <1>8, <2>1, <2>2 DEF OnTheWay, Right
<1> QED BY <1>1, <1>6, <1>10, <1>11, <1>12, <1>13

LEMMA WeightsStep == WeightsInv /\ [WeightsNext]_weightsVars => WeightsInv'
<1> SUFFICES ASSUME WeightsInv, [WeightsNext]_weightsVars PROVE WeightsInv'
  OBVIOUS
<1>1. CASE Iteration
  BY <1>1, WeightsTypeStep, LoopWorld, LoopTimeLeft, LoopResolved, LoopStale, LoopOnTheWay
     DEF WeightsInv, WeightsNext
<1>2. CASE UNCHANGED weightsVars
  BY <1>2 DEF weightsVars, WeightsInv, WeightsTypeOK, LeadersOrdered, TimeLeft, Resolved,
     StaleStartedBefore, OnTheWay, Right, ActingNow, Acting, StartsBy, AwaitsNext, Lateness
<1> QED BY <1>1, <1>2, TickKept, PublishKept DEF WeightsNext

\* Between the reads of leader.json and of the two blocks a leader may begin to
\* act and another be published (weights_service.py:128-162): whom the weights
\* pay is still the leader acting at the second block, by the file of now.
THEOREM ActingLeaderIsPaid == WeightsSpec => PaysActingLeader
<1> DEFINE Pays == paid' # paid => /\ paid'.leader \in {0, Acting(Len(leaders), target.at)}
                                   /\ paid'.leader = 0 => failures > 0
                                   /\ now - target.at <= Timeout
<1>1. WeightsInv /\ [WeightsNext]_weightsVars => [Pays]_weightsVars
  <2> SUFFICES ASSUME WeightsInv, [WeightsNext]_weightsVars, paid' # paid PROVE Pays
    OBVIOUS
  <2>1. SetWeights
    BY DEF WeightsNext, weightsVars, Tick, PublishLeader, Iteration, FetchLeaders, ReadBlock,
       ResolveLeader, ResolveTo, SetWeightsFails, VerifyWeights, VerificationFails,
       IterationRaises, IterationTimesOut
  <2>2. /\ now \in Nat /\ start \in 0 .. now /\ target.at \in 0 .. now /\ Timeout \in Nat
        /\ pc = "set" /\ now <= start + Timeout
    BY <2>1, TimingAssumption DEF WeightsInv, WeightsTypeOK, SetWeights, TimeLeft
  <2> QED BY <2>1, <2>2 DEF WeightsInv, SetWeights, Resolved
<1> QED BY <1>1, WeightsInitially, WeightsStep, PTL DEF WeightsSpec, PaysActingLeader

\* However the reads, the failures, the retries and the postponements fall
\* together, the chain pays the acting leader in time (weights_service.py:87-146).
THEOREM LeaderIsPaidInTime == WeightsSpec => []PaidInTime
<1>1. WeightsInv => PaidInTime
  <2> SUFFICES ASSUME WeightsInv, now > leaders[ActingNow] + Lateness,
                      AwaitsNext => Lateness + WaitForNext < Reign
               PROVE  Right(paid.leader)
    BY DEF PaidInTime, Right, ActingNow
  <2>1. /\ now \in Nat /\ start \in 0 .. now /\ due \in Nat /\ failures \in Nat
        /\ leaders[ActingNow] \in Nat
    <3>1. now \in Nat
      BY DEF WeightsInv, WeightsTypeOK
    <3>2. leaders[ActingNow] \in Nat
      BY <3>1, ActingFacts DEF WeightsInv, ActingNow
    <3> QED BY <3>1, <3>2 DEF WeightsInv, WeightsTypeOK
  <2>2. Interval \in Nat /\ Timeout \in Nat /\ Reign \in Nat /\ WaitForNext \in Nat
    BY TimingAssumption
  <2>3. /\ Lateness = failures * (Interval + Timeout) + Interval + Timeout
        /\ failures * (Interval + Timeout) \in Nat
    BY <2>1, <2>2 DEF Lateness
  <2>4. ~ (pc = "sleep" /\ due <= StartsBy) /\ ~ (pc # "sleep" /\ start <= StartsBy)
    BY <2>1, <2>2, <2>3 DEF WeightsInv, TimeLeft, StartsBy
  <2> QED BY <2>1, <2>2, <2>3, <2>4 DEF WeightsInv, OnTheWay
<1> QED BY <1>1, WeightsInitially, WeightsStep, PTL DEF WeightsSpec

=============================================================================
