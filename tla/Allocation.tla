----------------------------- MODULE Allocation -----------------------------
(***************************************************************************)
(* The Pod gateway's admission: the durable queue of start requests        *)
(* (StartQueue), the one worker thread that turns its head into a RunPod    *)
(* create (Gateway._advance, Allocator._progress) and the round rollover.   *)
(*                                                                         *)
(* A create is an external POST that is never repeated: its effect may be   *)
(* late, its reply may be lost, and the gateway may die at any point. The   *)
(* journal is one object written with a conditional PUT, so a save whose    *)
(* reply is lost may be applied later, or never.  Requests reach the        *)
(* journal from a thread of their own while the worker is at work.          *)
(*                                                                         *)
(* Fencing of the Pods themselves is the subject of Fencing.  Here a Pod    *)
(* is there or not, and a retirement takes it away.                         *)
(***************************************************************************)
EXTENDS Naturals, FiniteSets

CONSTANTS
  Hotkeys,     \* miners' hotkeys
  Starts,      \* start ids, chosen by the miners (two may choose the same one)
  NoStart,     \* no start id
  LastRound,   \* bound: rounds 1..LastRound are opened
  MaxPods,     \* Admission.max_pods
  MaxEntries,  \* bound: requests that become queue entries
  MaxFaults    \* bound: failed or uncertain saves, lost replies, fences, crashes

ASSUME MaxPodsAssumption == MaxPods \in Nat \ {0}
ASSUME LastRoundAssumption == LastRound \in Nat \ {0}
ASSUME NoStartAssumption == NoStart \notin Starts
ASSUME BoundsAssumption == MaxEntries \in Nat /\ MaxFaults \in Nat
ASSUME FiniteAssumption == IsFiniteSet(Hotkeys) /\ IsFiniteSet(Starts)

Rounds == 1 .. LastRound

\* A create's identity: the scope (hotkey and round) and the start id.
Creates == [hotkey : Hotkeys, round : Rounds, start : Starts]

\* PendingStart and CreateAttempt.  A request that found an entry pending is an
\* attempt without an entry of its own.
Entries == [hotkey : Hotkeys, round : Rounds, start : Starts,
            seq : Nat, submitted : BOOLEAN]
Attempts == [hotkey : Hotkeys, round : Rounds, start : Starts,
             seq : Nat, submitted : BOOLEAN]

\* QueueState.  "last" is the hotkey's most recent submitted start (attempts).
Queues == [pending : SUBSET Entries, history : SUBSET Attempts,
           last : [Hotkeys -> Starts \union {NoStart}],
           retained : SUBSET Creates, sequence : Nat]

EmptyQueue == [pending |-> {}, history |-> {}, last |-> [h \in Hotkeys |-> NoStart],
               retained |-> {}, sequence |-> 0]

Phases == {"draining", "creating", "allocated", "rejected", "retired", "lost"}

VARIABLES
  journal,   \* the saved QueueState
  late,      \* saves that timed out and may still be applied
  cache,     \* StartQueue._state of the running gateway
  ops,       \* Allocator.operations: per create, its Operation's phase
  finished,  \* Gateway._progress: results still to be completed in the journal
  task,      \* what the lifecycle worker thread is doing
  round,     \* Gateway.round (0: unconfigured)
  inputs,    \* RoundController.inputs' round
  rolled,    \* round_changed is between its rollover and its use_round
  flight,    \* creates sent whose effect is not decided
  overdue,   \* creates whose round and whose discovery grace are both over
  pods,      \* the provider's inventory
  stray,     \* history: creates that took effect when they were overdue
  exited,    \* creates whose Pod stopped by itself (it stays in the inventory)
  posts,     \* history: how often each create was sent
  faults     \* faults so far

gateway == <<cache, ops, finished, task, round, rolled>>
provider == <<flight, pods, stray, exited, posts>>
vars == <<journal, late, gateway, inputs, overdue, provider, faults>>

CreateOf(x) == [hotkey |-> x.hotkey, round |-> x.round, start |-> x.start]
Idle == [at |-> "idle"]
At(point, c) == [at |-> point, create |-> c]
Submitted(op) == op.phase # "draining"

EntryOf(q, c) == {e \in q.pending : CreateOf(e) = c}
AttemptOf(q, c) == {a \in q.history : CreateOf(a) = c}
PendingOf(q, h) == {e \in q.pending : e.hotkey = h}

-----------------------------------------------------------------------------
(* StartQueue's changes, as functions of the journal they load.             *)

\* enqueue: a request joins the hotkey's pending entry, or becomes one.
Enqueued(q, c) ==
  IF PendingOf(q, c.hotkey) # {}
  THEN LET e == CHOOSE e \in PendingOf(q, c.hotkey) : TRUE
       IN [q EXCEPT !.history = @ \union
             {[hotkey |-> c.hotkey, round |-> c.round, start |-> c.start,
               seq |-> e.seq, submitted |-> FALSE]}]
  ELSE [q EXCEPT !.sequence = @ + 1,
                 !.pending = @ \union
                   {[hotkey |-> c.hotkey, round |-> c.round, start |-> c.start,
                     seq |-> q.sequence + 1, submitted |-> FALSE]},
                 !.history = @ \union
                   {[hotkey |-> c.hotkey, round |-> c.round, start |-> c.start,
                     seq |-> q.sequence + 1, submitted |-> FALSE]}]

CanEnqueue(q, c) ==
  /\ \A e \in PendingOf(q, c.hotkey) : e.round = c.round
  /\ AttemptOf(q, c) = {}

MarkSubmitted(S, c, value) ==
  {IF CreateOf(x) = c THEN [x EXCEPT !.submitted = value] ELSE x : x \in S}

\* authorize: only an entry not yet submitted, whose start was never attempted.
CanAuthorize(q, c) ==
  /\ \E e \in EntryOf(q, c) : ~e.submitted
  /\ \A a \in AttemptOf(q, c) : ~a.submitted

Authorized(q, c) ==
  [q EXCEPT !.pending = MarkSubmitted(@, c, TRUE),
            !.history = MarkSubmitted(@, c, TRUE),
            !.last = [@ EXCEPT ![c.hotkey] = c.start]]

\* The hotkey's latest other submitted attempt in the round.
Previous(q, c) ==
  LET S == {a \in q.history : /\ a.hotkey = c.hotkey /\ a.round = c.round
                              /\ a.submitted /\ a.start # c.start}
  IN IF S = {} THEN NoStart
     ELSE (CHOOSE a \in S : \A b \in S : b.seq <= a.seq).start

\* release_authorization: a confirmed undispatched intent returns to the queue.
Released(q, c) ==
  IF \E e \in EntryOf(q, c) : e.submitted
  THEN [q EXCEPT !.pending = MarkSubmitted(@, c, FALSE),
                 !.history = MarkSubmitted(@, c, FALSE),
                 !.last = [@ EXCEPT ![c.hotkey] = Previous(q, c)]]
  ELSE q

\* Mutant: a submitted entry is never taken off the queue.
CompletedUnsubmitted(q, c) == [q EXCEPT !.pending = @ \ {e \in EntryOf(q, c) : ~e.submitted}]
Completed(q, c) == [q EXCEPT !.pending = @ \ EntryOf(q, c)]

\* cancel: never an entry that was submitted.
Cancelled(q, c) == [q EXCEPT !.pending = @ \ {e \in EntryOf(q, c) : ~e.submitted}]

\* rollover: older entries leave the queue; a submitted one is retained for
\* the discovery grace of its attempt, and by its age alone forgotten.
RolledOver(q, r) ==
  LET uncertain == {e \in q.pending : e.round # r /\ e.submitted}
  IN [q EXCEPT !.retained = (@ \union {CreateOf(e) : e \in uncertain}) \ overdue,
               !.pending = {e \in @ : e.round = r},
               !.history = {a \in @ : a.round = r},
               !.last = [h \in Hotkeys |->
                           IF \E a \in q.history : /\ a.hotkey = h /\ a.round = r
                                                   /\ a.start = q.last[h]
                           THEN q.last[h] ELSE NoStart]]

-----------------------------------------------------------------------------
(* R2StateStore.save: a conditional PUT.  Every applied save changes the     *)
(* journal's revision, which no save still in flight can match any more.    *)

Fault == faults < MaxFaults /\ faults' = faults + 1

Saved(q) ==
  /\ journal' = q
  /\ cache' = q
  /\ late' = {}
  /\ UNCHANGED faults

\* Refused, or unconfirmed: not applied, applied already or applied later.
NotSaved(q) ==
  /\ Fault
  /\ \/ UNCHANGED <<journal, late>>
     \/ journal' = q /\ late' = {}
     \/ late' = late \union {q} /\ UNCHANGED journal
  /\ UNCHANGED cache

\* A save that timed out is applied after all.
LateSave ==
  /\ \E q \in late : journal' = q
  /\ late' = {}
  /\ UNCHANGED <<gateway, inputs, overdue, provider, faults>>

\* _work reloads the journal every poll_seconds.
LoadJournal ==
  /\ cache # journal
  /\ cache' = journal
  /\ UNCHANGED <<journal, late, ops, finished, task, round, rolled, inputs, overdue, provider, faults>>

-----------------------------------------------------------------------------
(* A miner's POST /v1/pods/start, on the admission thread.                   *)

Start(h, s) ==
  LET c == [hotkey |-> h, round |-> round, start |-> s]
  IN /\ round = inputs                        \* _scope
     /\ ~rolled
     /\ AttemptOf(cache, c) = {}              \* else answered from the cache
     /\ PendingOf(cache, h) = {} => c \notin pods
     /\ CanEnqueue(journal, c)
     /\ PendingOf(journal, h) = {} => journal.sequence < MaxEntries
     /\ Saved(Enqueued(journal, c)) \/ NotSaved(Enqueued(journal, c))
     /\ UNCHANGED <<ops, finished, task, round, rolled, inputs, overdue, provider>>

-----------------------------------------------------------------------------
(* The worker: _step's first entry whose turn it is, then _advance.          *)

\* Earlier entries are passed only once submitted (not due, or not visible).
Turn(e) ==
  /\ task = Idle
  /\ round = inputs
  /\ e \in cache.pending
  /\ e.round = round
  /\ CreateOf(e) \notin finished
  /\ \A f \in cache.pending : f.round = round /\ f.seq < e.seq => f.submitted

ScopeOps(c) == {op \in ops : op.hotkey = c.hotkey /\ op.round = c.round}
OpOf(c) == {op \in ops : CreateOf(op) = c}
Operation(c, phase) ==
  [hotkey |-> c.hotkey, round |-> c.round, start |-> c.start, phase |-> phase]
SetOp(c, phase) == ops' = (ops \ ScopeOps(c)) \union {Operation(c, phase)}

\* Mutant: an authorization is given back when nothing is known of its create.
ReleaseUnknown(e) ==
  LET c == CreateOf(e)
  IN /\ Turn(e)
     /\ e.submitted
     /\ \A op \in OpOf(c) : ~Submitted(op)
     /\ \/ Saved(Released(journal, c)) /\ task' = At("progress", c)
        \/ NotSaved(Released(journal, c)) /\ UNCHANGED task
     /\ UNCHANGED <<ops, finished, round, rolled, inputs, overdue, provider>>

\* An authorization whose create was never sent is given back first.
Release(e) ==
  LET c == CreateOf(e)
  IN /\ Turn(e)
     /\ e.submitted
     /\ \E op \in OpOf(c) : ~Submitted(op)
     /\ \/ Saved(Released(journal, c)) /\ task' = At("progress", c)
        \/ NotSaved(Released(journal, c)) /\ UNCHANGED task
     /\ UNCHANGED <<ops, finished, round, rolled, inputs, overdue, provider>>

\* acquire: a scope's operation in progress is continued, and a new one is
\* begun only when no other start's operation is unresolved.
Acquire(e) ==
  LET c == CreateOf(e)
  IN /\ Turn(e)
     /\ ~e.submitted
     /\ \/ /\ \E op \in OpOf(c) : ~Submitted(op)
           /\ UNCHANGED ops
        \/ /\ OpOf(c) = {}
           /\ \A op \in ScopeOps(c) : op.phase \notin {"draining", "creating"}
           /\ SetOp(c, "draining")
     /\ task' = At("progress", c)
     /\ UNCHANGED <<journal, late, cache, finished, round, rolled, inputs, overdue, provider, faults>>

\* _reconcile of a visible Pod: it is activated, or found fenced and retired.
Reconciled(c) ==
  \E phase \in {"allocated", "retired"} :
    /\ c \in exited => phase = "retired"
    /\ finished' = {f \in finished : <<f.hotkey, f.round>> # <<c.hotkey, c.round>>} \union {c}
    /\ IF OpOf(c) # {} THEN SetOp(c, phase) ELSE UNCHANGED ops
    /\ pods' = IF phase = "retired" THEN pods \ {c} ELSE pods
    /\ task' = Idle

\* A submitted entry only ever discovers the Pod of its own create.
Discover(e) ==
  LET c == CreateOf(e)
  IN /\ Turn(e)
     /\ e.submitted \/ OpOf(c) # {}
     /\ \A op \in OpOf(c) : Submitted(op)
     /\ c \in pods
     /\ Reconciled(c)
     /\ UNCHANGED <<journal, late, cache, round, rolled, inputs, flight, overdue, stray, exited, posts, faults>>

\* Mutant: only this gateway's own creates count.
UnresolvedHere == {CreateOf(op) : op \in {o \in ops : o.phase = "creating"}} \ pods

\* queue.unresolved and the operations still creating, less what is visible.
\* An entry counts while it is pending, a retained create during its grace.
Unresolved ==
  LET pending == {CreateOf(e) : e \in {f \in cache.pending : f.submitted}}
                   \union (cache.retained \ overdue)
                   \union {CreateOf(op) : op \in {o \in ops : o.phase = "creating"}}
  IN pending \ pods

CapacityReached == Cardinality(pods) + Cardinality(Unresolved) >= MaxPods

\* _progress up to the admission check: adopt the create's own Pod, else retire
\* the hotkey's other Pods (one not retired yet ends the attempt), else check.
Progress ==
  /\ task.at = "progress"
  /\ LET c == task.create
         others == {p \in pods : p.hotkey = c.hotkey}
     IN \/ c \in pods /\ Reconciled(c)
        \/ /\ c \notin pods /\ others # {}
           /\ \E gone \in SUBSET others :
                /\ pods' = pods \ gone
                /\ task' = IF gone = others THEN task ELSE Idle
           /\ UNCHANGED <<ops, finished>>
        \/ /\ others = {}
           /\ task' = IF CapacityReached THEN Idle ELSE At("authorize", c)
           /\ UNCHANGED <<ops, finished, pods>>
  /\ UNCHANGED <<journal, late, cache, round, rolled, inputs, flight, overdue, stray, exited, posts, faults>>

\* before_create: the round must still be open and the entry authorizable.
Authorize ==
  /\ task.at = "authorize"
  /\ LET c == task.create
     IN \/ /\ c.round = round /\ c.round = inputs
           /\ CanAuthorize(journal, c)
           /\ \/ Saved(Authorized(journal, c)) /\ task' = At("dispatch", c)
              \/ NotSaved(Authorized(journal, c)) /\ task' = Idle
        \/ /\ c.round # round \/ c.round # inputs \/ ~CanAuthorize(journal, c)
           /\ task' = Idle
           /\ UNCHANGED <<journal, late, cache, faults>>
  /\ UNCHANGED <<ops, finished, round, rolled, inputs, overdue, provider>>

\* The fence and the round are asked once more, then the POST is sent.
Dispatch ==
  /\ task.at = "dispatch"
  /\ LET c == task.create
     IN \/ /\ c.round = inputs
           /\ SetOp(c, "creating")
           /\ flight' = flight \union {c}
           /\ posts' = [posts EXCEPT ![c] = @ + 1]
           /\ task' = At("reply", c)
           /\ UNCHANGED faults
        \/ /\ \/ c.round # inputs /\ UNCHANGED faults
              \/ Fault                          \* fenced
           /\ task' = Idle
           /\ UNCHANGED <<ops, flight, posts>>
  /\ UNCHANGED <<journal, late, cache, finished, round, rolled, inputs, overdue, pods, stray, exited>>

\* The reply: the new Pod, an explicit rejection, or nothing certain.
Reply ==
  /\ task.at = "reply"
  /\ LET c == task.create
     IN \/ c \in pods /\ Reconciled(c) /\ UNCHANGED <<flight, faults>>
        \/ /\ c \in flight
           /\ flight' = flight \ {c}
           /\ SetOp(c, "rejected")
           /\ finished' = {f \in finished : <<f.hotkey, f.round>> # <<c.hotkey, c.round>>} \union {c}
           /\ task' = Idle
           /\ UNCHANGED <<pods, faults>>
        \/ /\ Fault
           /\ task' = Idle
           /\ UNCHANGED <<ops, finished, flight, pods>>
        \/ /\ c \notin pods \union flight      \* retired before the reply was read
           /\ task' = Idle
           /\ UNCHANGED <<ops, finished, flight, pods, faults>>
  /\ UNCHANGED <<journal, late, cache, round, rolled, inputs, overdue, stray, exited, posts>>

\* _step completes a finished entry; a failed write is tried again.
Complete(e) ==
  LET c == CreateOf(e)
  IN /\ task = Idle
     /\ round = inputs
     /\ e \in cache.pending
     /\ c \in finished
     /\ \/ Saved(Completed(journal, c)) /\ finished' = finished \ {c}
        \/ NotSaved(Completed(journal, c)) /\ UNCHANGED finished
     /\ UNCHANGED <<ops, task, round, rolled, inputs, overdue, provider>>

\* The hotkey lost its membership: the intent is forgotten, unless submitted.
Cancel(e) ==
  LET c == CreateOf(e)
  IN /\ Turn(e)
     /\ ~e.submitted
     /\ ops' = ops \ {op \in OpOf(c) : ~Submitted(op)}
     /\ Saved(Cancelled(journal, c)) \/ NotSaved(Cancelled(journal, c))
     /\ UNCHANGED <<finished, task, round, rolled, inputs, overdue, provider>>

-----------------------------------------------------------------------------
(* Rounds.                                                                  *)

NewRound ==
  /\ inputs < LastRound
  /\ ~rolled
  /\ inputs' = inputs + 1
  /\ UNCHANGED <<journal, late, gateway, overdue, provider, faults>>

\* round_changed: the journal rolls over, then the worker adopts the round.
Rollover ==
  /\ round # inputs
  /\ ~rolled
  /\ \/ Saved(RolledOver(journal, inputs)) /\ rolled' = TRUE
     \/ NotSaved(RolledOver(journal, inputs)) /\ UNCHANGED rolled
  /\ UNCHANGED <<ops, finished, task, round, inputs, overdue, provider>>

UseRound ==
  /\ rolled
  /\ task = Idle
  /\ round' = inputs
  /\ rolled' = FALSE
  /\ UNCHANGED <<journal, late, cache, ops, finished, task, inputs, overdue, provider, faults>>

\* 600 s pass, the discovery grace (create_grace), whatever became of the
\* create: since its operation began, and then current() calls it lost; since
\* its authorization, and once its round is over too nothing counts it any more.
GraceEnds(c) ==
  /\ \/ /\ Operation(c, "creating") \in ops
        /\ UNCHANGED overdue
     \/ /\ c.round # inputs
        /\ c \notin overdue
        /\ c \in journal.retained \/ \E e \in EntryOf(journal, c) : e.submitted
        /\ overdue' = overdue \union {c}
  /\ IF Operation(c, "creating") \in ops THEN SetOp(c, "lost") ELSE UNCHANGED ops
  /\ UNCHANGED <<journal, late, cache, finished, task, round, rolled, inputs, provider, faults>>

-----------------------------------------------------------------------------
(* The provider, and the gateway's own end.                                 *)

\* A create takes effect, possibly after the gateway stopped waiting for it,
\* even after nothing counts it any more.
Lands(c) ==
  /\ c \in flight
  /\ flight' = flight \ {c}
  /\ pods' = pods \union {c}
  /\ stray' = IF c \in overdue THEN stray \union {c} ELSE stray
  /\ UNCHANGED <<journal, late, gateway, inputs, overdue, exited, posts, faults>>

\* A create never takes effect.
Drops(c) ==
  /\ c \in flight
  /\ Fault
  /\ flight' = flight \ {c}
  /\ UNCHANGED <<journal, late, gateway, inputs, overdue, pods, stray, exited, posts>>

\* A Pod stops by itself.
Exits(c) ==
  /\ c \in pods \ exited
  /\ Fault
  /\ exited' = exited \union {c}
  /\ UNCHANGED <<journal, late, gateway, inputs, flight, overdue, pods, stray, posts>>

\* A settled Pod that reports its drain is retired; a stopped one reports
\* nothing, and is looked at only while its scope has no pending entry.  Of a
\* fleet that exceeds max_pods the revivor drains the excess, Pods that miners
\* wait for included (which of them, Admission.excess says).  The provider may
\* take a Pod away at any time.
Retire(c) ==
  /\ c \in pods
  /\ \/ /\ c \notin exited
        /\ EntryOf(cache, c) # {} => c \in finished
        /\ UNCHANGED faults
     \/ /\ c \in exited
        /\ task = Idle
        /\ round = inputs
        /\ \A e \in cache.pending : <<e.hotkey, e.round>> # <<c.hotkey, c.round>>
        /\ UNCHANGED faults
     \/ Cardinality(pods) > MaxPods /\ UNCHANGED faults
     \/ Fault
  /\ pods' = pods \ {c}
  /\ UNCHANGED <<journal, late, gateway, inputs, flight, overdue, stray, exited, posts>>

\* The revivor replaces the gateway: its memory is gone, its requests are not.
Crash ==
  /\ Fault
  /\ cache' = journal
  /\ ops' = {}
  /\ finished' = {}
  /\ task' = Idle
  /\ round' = 0
  /\ rolled' = FALSE
  /\ UNCHANGED <<journal, late, inputs, overdue, provider>>

-----------------------------------------------------------------------------
Init ==
  /\ journal = EmptyQueue
  /\ late = {}
  /\ cache = EmptyQueue
  /\ ops = {}
  /\ finished = {}
  /\ task = Idle
  /\ round = 0
  /\ inputs = 1
  /\ rolled = FALSE
  /\ flight = {}
  /\ overdue = {}
  /\ pods = {}
  /\ stray = {}
  /\ exited = {}
  /\ posts = [c \in Creates |-> 0]
  /\ faults = 0

\* The worker thread takes entries in hand one after the other ...
Advance ==
  \/ \E e \in cache.pending : Release(e) \/ Acquire(e)
  \/ Progress \/ Authorize \/ Dispatch \/ Reply

\* ... and settles the ones whose create is decided.
Settle == \E e \in cache.pending : Discover(e) \/ Complete(e)

Next ==
  \/ Advance \/ Settle
  \/ \E e \in cache.pending : Cancel(e)
  \/ \E h \in Hotkeys, s \in Starts : Start(h, s)
  \/ LateSave \/ LoadJournal
  \/ NewRound \/ Rollover \/ UseRound \/ Crash
  \/ \E c \in Creates : GraceEnds(c) \/ Lands(c) \/ Drops(c) \/ Exits(c) \/ Retire(c)

Spec == Init /\ [][Next]_vars

\* The threads keep running.  An entry whose create is decided comes due every
\* poll_seconds and is then served before the later ones, hence the strong
\* fairness.  The provider carries out what it was sent, and idle Pods drain.
Fairness ==
  /\ WF_vars(Advance) /\ SF_vars(Settle)
  /\ WF_vars(LoadJournal) /\ WF_vars(Rollover) /\ WF_vars(UseRound)
  /\ WF_vars(\E c \in Creates : Lands(c) \/ GraceEnds(c))
  /\ SF_vars(\E c \in Creates : Retire(c))

FairSpec == Spec /\ Fairness

-----------------------------------------------------------------------------
TypeOK ==
  /\ journal \in Queues
  /\ late \subseteq Queues
  /\ cache \in Queues
  /\ ops \subseteq [hotkey : Hotkeys, round : Rounds, start : Starts, phase : Phases]
  /\ finished \subseteq Creates
  /\ \/ task = Idle
     \/ task \in [at : {"progress", "authorize", "dispatch", "reply"}, create : Creates]
  /\ round \in 0 .. LastRound
  /\ inputs \in Rounds
  /\ rolled \in BOOLEAN
  /\ flight \subseteq Creates
  /\ overdue \subseteq Creates
  /\ pods \subseteq Creates
  /\ stray \subseteq Creates
  /\ exited \subseteq Creates
  /\ posts \in [Creates -> Nat]
  /\ faults \in 0 .. MaxFaults

\* A start id is sent to the provider at most once in a round, whatever was
\* lost: uncertain authorizations, releases, restarts and late saves included.
OneCreate == \A c \in Creates : posts[c] <= 1

\* The fleet and the creates still undecided never exceed max_pods, but for the
\* creates that the provider carries out after their round and the discovery
\* grace are over: those the gateway has forgotten, and their excess is the
\* revivor's to drain (Admission.excess).
WithinCapacity ==
  Cardinality(pods \ stray) + Cardinality(flight \ overdue) <= MaxPods

\* PODS.md: submitted creates retain their headroom until they are reconciled,
\* and one that is unresolved continues to count against capacity.
FleetNeverExceeds == Cardinality(pods) + Cardinality(flight) <= MaxPods

\* Without faults every request leaves the queue: with a Pod, a rejection, a
\* cancellation, or the end of its round.
QueueDrains ==
  [](faults = 0) =>
    \A h \in Hotkeys : PendingOf(journal, h) # {} ~> PendingOf(journal, h) = {}

\* PODS.md: each pass bounds allocation and retirement work independently.  So
\* a stopped Pod is retired whatever waits in the queue.
ExitedIsRetired == \A c \in Creates : c \in pods \intersect exited ~> c \notin pods
=============================================================================
