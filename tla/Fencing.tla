------------------------------ MODULE Fencing ------------------------------
(***************************************************************************)
(* One miner's Pods of a round and the record that decides which of them    *)
(* may work: the durable selection (selection.py), the gateway's worker     *)
(* thread (Allocator.reconcile, retire, _progress; Gateway._grant,          *)
(* _expire_unserved), the revivor's cleanup, and the Pods themselves.       *)
(*                                                                         *)
(* The two supervisors share nothing but the provider's inventory, where a  *)
(* Pod's lifecycle is a suffix of its name, and the record in R2, written   *)
(* with a conditional PUT.  Every rename, record write and delete is a      *)
(* step; between two of them the other supervisor, the Pod, a crash or a    *)
(* late duplicate of an old create may come in.                             *)
(*                                                                         *)
(* The conditional PUT's retry loop reloads the record, so an update is     *)
(* one step at its successful write; a write that timed out may still be    *)
(* applied while the record is the one it was made from.                    *)
(***************************************************************************)
EXTENDS Naturals, FiniteSets

CONSTANTS
  Pods,       \* Pod ids the provider hands out, numbers in their sort order
  StartOf,    \* the connection each Pod is created for; a later one's epoch is newer
  MaxFaults   \* bound: crashes, failed calls, late writes, stopped and excess Pods

\* Connections are numbered from one, and each has a Pod.
ASSUME PodsAssumption == Pods \subseteq Nat \ {0} /\ IsFiniteSet(Pods)
ASSUME StartOfAssumption == StartOf \in [Pods -> 1 .. Cardinality(Pods)]
ASSUME FaultsAssumption == MaxFaults \in Nat

Supervisors == {"gateway", "revivor"}
Starts == {StartOf[p] : p \in Pods}
Lives == {"none", "pending", "active", "draining", "drained", "gone"}

\* The record: access_granted is absent unless the Pod was selected dormant.
NoRecord == [pod |-> 0, active |-> FALSE, granted |-> "absent"]
Records == [pod : Pods, active : BOOLEAN, granted : {"absent", "no", "yes"}] \union {NoRecord}

VARIABLES
  life,      \* the provider's inventory: each Pod's lifecycle
  up,        \* Pods whose status is RUNNING
  local,     \* the Pod's own state: dormant, accepting or draining for good
  busy,      \* Pods with a capture under way
  sel,       \* the selection record
  lateSel,   \* writes that timed out: <<the record they replace, the new one>>
  job,       \* the gateway worker's current call
  retire,    \* each supervisor's retire in progress
  sent,      \* the newest connection a create was sent for
  grantees,  \* history: Pods a miner was given access to
  chosen,    \* history: Pods the record ever selected
  replaced,  \* history: Pods a same-round replacement began to retire
  killed,    \* history: other Pods deleted with a capture under way
  faults

vars == <<life, up, local, busy, sel, lateSel, job, retire, sent, grantees, chosen,
          replaced, killed, faults>>
podVars == <<up, local, busy>>
history == <<grantees, chosen, replaced, killed>>

NoJob == [kind |-> "none"]
NoRetire == [at |-> "none"]
Fault == faults < MaxFaults /\ faults' = faults + 1

Visible == {p \in Pods : life[p] \notin {"none", "gone"}}

\* Allocator.winner: the newest connection, its active copy before a dormant
\* one before any, and the least id.
Winner(S) ==
  LET newest == {p \in S : \A q \in S : StartOf[q] <= StartOf[p]}
      active == {p \in newest : life[p] = "active"}
      pending == {p \in newest : life[p] = "pending"}
      best == IF active # {} THEN active ELSE IF pending # {} THEN pending ELSE newest
  IN CHOOSE p \in best : \A q \in best : p <= q

-----------------------------------------------------------------------------
(* Selection.                                                               *)

IsSelected(r, p) == r.pod = p /\ r.active

\* update's record for Pod p, last seen in the given lifecycle.
Value(r, p, seen, active) ==
  [pod |-> p, active |-> active,
   granted |-> IF r.pod = p THEN r.granted
               ELSE IF active /\ seen = "pending" THEN "no" ELSE "absent"]

\* Mutant: only newer connections fence a copy.
FencedByEpoch(r, p) == r # NoRecord /\ (StartOf[r.pod] > StartOf[p] \/ (r.pod = p /\ ~r.active))

\* Mutant: a Pod's own ended selection does not fence it.
FencedByOthers(r, p) ==
  r # NoRecord /\ (StartOf[r.pod] > StartOf[p] \/ (StartOf[r.pod] = StartOf[p] /\ r.pod # p))

\* revoked, and the refusal of update(active=True): another copy or a newer
\* connection has the record, or the Pod's own selection ended.  The copies of
\* one create carry the same epoch, so both tests come to this.
Fenced(r, p) ==
  /\ r # NoRecord
  /\ \/ StartOf[r.pod] > StartOf[p]
     \/ StartOf[r.pod] = StartOf[p] /\ r.pod # p
     \/ r.pod = p /\ ~r.active

\* update(active=False) leaves another Pod's record alone.
Fence(r, p, seen) ==
  IF r # NoRecord /\ r.pod # p THEN r ELSE Value(r, p, seen, FALSE)

Write(r) ==
  /\ sel' = r
  /\ chosen' = IF r.active THEN chosen \union {r.pod} ELSE chosen

\* A write that timed out is applied after all, if nothing came between.
LateWrite ==
  /\ \E w \in lateSel : /\ sel = w[1]
                        /\ Write(w[2])
                        /\ lateSel' = lateSel \ {w}
  /\ UNCHANGED <<life, podVars, job, retire, sent, grantees, replaced, killed, faults>>

-----------------------------------------------------------------------------
(* Allocator.retire, by either supervisor.                                  *)

Begin(p, drain) == [at |-> "fence", pod |-> p, seen |-> life[p], drain |-> drain]

\* What the gateway's worker does next once a retire returned: reconcile goes
\* on with the other Pods, _progress stops at a Pod that is not retired yet.
After(p, ok) ==
  CASE job.kind = "reconcile" /\ p # job.winner ->
         [job EXCEPT !.todo = @ \ {p},
                     !.blocked = @ \/ (~ok /\ StartOf[p] # StartOf[job.winner])]
    [] job.kind = "replace" /\ ok -> [job EXCEPT !.todo = @ \ {p}]
    [] OTHER -> NoJob

Return(a, p, ok) ==
  /\ retire' = [retire EXCEPT ![a] = NoRetire]
  /\ job' = IF a = "gateway" THEN After(p, ok) ELSE job

Abort(a) ==
  /\ retire' = [retire EXCEPT ![a] = NoRetire]
  /\ job' = IF a = "gateway" THEN NoJob ELSE job

Goto(a, step) == retire' = [retire EXCEPT ![a].at = step] /\ UNCHANGED job

\* The record is fenced first, before the provider learns anything.
RetireFence(a) ==
  /\ retire[a].at = "fence"
  /\ LET r == retire[a]
         new == Fence(sel, r.pod, r.seen)
     IN \/ /\ Write(new)
           /\ Goto(a, IF r.seen = "drained" THEN "delete" ELSE "draining")
           /\ UNCHANGED <<lateSel, faults>>
        \/ /\ Fault
           /\ lateSel' = lateSel \union {<<sel, new>>}
           /\ Abort(a)
           /\ UNCHANGED <<sel, chosen>>
  /\ UNCHANGED <<life, podVars, sent, grantees, replaced, killed>>

\* _rename: from the lifecycle last seen, or already there; else it raises.
Rename(a, from, to, next) ==
  LET p == retire[a].pod
  IN \/ /\ life[p] \in {from, to}
        /\ life' = [life EXCEPT ![p] = to]
        /\ Goto(a, next)
     \/ /\ life[p] \notin {from, to}
        /\ Abort(a)
        /\ UNCHANGED life

RetireDraining(a) ==
  /\ retire[a].at = "draining"
  /\ Rename(a, retire[a].seen, "draining", "drain")
  /\ UNCHANGED <<podVars, sel, lateSel, sent, history, faults>>

\* Mutant: the drain is reported at once.
ReportedEarly(p) ==
  p \in up /\ life[p] \in {"active", "draining", "drained"} /\ local[p] = "draining"

\* A Pod's drain is permanent, and reported once nothing is under way.
Reported(p) ==
  /\ p \in up
  /\ life[p] \in {"active", "draining", "drained"}
  /\ local[p] = "draining"
  /\ p \notin busy

\* DrainControl.drain: only the gateway has the Pods' control sockets.
RetireDrain(a) ==
  /\ retire[a].at = "drain"
  /\ LET p == retire[a].pod
     IN IF ~retire[a].drain \/ p \notin up \/ (a = "gateway" /\ Reported(p))
        THEN Goto(a, "drained") /\ UNCHANGED local
        ELSE /\ local' = IF a = "gateway" THEN [local EXCEPT ![p] = "draining"] ELSE local
             /\ Return(a, p, FALSE)
  /\ UNCHANGED <<life, up, busy, sel, lateSel, sent, history, faults>>

RetireDrained(a) ==
  /\ retire[a].at = "drained"
  /\ Rename(a, "draining", "drained", "delete")
  /\ UNCHANGED <<podVars, sel, lateSel, sent, history, faults>>

\* DELETE, then GET: an acknowledgement alone is not absence.
RetireDelete(a) ==
  /\ retire[a].at = "delete"
  /\ LET p == retire[a].pod
     IN \/ /\ life' = [life EXCEPT ![p] = "gone"]
           /\ up' = up \ {p}
           /\ busy' = busy \ {p}
           /\ killed' = IF p \in busy \ replaced THEN killed \union {p} ELSE killed
           /\ Return(a, p, TRUE)
           /\ UNCHANGED faults
        \/ Fault /\ Return(a, p, FALSE) /\ UNCHANGED <<life, up, busy, killed>>
  /\ UNCHANGED <<local, sel, lateSel, sent, grantees, chosen, replaced>>

RetireStep(a) ==
  RetireFence(a) \/ RetireDraining(a) \/ RetireDrain(a) \/ RetireDrained(a) \/ RetireDelete(a)

-----------------------------------------------------------------------------
(* The gateway's worker thread: one call at a time.                         *)

Free == job = NoJob /\ retire["gateway"] = NoRetire
StartRetire(a, p, drain) == retire' = [retire EXCEPT ![a] = Begin(p, drain)]

\* _step looks at a scope with several Pods, or one not simply active.
Unsettled == \/ Cardinality(Visible) > 1
             \/ \E p \in Visible : life[p] # "active" \/ p \notin up

Reconcile ==
  /\ Free
  /\ Unsettled
  /\ LET w == Winner(Visible)
     IN job' = [kind |-> "reconcile", winner |-> w, seen |-> life[w],
                todo |-> Visible \ {w}, blocked |-> FALSE]
  /\ UNCHANGED <<life, podVars, sel, lateSel, retire, sent, history, faults>>

\* A new connection replaces every Pod of the same round without a drain.
Replace ==
  /\ Free
  /\ sent + 1 \in Starts
  /\ job' = [kind |-> "replace", todo |-> Visible]
  /\ UNCHANGED <<life, podVars, sel, lateSel, retire, sent, history, faults>>

\* The next of the Pods to retire; its GET may find it gone.
NextRetire ==
  /\ job.kind \in {"reconcile", "replace"}
  /\ retire["gateway"] = NoRetire
  /\ \E p \in job.todo :
       IF life[p] = "gone"
       THEN job' = After(p, TRUE) /\ UNCHANGED <<retire, replaced>>
       ELSE /\ StartRetire("gateway", p, job.kind = "reconcile")
            /\ replaced' = IF job.kind = "replace" THEN replaced \union {p} ELSE replaced
            /\ UNCHANGED job
  /\ UNCHANGED <<life, podVars, sel, lateSel, sent, grantees, chosen, killed, faults>>

\* Every Pod is confirmed gone: the create is sent.
Create ==
  /\ job.kind = "replace"
  /\ job.todo = {}
  /\ sent' = sent + 1
  /\ job' = NoJob
  /\ UNCHANGED <<life, podVars, sel, lateSel, retire, history, faults>>

AtWinner(seen) ==
  /\ job.kind = "reconcile"
  /\ job.todo = {}
  /\ job.seen = seen
  /\ retire["gateway"] = NoRetire

\* Mutant: the record is not asked whether the winner was fenced.
UnfitUnlessEnding(w) == job.seen \in {"draining", "drained"} \/ w \notin up

\* A winner that is ending, stopped or fenced is retired in its turn.
Unfit(w) == job.seen \in {"draining", "drained"} \/ w \notin up \/ Fenced(sel, w)

RetireWinner ==
  /\ \E seen \in {"pending", "active", "draining", "drained"} : AtWinner(seen)
  /\ Unfit(job.winner)
  /\ IF life[job.winner] = "gone"
     THEN job' = NoJob /\ UNCHANGED retire
     ELSE /\ StartRetire("gateway", job.winner, TRUE)
          /\ UNCHANGED job
  /\ UNCHANGED <<life, podVars, sel, lateSel, sent, history, faults>>

\* A dormant winner waits for older connections' captures, then is selected.
Activate ==
  /\ AtWinner("pending")
  /\ ~Unfit(job.winner)
  /\ job' = IF job.blocked THEN NoJob ELSE [job EXCEPT !.kind = "select"]
  /\ UNCHANGED <<life, podVars, sel, lateSel, retire, sent, history, faults>>

Confirm ==
  /\ AtWinner("active")
  /\ ~Unfit(job.winner)
  /\ job' = [job EXCEPT !.kind = "confirm"]
  /\ UNCHANGED <<life, podVars, sel, lateSel, retire, sent, history, faults>>

\* update(active=True): before the rename, and once more after it.
Select ==
  /\ job.kind \in {"select", "confirm"}
  /\ LET w == job.winner
         new == Value(sel, w, job.seen, TRUE)
     IN \/ /\ Fenced(sel, w)
           /\ job' = NoJob
           /\ UNCHANGED <<sel, chosen, lateSel, faults>>
        \/ /\ ~Fenced(sel, w)
           /\ Write(new)
           /\ job' = IF job.kind = "select" THEN [job EXCEPT !.kind = "rename"] ELSE NoJob
           /\ UNCHANGED <<lateSel, faults>>
        \/ /\ ~Fenced(sel, w)
           /\ Fault
           /\ lateSel' = lateSel \union {<<sel, new>>}
           /\ job' = NoJob
           /\ UNCHANGED <<sel, chosen>>
  /\ UNCHANGED <<life, podVars, retire, sent, grantees, replaced, killed>>

\* The selected Pod is renamed to active, unless its lifecycle changed.
RenameActive ==
  /\ job.kind = "rename"
  /\ LET w == job.winner
     IN IF life[w] \in {"pending", "active"}
        THEN /\ life' = [life EXCEPT ![w] = "active"]
             /\ job' = [job EXCEPT !.kind = "confirm", !.seen = "active"]
        ELSE job' = NoJob /\ UNCHANGED life
  /\ UNCHANGED <<podVars, sel, lateSel, retire, sent, history, faults>>

\* _grant: the ready, active winner, and only while the record selects it.
Grant(p) ==
  /\ Free
  /\ p \in Visible /\ p = Winner(Visible)
  /\ life[p] = "active" /\ p \in up
  /\ local[p] = "accepting"
  /\ p \notin grantees
  /\ IsSelected(sel, p)
  /\ Write([sel EXCEPT !.granted = "yes"])
  /\ grantees' = grantees \union {p}
  /\ UNCHANGED <<life, podVars, lateSel, job, retire, sent, replaced, killed, faults>>

\* _expire_unserved: ten minutes passed and access was never granted.
ExpireUnserved(p) ==
  /\ Free
  /\ p \in Visible /\ p = Winner(Visible)
  /\ sel.pod = p /\ sel.granted = "no"
  /\ Write([sel EXCEPT !.active = FALSE])
  /\ StartRetire("gateway", p, FALSE)
  /\ UNCHANGED <<life, podVars, lateSel, job, sent, grantees, replaced, killed, faults>>

\* A Pod reported its permanent drain.
RetireReported(p) ==
  /\ Free
  /\ Reported(p)
  /\ StartRetire("gateway", p, FALSE)
  /\ UNCHANGED <<life, podVars, sel, lateSel, job, sent, history, faults>>

-----------------------------------------------------------------------------
(* The revivor's cleanup_workers: drained Pods, and the fleet's excess.     *)

Cleanup(p) ==
  /\ retire["revivor"] = NoRetire
  /\ life[p] = "drained"
  /\ StartRetire("revivor", p, TRUE)
  /\ UNCHANGED <<life, podVars, sel, lateSel, job, sent, history, faults>>

\* Admission.excess: not active before active, the newest first.
Victim(p) ==
  /\ p \in Visible
  /\ \A q \in Visible :
       \/ life[p] # "active" /\ life[q] = "active"
       \/ /\ (life[p] = "active") = (life[q] = "active")
          /\ \/ StartOf[p] > StartOf[q]
             \/ StartOf[p] = StartOf[q] /\ p <= q

Excess(p) ==
  /\ retire["revivor"] = NoRetire
  /\ Victim(p)
  /\ Fault
  /\ StartRetire("revivor", p, TRUE)
  /\ UNCHANGED <<life, podVars, sel, lateSel, job, sent, history>>

-----------------------------------------------------------------------------
(* The Pods.                                                                *)

\* A create takes effect: dormant, perhaps late, perhaps a second copy.
Appear(p) ==
  /\ life[p] = "none"
  /\ StartOf[p] <= sent
  /\ life' = [life EXCEPT ![p] = "pending"]
  /\ up' = up \union {p}
  /\ UNCHANGED <<local, busy, sel, lateSel, job, retire, sent, history, faults>>

\* What pod_control sends: the active winner is activated, any other Pod drained.
Activated(p) == life[p] = "active" /\ p = Winner(Visible)

\* The Pod follows its control socket.
Control(p) ==
  /\ p \in up
  /\ life[p] \in {"active", "draining", "drained"}
  /\ IF Activated(p)
     THEN local[p] = "dormant" /\ local' = [local EXCEPT ![p] = "accepting"]
     ELSE local[p] # "draining" /\ local' = [local EXCEPT ![p] = "draining"]
  /\ UNCHANGED <<life, up, busy, sel, lateSel, job, retire, sent, history, faults>>

\* start_capture checks the record; a miner without access never gets here.
Capture(p) ==
  /\ p \in up \ busy
  /\ local[p] = "accepting"
  /\ IsSelected(sel, p)
  /\ p \in grantees
  /\ busy' = busy \union {p}
  /\ UNCHANGED <<life, up, local, sel, lateSel, job, retire, sent, history, faults>>

Finish(p) ==
  /\ p \in busy
  /\ busy' = busy \ {p}
  /\ UNCHANGED <<life, up, local, sel, lateSel, job, retire, sent, history, faults>>

\* tick: idle for long enough.
IdleDrain(p) ==
  /\ p \in up \ busy
  /\ local[p] # "draining"
  /\ local' = [local EXCEPT ![p] = "draining"]
  /\ UNCHANGED <<life, up, busy, sel, lateSel, job, retire, sent, history, faults>>

\* A Pod stops by itself and stays in the inventory.
Stop(p) ==
  /\ p \in up
  /\ Fault
  /\ up' = up \ {p}
  /\ busy' = busy \ {p}
  /\ UNCHANGED <<life, local, sel, lateSel, job, retire, sent, history>>

\* A supervisor dies, or a call of its raises, between two steps.
Crash(a) ==
  /\ Fault
  /\ retire[a] # NoRetire \/ (a = "gateway" /\ job # NoJob)
  /\ Abort(a)
  /\ UNCHANGED <<life, podVars, sel, lateSel, sent, history>>

-----------------------------------------------------------------------------
Init ==
  /\ life = [p \in Pods |-> "none"]
  /\ up = {}
  /\ local = [p \in Pods |-> "dormant"]
  /\ busy = {}
  /\ sel = NoRecord
  /\ lateSel = {}
  /\ job = NoJob
  /\ retire = [a \in Supervisors |-> NoRetire]
  /\ sent = 0
  /\ grantees = {}
  /\ chosen = {}
  /\ replaced = {}
  /\ killed = {}
  /\ faults = 0

Work ==
  \/ RetireStep("gateway")
  \/ NextRetire \/ Create
  \/ RetireWinner \/ Activate \/ Confirm \/ Select \/ RenameActive

Next ==
  \/ Work \/ RetireStep("revivor")
  \/ Reconcile \/ Replace \/ LateWrite
  \/ \E p \in Pods :
       \/ Grant(p) \/ ExpireUnserved(p) \/ RetireReported(p)
       \/ Cleanup(p) \/ Excess(p)
       \/ Appear(p) \/ Control(p) \/ Capture(p) \/ Finish(p) \/ IdleDrain(p) \/ Stop(p)
  \/ \E a \in Supervisors : Crash(a)

Spec == Init /\ [][Next]_vars

\* A pass of the worker's _step over the Pods it knows.
Pass == Reconcile \/ \E p \in Pods : RetireReported(p) \/ ExpireUnserved(p)

\* The worker thread runs on and passes over the scope every poll_seconds; a
\* Pod keeps its control socket, finishes its captures and drains when it stays
\* idle; the ten minutes of a Pod never served pass; the revivor finishes a
\* retire it began.
Fairness ==
  /\ WF_vars(Work) /\ SF_vars(Pass) /\ WF_vars(RetireStep("revivor"))
  /\ \A p \in Pods : WF_vars(Control(p) \/ Finish(p) \/ IdleDrain(p))

FairSpec == Spec /\ Fairness

-----------------------------------------------------------------------------
Jobs == [kind : {"none"}] \union [kind : {"replace"}, todo : SUBSET Pods]
        \union [kind : {"reconcile", "select", "rename", "confirm"}, winner : Pods,
                seen : Lives, todo : SUBSET Pods, blocked : BOOLEAN]

Retires == [at : {"none"}]
           \union [at : {"fence", "draining", "drain", "drained", "delete"}, pod : Pods,
                   seen : Lives, drain : BOOLEAN]

TypeOK ==
  /\ life \in [Pods -> Lives]
  /\ up \subseteq Pods
  /\ local \in [Pods -> {"dormant", "accepting", "draining"}]
  /\ busy \subseteq up
  /\ sel \in Records
  /\ lateSel \subseteq Records \X Records
  /\ job \in Jobs
  /\ retire \in [Supervisors -> Retires]
  /\ sent \in Nat
  /\ grantees \subseteq Pods /\ chosen \subseteq Pods
  /\ replaced \subseteq Pods /\ killed \subseteq Pods
  /\ faults \in 0 .. MaxFaults

\* Two copies of one connection are never both selected, now or later: a late
\* duplicate cannot take over a connection its twin was ever selected for.
OneCopySelected ==
  \A p, q \in chosen : StartOf[p] = StartOf[q] => p = q

\* A Pod whose selection ended is never selected again, by whichever
\* supervisor, late write or restart.
NeverReselected ==
  [][\A p \in chosen : IsSelected(sel', p) => IsSelected(sel, p)]_vars

\* Idle and superseded Pods are deleted only when their captures are finished;
\* a deliberate replacement in the same round alone interrupts one.
CaptureSurvives == killed = {}

\* With finitely many faults the scope settles: every Pod left is the active
\* one that the record selects.
Settles ==
  <>[](\A p \in Visible : life[p] = "active" /\ IsSelected(sel, p))
=============================================================================
