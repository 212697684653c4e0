--------------------------- MODULE FencingProofs ----------------------------
(***************************************************************************)
(* The selection record, for any number of Pods, connections and faults:   *)
(* one copy of a connection is ever selected, and a Pod whose selection    *)
(* ended never comes back.                                                 *)
(*                                                                         *)
(* Every record that may come to be written, now or by a late PUT, is a    *)
(* successor of the record it replaces: it selects a Pod which that record *)
(* does not fence, or it selects nobody and names the same Pod.  The       *)
(* invariant adds that the record's Pod has the newest connection of all   *)
(* Pods ever selected, so that a Pod which is not fenced is new.           *)
(***************************************************************************)
EXTENDS Fencing, FiniteSetTheorems, WellFoundedInduction, TLAPS

\* A record that was never granted stays so, or selects a Pod anew.
StaysNew(r, s) ==
  s.granted = "no" => \/ s.pod = r.pod /\ r.granted = "no"
                      \/ s.pod # r.pod /\ s.active

\* What an update may make of record r.
Succeeds(r, s) ==
  /\ StaysNew(r, s)
  /\ \/ s = r
     \/ s \in Records /\ s.active /\ ~Fenced(r, s.pod)
     \/ s \in Records /\ ~s.active /\ s # NoRecord /\ (r = NoRecord \/ s.pod = r.pod)

LateSucceed == \A w \in lateSel : Succeeds(w[1], w[2])

\* The record against the Pods it ever selected.
RecordIsNewest ==
  /\ sel = NoRecord => chosen = {}
  /\ sel.active => sel.pod \in chosen
  /\ \A p \in chosen : StartOf[p] < StartOf[sel.pod] \/ p = sel.pod

Inductive == TypeOK /\ LateSucceed /\ RecordIsNewest /\ OneCopySelected

-----------------------------------------------------------------------------
(* The winner of a pass is one of the Pods it saw.                         *)

\* Nat is well ordered.
LEMMA Least ==
  ASSUME NEW T \in SUBSET Nat, T # {}
  PROVE \E x \in T : \A y \in T : x <= y
<1> DEFINE R == {p \in Nat \X Nat : p[1] < p[2]}
<1>1. IsWellFoundedOn(R, Nat)
  BY NatLessThanWellFounded DEF OpToRel
<1>2. PICK x \in T : \A y \in T : ~ (<<y, x>> \in R)
  <2> HIDE DEF R
  <2> QED BY <1>1, WFMin
<1>3. \A y \in T : ~(y < x)
  BY <1>2
<1> QED BY <1>2, <1>3

\* Some Pods of any set have its newest connection: the connections are at
\* most as many as the Pods.
LEMMA Newest ==
  ASSUME NEW S \in SUBSET Pods, S # {}
  PROVE \E p \in S : \A q \in S : StartOf[q] <= StartOf[p]
<1> DEFINE n == Cardinality(Pods)
<1> DEFINE Bounds == {m \in Nat : \A q \in S : StartOf[q] <= m}
<1>1. n \in Nat
  BY PodsAssumption, FS_CardinalityType
<1>2. \A q \in S : StartOf[q] \in 1 .. n
  BY StartOfAssumption
<1> HIDE DEF n
<1>3. n \in Bounds
  BY <1>1, <1>2
<1>4. PICK m \in Bounds : \A k \in Bounds : m <= k
  <2>1. Bounds \in SUBSET Nat /\ Bounds # {}
    BY <1>3
  <2> HIDE DEF Bounds
  <2> QED BY <2>1, Least
<1>5. m # 0
  BY <1>1, <1>2, <1>4
<1>6. PICK p \in S : ~(StartOf[p] <= m - 1)
  <2>1. m - 1 \in Nat /\ ~(m <= m - 1)
    BY <1>4, <1>5
  <2>2. m - 1 \notin Bounds
    <3> HIDE DEF Bounds
    <3> QED BY <2>1, <1>4
  <2> QED BY <2>1, <2>2
<1>7. \A q \in S : StartOf[q] <= StartOf[p]
  BY <1>1, <1>2, <1>4, <1>6
<1> QED BY <1>7

\* Allocator.winner over a set that is not empty (allocator.py).
LEMMA WinnerIsSeen ==
  ASSUME NEW S \in SUBSET Pods, S # {}
  PROVE Winner(S) \in S
<1> DEFINE newest == {p \in S : \A q \in S : StartOf[q] <= StartOf[p]}
           active == {p \in newest : life[p] = "active"}
           pending == {p \in newest : life[p] = "pending"}
           best == IF active # {} THEN active ELSE IF pending # {} THEN pending ELSE newest
<1>1. newest # {}
  BY Newest
<1>2. best \in SUBSET S /\ best # {}
  BY <1>1
<1>3. Winner(S) = CHOOSE p \in best : \A q \in best : p <= q
  BY DEF Winner
<1> HIDE DEF best
<1>4. \E p \in best : \A q \in best : p <= q
  BY <1>2, PodsAssumption, Least
<1>5. Winner(S) \in best
  BY <1>3, <1>4
<1> QED BY <1>2, <1>5

LEMMA UnsettledHasPods ==
  ASSUME Unsettled
  PROVE Visible # {}
<1>1. Cardinality({}) = 0
  BY FS_EmptySet
<1> QED BY <1>1 DEF Unsettled

-----------------------------------------------------------------------------
(* Records.                                                                *)

LEMMA FenceSucceeds ==
  ASSUME NEW r \in Records, NEW p \in Pods, NEW seen
  PROVE Fence(r, p, seen) \in Records /\ Succeeds(r, Fence(r, p, seen))
<1>1. p # 0
  BY PodsAssumption
<1>2. CASE r # NoRecord /\ r.pod # p
  BY <1>2 DEF Fence, Succeeds, StaysNew
<1>3. CASE ~(r # NoRecord /\ r.pod # p)
  <2> DEFINE s == Value(r, p, seen, FALSE)
  <2>1. s \in Records /\ s.pod = p /\ s.active = FALSE
    BY <1>3 DEF Value, Records, NoRecord
  <2>2. s # NoRecord
    <3>1. NoRecord.pod = 0
      BY DEF NoRecord
    <3> HIDE DEF s
    <3> QED BY <2>1, <1>1, <3>1
  <2>3. Fence(r, p, seen) = s
    BY <1>3 DEF Fence
  <2>4. StaysNew(r, s)
    BY DEF StaysNew, Value
  <2> HIDE DEF s
  <2> QED BY <1>3, <2>1, <2>2, <2>3, <2>4 DEF Succeeds
<1> QED BY <1>2, <1>3

LEMMA SelectSucceeds ==
  ASSUME NEW r \in Records, NEW p \in Pods, NEW seen, ~Fenced(r, p)
  PROVE Value(r, p, seen, TRUE) \in Records /\ Succeeds(r, Value(r, p, seen, TRUE))
<1> DEFINE s == Value(r, p, seen, TRUE)
<1>1. s \in Records /\ s.pod = p /\ s.active
  BY DEF Value, Records, NoRecord
<1>2. StaysNew(r, s)
  BY DEF StaysNew, Value
<1>3. Succeeds(r, s)
  <2> HIDE DEF s
  <2> QED BY <1>1, <1>2 DEF Succeeds
<1> QED BY <1>1, <1>3

\* An update keeps the invariant, and revives no Pod (selection.py).
LEMMA SuccessorKeeps ==
  ASSUME sel \in Records, chosen \subseteq Pods, RecordIsNewest, OneCopySelected,
         NEW s \in Records, Succeeds(sel, s), Write(s)
  PROVE /\ chosen' \subseteq Pods
        /\ RecordIsNewest' /\ OneCopySelected'
        /\ \A p \in chosen : IsSelected(sel', p) => IsSelected(sel, p)
<1>1. \A p \in Pods : StartOf[p] \in Nat
  BY StartOfAssumption, PodsAssumption, FS_CardinalityType
<1>2. sel' = s /\ chosen' = IF s.active THEN chosen \union {s.pod} ELSE chosen
  BY DEF Write
<1>3. \A r \in Records : r = NoRecord \/ r.pod \in Pods
  BY DEF Records
<1>4. NoRecord.active = FALSE
  BY DEF NoRecord
<1>5. CASE s = sel
  BY <1>2, <1>5 DEF RecordIsNewest, OneCopySelected
<1>6. CASE s.active /\ ~Fenced(sel, s.pod)
  <2>1. s.pod \in Pods
    BY <1>3, <1>4, <1>6
  <2>2. CASE sel = NoRecord
    <3>1. chosen = {} /\ chosen' = {s.pod}
      BY <1>2, <1>6, <2>2 DEF RecordIsNewest
    <3> QED BY <1>2, <1>4, <1>6, <2>1, <3>1 DEF RecordIsNewest, OneCopySelected
  <2>3. CASE sel # NoRecord
    <3>1. sel.pod \in Pods
      BY <1>3, <2>3
    <3>2. /\ ~(StartOf[sel.pod] > StartOf[s.pod])
          /\ StartOf[sel.pod] = StartOf[s.pod] => sel.pod = s.pod
          /\ sel.pod = s.pod => sel.active
      BY <1>6, <2>3 DEF Fenced
    <3>3. StartOf[sel.pod] < StartOf[s.pod] \/ (sel.pod = s.pod /\ sel.active)
      BY <1>1, <2>1, <3>1, <3>2
    <3>4. \A p \in chosen : StartOf[p] < StartOf[s.pod] \/ p = s.pod
      BY <1>1, <2>1, <3>1, <3>3 DEF RecordIsNewest
    <3>5. s # NoRecord /\ chosen' = chosen \union {s.pod}
      BY <1>2, <1>4, <1>6
    <3>6. RecordIsNewest' /\ chosen' \subseteq Pods
      BY <1>2, <2>1, <3>4, <3>5 DEF RecordIsNewest
    <3>7. OneCopySelected'
      BY <1>1, <2>1, <3>4, <3>5 DEF OneCopySelected
    <3>8. \A p \in chosen : IsSelected(s, p) => IsSelected(sel, p)
      BY <1>1, <2>1, <3>1, <3>3 DEF IsSelected, RecordIsNewest
    <3> QED BY <1>2, <3>6, <3>7, <3>8
  <2> QED BY <2>2, <2>3
<1>7. CASE ~s.active /\ s # NoRecord /\ (sel = NoRecord \/ s.pod = sel.pod)
  BY <1>2, <1>7 DEF RecordIsNewest, OneCopySelected, IsSelected
<1> QED BY <1>5, <1>6, <1>7 DEF Succeeds

-----------------------------------------------------------------------------
(* What each step does to the types.                                       *)

LEMMA JobTypes ==
  ASSUME job \in Jobs
  PROVE /\ job.kind = "replace" => job.todo \subseteq Pods
        /\ job.kind \in {"reconcile", "select", "rename", "confirm"} =>
             job \in [kind : {"reconcile", "select", "rename", "confirm"}, winner : Pods,
                     seen : Lives, todo : SUBSET Pods, blocked : BOOLEAN]
BY DEF Jobs

\* The worker drops its call or goes on with it.
LEMMA JobSteps ==
  /\ NoJob \in Jobs
  /\ \A j \in [kind : {"reconcile", "select", "rename", "confirm"}, winner : Pods,
             seen : Lives, todo : SUBSET Pods, blocked : BOOLEAN] :
       /\ j \in Jobs
       /\ [j EXCEPT !.kind = "select"] \in Jobs
       /\ [j EXCEPT !.kind = "rename"] \in Jobs
       /\ [j EXCEPT !.kind = "confirm"] \in Jobs
       /\ [j EXCEPT !.kind = "confirm", !.seen = "active"] \in Jobs
BY DEF Jobs, NoJob, Lives

\* Where a retire is, it knows its Pod.
LEMMA RetireTypes ==
  ASSUME retire \in [Supervisors -> Retires], NEW a \in Supervisors, retire[a].at # "none"
  PROVE /\ retire[a] \in [at : {"fence", "draining", "drain", "drained", "delete"},
                          pod : Pods, seen : Lives, drain : BOOLEAN]
        /\ NoRetire \in Retires
        /\ \A step \in {"fence", "draining", "drain", "drained", "delete"} :
             [retire[a] EXCEPT !.at = step] \in Retires
BY DEF Retires, NoRetire

LEMMA AfterTypes ==
  ASSUME job \in Jobs, NEW p \in Pods, NEW ok \in BOOLEAN
  PROVE After(p, ok) \in Jobs
<1>1. CASE job.kind = "reconcile" /\ p # job.winner
  <2>1. job \in [kind : {"reconcile", "select", "rename", "confirm"}, winner : Pods,
                 seen : Lives, todo : SUBSET Pods, blocked : BOOLEAN]
    BY <1>1, JobTypes
  <2>2. After(p, ok) = [job EXCEPT !.todo = @ \ {p},
                     !.blocked = @ \/ (~ok /\ StartOf[p] # StartOf[job.winner])]
    BY <1>1 DEF After
  <2> QED BY <2>1, <2>2 DEF Jobs
<1>2. CASE job.kind = "replace" /\ ok
  <2>1. job \in [kind : {"replace"}, todo : SUBSET Pods]
    BY <1>2 DEF Jobs
  <2>2. After(p, ok) = [job EXCEPT !.todo = @ \ {p}]
    BY <1>2 DEF After
  <2> QED BY <2>1, <2>2 DEF Jobs
<1>3. CASE ~(job.kind = "reconcile" /\ p # job.winner) /\ ~(job.kind = "replace" /\ ok)
  BY <1>3 DEF After, Jobs, NoJob
<1> QED BY <1>1, <1>2, <1>3

\* The end of a retire, by its return or by an exception.
LEMMA ReturnTypes ==
  ASSUME TypeOK, NEW a \in Supervisors, NEW p \in Pods, NEW ok \in BOOLEAN,
         Return(a, p, ok) \/ Abort(a)
  PROVE job' \in Jobs /\ retire' \in [Supervisors -> Retires]
BY AfterTypes DEF TypeOK, Return, Abort, Jobs, NoJob, Retires, NoRetire

LEMMA GotoTypes ==
  ASSUME TypeOK, NEW a \in Supervisors, retire[a].at # "none",
         NEW step \in {"fence", "draining", "drain", "drained", "delete"}, Goto(a, step)
  PROVE job' \in Jobs /\ retire' \in [Supervisors -> Retires]
BY RetireTypes DEF TypeOK, Goto

LEMMA StartTypes ==
  ASSUME TypeOK, NEW a \in Supervisors, NEW p \in Pods, NEW drain \in BOOLEAN,
         StartRetire(a, p, drain)
  PROVE retire' \in [Supervisors -> Retires]
BY DEF TypeOK, StartRetire, Begin, Retires

\* A step either leaves the record or writes a successor of it; what it leaves
\* to a late PUT is a successor too.
Effect ==
  /\ \/ sel' = sel /\ chosen' = chosen
     \/ \E s \in Records : Succeeds(sel, s) /\ Write(s)
  /\ \A w \in lateSel' : \/ w \in lateSel
                         \/ \E s \in Records : w = <<sel, s>> /\ Succeeds(sel, s)

OtherTypes ==
  /\ life \in [Pods -> Lives]
  /\ up \subseteq Pods
  /\ local \in [Pods -> {"dormant", "accepting", "draining"}]
  /\ busy \subseteq up
  /\ job \in Jobs
  /\ retire \in [Supervisors -> Retires]
  /\ sent \in Nat
  /\ grantees \subseteq Pods /\ replaced \subseteq Pods /\ killed \subseteq Pods
  /\ faults \in 0 .. MaxFaults

\* A step of a retire (Allocator.retire, allocator.py).
LEMMA RetireStepEffect ==
  ASSUME TypeOK, NEW a \in Supervisors, RetireStep(a)
  PROVE Effect /\ OtherTypes'
<1> DEFINE p == retire[a].pod
<1>1. retire[a].at # "none"
  BY DEF RetireStep, RetireFence, RetireDraining, RetireDrain, RetireDrained, RetireDelete
<1>2. p \in Pods /\ retire[a].seen \in Lives
  BY <1>1, RetireTypes DEF TypeOK
<1>3. Fault => faults' \in 0 .. MaxFaults
  BY FaultsAssumption DEF TypeOK, Fault
<1>4. CASE RetireFence(a)
  <2> DEFINE new == Fence(sel, p, retire[a].seen)
  <2>1. new \in Records /\ Succeeds(sel, new)
    BY <1>2, FenceSucceeds DEF TypeOK
  <2>2. CASE /\ Write(new)
             /\ Goto(a, IF retire[a].seen = "drained" THEN "delete" ELSE "draining")
             /\ UNCHANGED <<lateSel, faults>>
    <3>1. job' \in Jobs /\ retire' \in [Supervisors -> Retires]
      BY <1>1, <2>2, GotoTypes
    <3>2. Effect
      <4> HIDE DEF new
      <4> QED BY <2>1, <2>2 DEF Effect
    <3> QED BY <1>4, <2>2, <3>1, <3>2 DEF RetireFence, OtherTypes, TypeOK, podVars
  <2>3. CASE /\ Fault
             /\ lateSel' = lateSel \union {<<sel, new>>}
             /\ Abort(a)
             /\ UNCHANGED <<sel, chosen>>
    <3>1. job' \in Jobs /\ retire' \in [Supervisors -> Retires]
      BY <1>2, <2>3, ReturnTypes
    <3>2. Effect
      <4> HIDE DEF new
      <4> QED BY <2>1, <2>3 DEF Effect
    <3> QED BY <1>3, <1>4, <2>3, <3>1, <3>2 DEF RetireFence, OtherTypes, TypeOK, podVars
  <2> QED BY <1>4, <2>2, <2>3 DEF RetireFence
<1>5. ASSUME NEW from, NEW to \in Lives, NEW next \in {"drain", "delete"},
             Rename(a, from, to, next),
             UNCHANGED <<podVars, sel, lateSel, sent, history, faults>>
      PROVE Effect /\ OtherTypes'
  <2>1. job' \in Jobs /\ retire' \in [Supervisors -> Retires]
    BY <1>1, <1>2, <1>5, ReturnTypes, GotoTypes DEF Rename
  <2>2. life' \in [Pods -> Lives]
    BY <1>5 DEF Rename, TypeOK
  <2> QED BY <1>5, <2>1, <2>2 DEF Effect, OtherTypes, TypeOK, podVars, history
<1>6. CASE RetireDraining(a)
  BY <1>5, <1>6 DEF RetireDraining, Lives
<1>7. CASE RetireDrained(a)
  BY <1>5, <1>7 DEF RetireDrained, Lives
<1>8. CASE RetireDrain(a)
  <2>1. job' \in Jobs /\ retire' \in [Supervisors -> Retires]
    BY <1>1, <1>2, <1>8, ReturnTypes, GotoTypes DEF RetireDrain
  <2>2. local' \in [Pods -> {"dormant", "accepting", "draining"}]
    BY <1>8 DEF RetireDrain, TypeOK
  <2> QED BY <1>8, <2>1, <2>2 DEF RetireDrain, Effect, OtherTypes, TypeOK, history
<1>9. CASE RetireDelete(a)
  <2>1. job' \in Jobs /\ retire' \in [Supervisors -> Retires]
    BY <1>2, <1>9, ReturnTypes DEF RetireDelete
  <2>2. life' \in [Pods -> Lives] /\ up' \subseteq Pods /\ busy' \subseteq up' /\ killed' \subseteq Pods
    BY <1>2, <1>9 DEF RetireDelete, TypeOK, Lives
  <2> QED BY <1>3, <1>9, <2>1, <2>2 DEF RetireDelete, Effect, OtherTypes, TypeOK
<1> QED BY <1>4, <1>6, <1>7, <1>8, <1>9 DEF RetireStep

-----------------------------------------------------------------------------

\* The calls of the gateway's worker: reconcile, _progress, update.
LEMMA WorkEffect ==
  ASSUME TypeOK, NextRetire \/ Create \/ RetireWinner \/ Activate \/ Confirm \/ RenameActive
  PROVE Effect /\ OtherTypes'
<1>1. Visible \subseteq Pods
  BY DEF Visible
<1>2. \A seen : AtWinner(seen) => job.winner \in Pods
  BY JobTypes DEF TypeOK, AtWinner
<1>3. CASE NextRetire
  <2>1. PICK p \in job.todo :
          IF life[p] = "gone"
          THEN job' = After(p, TRUE) /\ UNCHANGED <<retire, replaced>>
          ELSE /\ StartRetire("gateway", p, job.kind = "reconcile")
               /\ replaced' = IF job.kind = "replace" THEN replaced \union {p} ELSE replaced
               /\ UNCHANGED job
    BY <1>3 DEF NextRetire
  <2>2. p \in Pods
    BY <1>3, JobTypes DEF NextRetire, TypeOK
  <2>3. job' \in Jobs /\ retire' \in [Supervisors -> Retires] /\ replaced' \subseteq Pods
    <3>1. CASE life[p] = "gone"
      BY <2>1, <2>2, <3>1, AfterTypes DEF TypeOK
    <3>2. CASE life[p] # "gone"
      <4>1. (job.kind = "reconcile") \in BOOLEAN /\ "gateway" \in Supervisors
        BY DEF Supervisors
      <4> QED BY <2>1, <2>2, <3>2, <4>1, StartTypes DEF TypeOK
    <3> QED BY <3>1, <3>2
  <2> QED BY <1>3, <2>3 DEF NextRetire, Effect, OtherTypes, TypeOK, podVars
<1>4. CASE Create
  BY <1>4 DEF Create, NoJob, Jobs, Effect, OtherTypes, TypeOK, podVars, history
<1>5. CASE RetireWinner
  <2>1. job.winner \in Pods
    BY <1>2, <1>5 DEF RetireWinner
  <2>2. "gateway" \in Supervisors
    BY DEF Supervisors
  <2>3. retire' \in [Supervisors -> Retires]
    BY <1>5, <2>1, <2>2, StartTypes DEF RetireWinner, TypeOK
  <2>4. job' \in Jobs
    BY <1>5, JobSteps DEF RetireWinner, TypeOK
  <2> QED BY <1>5, <2>3, <2>4 DEF RetireWinner, Effect, OtherTypes, TypeOK, podVars, history
<1>6. CASE Activate \/ Confirm
  <2>1. job.kind = "reconcile"
    BY <1>6 DEF Activate, Confirm, AtWinner
  <2>2. job \in [kind : {"reconcile", "select", "rename", "confirm"}, winner : Pods,
                 seen : Lives, todo : SUBSET Pods, blocked : BOOLEAN]
    BY <2>1, JobTypes DEF TypeOK
  <2>3. job' \in Jobs
    BY <1>6, <2>2, JobSteps DEF Activate, Confirm
  <2> QED BY <1>6, <2>3 DEF Activate, Confirm, Effect, OtherTypes, TypeOK, podVars, history
<1>7. CASE RenameActive
  <2>1. job \in [kind : {"reconcile", "select", "rename", "confirm"}, winner : Pods,
                 seen : Lives, todo : SUBSET Pods, blocked : BOOLEAN]
    BY <1>7, JobTypes DEF RenameActive, TypeOK
  <2>2. job' \in Jobs
    BY <1>7, <2>1, JobSteps DEF RenameActive
  <2>3. life' \in [Pods -> Lives]
    BY <1>7 DEF RenameActive, TypeOK, Lives
  <2> QED BY <1>7, <2>2, <2>3 DEF RenameActive, Effect, OtherTypes, TypeOK, podVars, history
<1> QED BY <1>3, <1>4, <1>5, <1>6, <1>7

\* update(active=True), answered, refused or in doubt (selection.py).
LEMMA SelectEffect ==
  ASSUME TypeOK, Select
  PROVE Effect /\ OtherTypes'
<1> DEFINE w == job.winner
           new == Value(sel, w, job.seen, TRUE)
<1>1. job \in [kind : {"reconcile", "select", "rename", "confirm"}, winner : Pods,
               seen : Lives, todo : SUBSET Pods, blocked : BOOLEAN]
  BY JobTypes DEF Select, TypeOK
<1>2. ~Fenced(sel, w) => new \in Records /\ Succeeds(sel, new)
  BY <1>1, SelectSucceeds DEF TypeOK
<1>3. \/ UNCHANGED <<sel, chosen, lateSel, faults>>
      \/ ~Fenced(sel, w) /\ Write(new) /\ UNCHANGED <<lateSel, faults>>
      \/ /\ ~Fenced(sel, w) /\ Fault
         /\ lateSel' = lateSel \union {<<sel, new>>} /\ UNCHANGED <<sel, chosen>>
  BY DEF Select
<1>4. job' \in Jobs
  BY <1>1, JobSteps DEF Select
<1>5. faults' \in 0 .. MaxFaults
  <2> HIDE DEF new, w
  <2> QED BY <1>3, FaultsAssumption DEF TypeOK, Fault
<1>6. Effect
  <2> HIDE DEF new, w
  <2> QED BY <1>2, <1>3 DEF Effect
<1> QED BY <1>4, <1>5, <1>6 DEF Select, OtherTypes, TypeOK, podVars

\* _grant and _expire_unserved write the record of the selected Pod.
LEMMA GrantEffect ==
  ASSUME TypeOK, NEW p \in Pods, Grant(p) \/ ExpireUnserved(p)
  PROVE Effect /\ OtherTypes'
<1>1. p # 0 /\ NoRecord.pod = 0
  BY PodsAssumption DEF NoRecord
<1>2. sel.pod = p /\ sel # NoRecord
  BY <1>1 DEF Grant, ExpireUnserved, IsSelected
<1>3. sel \in [pod : Pods, active : BOOLEAN, granted : {"absent", "no", "yes"}]
  BY <1>2 DEF TypeOK, Records
<1>4. CASE Grant(p)
  <2> DEFINE new == [sel EXCEPT !.granted = "yes"]
  <2>1. sel.active
    BY <1>4 DEF Grant, IsSelected
  <2>2. new \in Records /\ new.active /\ new.pod = p
    BY <1>2, <1>3, <2>1 DEF Records
  <2>3. ~Fenced(sel, p)
    BY <1>2, <2>1, StartOfAssumption, PodsAssumption, FS_CardinalityType DEF Fenced
  <2>4. Write(new)
    BY <1>4 DEF Grant
  <2>5. StaysNew(sel, new)
    BY <1>3 DEF StaysNew
  <2>6. Effect
    <3> HIDE DEF new
    <3> QED BY <1>4, <2>2, <2>3, <2>4, <2>5 DEF Grant, Effect, Succeeds
  <2> QED BY <1>4, <2>6 DEF Grant, OtherTypes, TypeOK, podVars
<1>5. CASE ExpireUnserved(p)
  <2> DEFINE new == [sel EXCEPT !.active = FALSE]
  <2>1. new \in Records /\ ~new.active /\ new.pod = p
    BY <1>2, <1>3 DEF Records
  <2>2. new # NoRecord
    <3> HIDE DEF new
    <3> QED BY <1>1, <2>1
  <2>3. Write(new)
    BY <1>5 DEF ExpireUnserved
  <2>4. Effect
    <3>1. StaysNew(sel, new)
      BY <1>3 DEF StaysNew
    <3> HIDE DEF new
    <3> QED BY <1>2, <1>5, <2>1, <2>2, <2>3, <3>1 DEF ExpireUnserved, Effect, Succeeds
  <2>5. retire' \in [Supervisors -> Retires]
    <3>1. FALSE \in BOOLEAN /\ "gateway" \in Supervisors
      BY DEF Supervisors
    <3> QED BY <1>5, <3>1, StartTypes DEF ExpireUnserved
  <2> QED BY <1>5, <2>4, <2>5 DEF ExpireUnserved, OtherTypes, TypeOK, podVars
<1> QED BY <1>4, <1>5

\* A pass begins, a retire begins, and what the Pods do by themselves.
LEMMA OtherEffect ==
  ASSUME TypeOK,
         \/ Reconcile \/ Replace \/ \E a \in Supervisors : Crash(a)
         \/ \E p \in Pods : \/ RetireReported(p) \/ Cleanup(p) \/ Excess(p) \/ Appear(p)
                            \/ Control(p) \/ Capture(p) \/ Finish(p) \/ IdleDrain(p) \/ Stop(p)
  PROVE Effect /\ OtherTypes'
<1>1. Visible \subseteq Pods /\ "gateway" \in Supervisors /\ "revivor" \in Supervisors
  BY DEF Visible, Supervisors
<1>2. Fault => faults' \in 0 .. MaxFaults
  BY FaultsAssumption DEF TypeOK, Fault
<1>3. CASE Reconcile
  <2>1. Winner(Visible) \in Visible
    BY <1>1, <1>3, UnsettledHasPods, WinnerIsSeen DEF Reconcile
  <2>2. Winner(Visible) \in Pods /\ life[Winner(Visible)] \in Lives
    BY <1>1, <2>1 DEF TypeOK
  <2>3. job' \in Jobs
    BY <1>1, <1>3, <2>2 DEF Reconcile, Jobs
  <2> QED BY <1>3, <2>3 DEF Reconcile, Effect, OtherTypes, TypeOK, podVars, history
<1>4. CASE Replace
  BY <1>1, <1>4 DEF Replace, Jobs, Effect, OtherTypes, TypeOK, podVars, history
<1>5. ASSUME NEW a \in Supervisors, Crash(a)
      PROVE Effect /\ OtherTypes'
  <2>1. job' \in Jobs /\ retire' \in [Supervisors -> Retires]
    BY <1>5 DEF Crash, Abort, TypeOK, Jobs, NoJob, Retires, NoRetire
  <2> QED BY <1>2, <1>5, <2>1 DEF Crash, Effect, OtherTypes, TypeOK, podVars, history
<1>6. ASSUME NEW p \in Pods, RetireReported(p) \/ Cleanup(p) \/ Excess(p)
      PROVE Effect /\ OtherTypes'
  <2>1. retire' \in [Supervisors -> Retires]
    BY <1>1, <1>6, StartTypes DEF RetireReported, Cleanup, Excess
  <2> QED BY <1>2, <1>6, <2>1
          DEF RetireReported, Cleanup, Excess, Effect, OtherTypes, TypeOK, podVars, history
<1>7. ASSUME NEW p \in Pods,
             Appear(p) \/ Control(p) \/ Capture(p) \/ Finish(p) \/ IdleDrain(p) \/ Stop(p)
      PROVE Effect /\ OtherTypes'
  BY <1>2, <1>7 DEF Appear, Control, Capture, Finish, IdleDrain, Stop, Effect, OtherTypes,
                    TypeOK, history, Lives
<1> QED BY <1>3, <1>4, <1>5, <1>6, <1>7

-----------------------------------------------------------------------------
(* The invariant.                                                          *)

LEMMA InitInductive == Init => Inductive
<1> SUFFICES ASSUME Init PROVE Inductive
  OBVIOUS
<1>1. NoRecord \in Records /\ NoRetire \in Retires /\ NoJob \in Jobs /\ 0 \in 0 .. MaxFaults
  <2>1. NoRecord \in Records
    BY DEF Records
  <2>2. NoRetire \in Retires
    BY DEF Retires, NoRetire
  <2>3. NoJob \in Jobs
    BY DEF Jobs, NoJob
  <2>4. 0 \in 0 .. MaxFaults
    BY FaultsAssumption
  <2> QED BY <2>1, <2>2, <2>3, <2>4
<1>2. TypeOK
  BY <1>1 DEF Init, TypeOK, Lives
<1>3. LateSucceed /\ RecordIsNewest /\ OneCopySelected
  BY DEF Init, LateSucceed, RecordIsNewest, OneCopySelected, NoRecord
<1> QED BY <1>2, <1>3 DEF Inductive

LEMMA NextEffect ==
  ASSUME Inductive, Next
  PROVE Effect /\ OtherTypes'
<1>1. TypeOK
  BY DEF Inductive
<1>2. CASE Work \/ RetireStep("revivor")
  BY <1>1, <1>2, RetireStepEffect, WorkEffect, SelectEffect DEF Work, Supervisors
<1>3. CASE LateWrite
  <2>1. PICK w \in lateSel : sel = w[1] /\ Write(w[2]) /\ lateSel' = lateSel \ {w}
    BY <1>3 DEF LateWrite
  <2>2. w[2] \in Records /\ Succeeds(sel, w[2])
    BY <1>1, <2>1 DEF TypeOK, Inductive, LateSucceed
  <2> QED BY <1>1, <1>3, <2>1, <2>2 DEF LateWrite, Effect, OtherTypes, TypeOK, podVars
<1>4. ASSUME NEW p \in Pods, Grant(p) \/ ExpireUnserved(p)
      PROVE Effect /\ OtherTypes'
  BY <1>1, <1>4, GrantEffect
<1> QED BY <1>1, <1>2, <1>3, <1>4, OtherEffect DEF Next

\* What a step that keeps the invariant may do to the Pods ever selected.
LEMMA EffectKeeps ==
  ASSUME Inductive, Effect, OtherTypes'
  PROVE /\ Inductive'
        /\ \A p \in chosen : IsSelected(sel', p) => IsSelected(sel, p)
<1>1. /\ sel \in Records /\ chosen \subseteq Pods /\ lateSel \subseteq Records \X Records
      /\ RecordIsNewest /\ OneCopySelected /\ LateSucceed
  BY DEF Inductive, TypeOK
<1> DEFINE Kept == /\ sel' \in Records /\ chosen' \subseteq Pods
                   /\ RecordIsNewest' /\ OneCopySelected'
                   /\ \A p \in chosen : IsSelected(sel', p) => IsSelected(sel, p)
<1>2. Kept
  <2>1. CASE sel' = sel /\ chosen' = chosen
    BY <1>1, <2>1 DEF RecordIsNewest, OneCopySelected
  <2>2. ASSUME NEW s \in Records, Succeeds(sel, s), Write(s)
        PROVE Kept
    <3>1. sel' = s
      BY <2>2 DEF Write
    <3> QED BY <1>1, <2>2, <3>1, SuccessorKeeps
  <2> HIDE DEF Kept
  <2> QED BY <2>1, <2>2 DEF Effect
<1>3. lateSel' \subseteq Records \X Records /\ LateSucceed'
  <2>1. ASSUME NEW w \in lateSel'
        PROVE w \in Records \X Records /\ Succeeds(w[1], w[2])
    <3>1. CASE w \in lateSel
      BY <1>1, <3>1 DEF LateSucceed
    <3>2. ASSUME NEW s \in Records, w = <<sel, s>>, Succeeds(sel, s)
          PROVE w \in Records \X Records /\ Succeeds(w[1], w[2])
      BY <1>1, <3>2
    <3> QED BY <2>1, <3>1, <3>2 DEF Effect
  <2> QED BY <2>1 DEF LateSucceed, Succeeds, StaysNew, Fenced
<1> QED BY <1>2, <1>3 DEF Inductive, TypeOK, OtherTypes

LEMMA StepKeeps ==
  ASSUME Inductive, [Next]_vars
  PROVE /\ Inductive'
        /\ \A p \in chosen : IsSelected(sel', p) => IsSelected(sel, p)
<1>1. CASE Next
  BY <1>1, NextEffect, EffectKeeps
<1>2. CASE UNCHANGED vars
  <2>1. Effect /\ OtherTypes'
    BY <1>2 DEF vars, podVars, history, Inductive, TypeOK, Effect, OtherTypes
  <2> QED BY <2>1, EffectKeeps
<1> QED BY <1>1, <1>2

LEMMA AlwaysInductive == Spec => []Inductive
<1>1. Inductive /\ [Next]_vars => Inductive'
  BY StepKeeps
<1> QED BY InitInductive, <1>1, PTL DEF Spec

\* Type correctness of Fencing.
THEOREM FencingTypes == Spec => []TypeOK
<1>1. Inductive => TypeOK
  BY DEF Inductive
<1> QED BY <1>1, AlwaysInductive, PTL

\* Two copies of one connection's Pod are never both selected, at once or one
\* after another, whatever the supervisors, late writes and late duplicates do
\* (selection.py, Allocator.reconcile).
THEOREM SelectionIsUnique == Spec => []OneCopySelected
<1>1. Inductive => OneCopySelected
  BY DEF Inductive
<1> QED BY <1>1, AlwaysInductive, PTL

\* A Pod whose selection ended is never selected again (selection.py).
THEOREM FencedForGood == Spec => NeverReselected
<1>1. Inductive /\ [Next]_vars => [\A p \in chosen : IsSelected(sel', p) => IsSelected(sel, p)]_vars
  BY StepKeeps
<1> QED BY <1>1, AlwaysInductive, PTL DEF Spec, NeverReselected

-----------------------------------------------------------------------------
(* A capture survives.  A Pod may lose a capture only to a replacement in   *)
(* its own round, or it is quiet: nothing is under way and nothing can      *)
(* begin again, because it is stopped, or drained, or was never granted and *)
(* is no longer selected.                                                   *)

Quiet(p) ==
  /\ p \notin busy
  /\ \/ p \notin up /\ life[p] # "none"
     \/ local[p] = "draining"
     \/ p \in chosen \ grantees /\ ~IsSelected(sel, p)

Expendable(p) == p \in replaced \/ Quiet(p)

Served == busy \subseteq grantees /\ grantees \subseteq chosen

\* The Pod whose unserved access may expire was selected, and never granted.
UnservedIsNew == sel.granted = "no" => sel.pod \in chosen \ grantees

Calls == {"reconcile", "select", "rename", "confirm"}

\* A supervisor's call is about Pods that exist or did.
KnownJob ==
  /\ job.kind = "replace" => \A p \in job.todo : life[p] # "none"
  /\ job.kind \in Calls => \A p \in job.todo \union {job.winner} : life[p] # "none"

KnownRetires ==
  \A a \in Supervisors : retire[a].at # "none" => life[retire[a].pod] # "none"

DrainedIsQuiet == \A p \in Pods : life[p] = "drained" => Expendable(p)

\* A retire that is past its drain, that asks for none, or that found the Pod
\* drained already.
PastDrain(r) == \/ r.at \in {"drained", "delete"}
                \/ r.at # "none" /\ (~r.drain \/ r.seen = "drained")

RetiringIsQuiet ==
  \A a \in Supervisors : PastDrain(retire[a]) => Expendable(retire[a].pod)

SafeToDelete ==
  /\ Served /\ UnservedIsNew /\ KnownJob /\ KnownRetires
  /\ DrainedIsQuiet /\ RetiringIsQuiet /\ CaptureSurvives

\* What no step does to a Pod, whoever takes it.
NothingUndone ==
  /\ chosen \subseteq chosen' /\ replaced \subseteq replaced' /\ grantees \subseteq grantees'
  /\ \A p \in Pods :
       /\ life[p] # "none" => life'[p] # "none"
       /\ life[p] # "none" /\ p \notin up => p \notin up'
       /\ local[p] = "draining" => local'[p] = "draining"
       /\ p \in grantees' => p \in grantees \/ IsSelected(sel, p)
       /\ p \in busy' => \/ p \in busy
                         \/ /\ p \in up /\ local[p] = "accepting"
                            /\ IsSelected(sel, p) /\ p \in grantees

LEMMA WriteKeepsChosen ==
  ASSUME NEW r, Write(r)
  PROVE chosen \subseteq chosen'
BY DEF Write

\* A retire undoes nothing.
LEMMA RetireUndoesNothing ==
  ASSUME TypeOK, NEW a \in Supervisors, RetireStep(a)
  PROVE NothingUndone
<1>1. CASE RetireFence(a)
  BY <1>1, WriteKeepsChosen DEF RetireFence, NothingUndone, podVars
<1>2. CASE RetireDraining(a)
  BY <1>2 DEF RetireDraining, Rename, NothingUndone, podVars, history, TypeOK
<1>3. CASE RetireDrain(a)
  BY <1>3 DEF RetireDrain, NothingUndone, history, TypeOK
<1>4. CASE RetireDrained(a)
  BY <1>4 DEF RetireDrained, Rename, NothingUndone, podVars, history, TypeOK
<1>5. CASE RetireDelete(a)
  BY <1>5 DEF RetireDelete, NothingUndone, TypeOK
<1> QED BY <1>1, <1>2, <1>3, <1>4, <1>5 DEF RetireStep

LEMMA NextUndoesNothing ==
  ASSUME TypeOK, Next
  PROVE NothingUndone
<1>1. CASE RetireStep("gateway") \/ RetireStep("revivor")
  BY <1>1, RetireUndoesNothing DEF Supervisors
<1>2. CASE NextRetire
  BY <1>2 DEF NextRetire, NothingUndone, podVars
<1>3. CASE Create \/ RetireWinner \/ Activate \/ Confirm \/ Reconcile \/ Replace
  BY <1>3 DEF Create, RetireWinner, Activate, Confirm, Reconcile, Replace,
              NothingUndone, podVars, history
<1>4. CASE Select
  BY <1>4, WriteKeepsChosen DEF Select, NothingUndone, podVars
<1>5. CASE RenameActive
  BY <1>5 DEF RenameActive, NothingUndone, podVars, history, TypeOK
<1>6. CASE LateWrite
  BY <1>6, WriteKeepsChosen DEF LateWrite, NothingUndone, podVars
<1>7. ASSUME NEW p \in Pods, Grant(p) \/ ExpireUnserved(p)
      PROVE NothingUndone
  BY <1>7, WriteKeepsChosen DEF Grant, ExpireUnserved, NothingUndone, podVars
<1>8. ASSUME NEW p \in Pods, RetireReported(p) \/ Cleanup(p) \/ Excess(p)
      PROVE NothingUndone
  BY <1>8 DEF RetireReported, Cleanup, Excess, NothingUndone, podVars, history
<1>9. ASSUME NEW p \in Pods, Appear(p) \/ Finish(p) \/ Stop(p)
      PROVE NothingUndone
  BY <1>9 DEF Appear, Finish, Stop, NothingUndone, history, TypeOK
<1>10. ASSUME NEW p \in Pods, Control(p) \/ IdleDrain(p) \/ Capture(p)
       PROVE NothingUndone
  BY <1>10 DEF Control, IdleDrain, Capture, NothingUndone, history, TypeOK
<1>11. CASE \E a \in Supervisors : Crash(a)
  BY <1>11 DEF Crash, NothingUndone, podVars, history
<1> QED BY <1>1, <1>2, <1>3, <1>4, <1>5, <1>6, <1>7, <1>8, <1>9, <1>10, <1>11
        DEF Next, Work

\* What is known of a Pod, and that it is expendable, outlasts the step.
Lasting ==
  \A p \in Pods : life[p] # "none" => life'[p] # "none" /\ (Expendable(p) => Expendable(p)')

\* A quiet Pod stays quiet: start_capture, _grant and Control find nothing to do.
LEMMA QuietStays ==
  ASSUME TypeOK, NothingUndone,
         \A p \in chosen : IsSelected(sel', p) => IsSelected(sel, p)
  PROVE Lasting
<1> SUFFICES ASSUME NEW p \in Pods, life[p] # "none", Expendable(p)
             PROVE Expendable(p)'
  BY DEF Lasting, NothingUndone
<1>1. CASE p \in replaced
  BY <1>1 DEF NothingUndone, Expendable
<1>2. CASE Quiet(p)
  <2>1. p \notin busy'
    BY <1>2 DEF Quiet, NothingUndone
  <2>2. CASE p \notin up /\ life[p] # "none"
    BY <2>1, <2>2 DEF Quiet, Expendable, NothingUndone
  <2>3. CASE local[p] = "draining"
    BY <2>1, <2>3 DEF Quiet, Expendable, NothingUndone
  <2>4. CASE p \in chosen \ grantees /\ ~IsSelected(sel, p)
    BY <2>1, <2>4 DEF Quiet, Expendable, NothingUndone
  <2> QED BY <1>2, <2>2, <2>3, <2>4 DEF Quiet
<1> QED BY <1>1, <1>2 DEF Expendable

\* Access and captures go to Pods that were selected.
LEMMA ServedKeeps ==
  ASSUME Inductive, Inductive', Served, NothingUndone
  PROVE Served'
<1>1. busy' \subseteq Pods /\ grantees' \subseteq Pods
  BY DEF Inductive, TypeOK
<1>2. \A p \in Pods : IsSelected(sel, p) => p \in chosen
  BY DEF Inductive, RecordIsNewest, IsSelected
<1> QED BY <1>1, <1>2 DEF Served, NothingUndone

LEMMA UnservedKeeps ==
  ASSUME Inductive, Served, UnservedIsNew, Effect,
         grantees' = grantees \/ sel'.granted = "yes"
  PROVE UnservedIsNew'
<1>1. CASE sel'.granted = "yes"
  BY <1>1 DEF UnservedIsNew
<1>2. CASE grantees' = grantees /\ sel' = sel /\ chosen' = chosen
  BY <1>2 DEF UnservedIsNew
<1>3. ASSUME NEW r \in Records, Succeeds(sel, r), Write(r), grantees' = grantees
      PROVE UnservedIsNew'
  <2>1. sel' = r /\ chosen' = IF r.active THEN chosen \union {r.pod} ELSE chosen
    BY <1>3 DEF Write
  <2>2. CASE r.pod = sel.pod /\ sel.granted = "no"
    BY <1>3, <2>1, <2>2 DEF UnservedIsNew
  <2>3. CASE r.pod # sel.pod /\ r.active
    <3>1. ~Fenced(sel, r.pod)
      BY <1>3, <2>3 DEF Succeeds
    <3>2. r.pod \notin chosen
      <4>1. \A p \in Pods : StartOf[p] \in Nat
        BY StartOfAssumption, PodsAssumption, FS_CardinalityType
      <4>2. ASSUME r.pod \in chosen PROVE FALSE
        <5>1. sel # NoRecord /\ sel.pod \in Pods /\ r.pod \in Pods
          BY <4>2 DEF Inductive, RecordIsNewest, TypeOK, Records
        <5>2. StartOf[r.pod] < StartOf[sel.pod]
          BY <2>3, <4>2 DEF Inductive, RecordIsNewest
        <5>3. ~(StartOf[sel.pod] > StartOf[r.pod])
          BY <3>1, <5>1 DEF Fenced
        <5> QED BY <4>1, <5>1, <5>2, <5>3
      <4> QED BY <4>2
    <3> QED BY <1>3, <2>1, <2>3, <3>2 DEF UnservedIsNew, Served
  <2> QED BY <1>3, <2>1, <2>2, <2>3 DEF Succeeds, StaysNew, UnservedIsNew
<1> QED BY <1>1, <1>2, <1>3 DEF Effect

\* Only _grant gives access.
LEMMA NextGrants ==
  ASSUME TypeOK, Next
  PROVE grantees' = grantees \/ sel'.granted = "yes"
<1>1. CASE RetireStep("gateway") \/ RetireStep("revivor")
  BY <1>1 DEF RetireStep, RetireFence, RetireDraining, RetireDrain, RetireDrained,
              RetireDelete, history
<1>2. CASE NextRetire \/ Create \/ RetireWinner \/ Activate \/ Confirm \/ Select \/ RenameActive
  BY <1>2 DEF NextRetire, Create, RetireWinner, Activate, Confirm, Select, RenameActive, history
<1>3. CASE Reconcile \/ Replace \/ LateWrite
  BY <1>3 DEF Reconcile, Replace, LateWrite, history
<1>4. ASSUME NEW p \in Pods, Grant(p)
      PROVE sel'.granted = "yes"
  <2>1. sel' = [sel EXCEPT !.granted = "yes"]
    BY <1>4 DEF Grant, Write
  <2>2. "granted" \in DOMAIN sel
    BY DEF TypeOK, Records, NoRecord
  <2> QED BY <2>1, <2>2
<1>5. ASSUME NEW p \in Pods, ExpireUnserved(p) \/ RetireReported(p) \/ Cleanup(p) \/ Excess(p)
      PROVE grantees' = grantees
  BY <1>5 DEF ExpireUnserved, RetireReported, Cleanup, Excess, history
<1>6. ASSUME NEW p \in Pods,
             Appear(p) \/ Control(p) \/ Capture(p) \/ Finish(p) \/ IdleDrain(p) \/ Stop(p)
      PROVE grantees' = grantees
  BY <1>6 DEF Appear, Control, Capture, Finish, IdleDrain, Stop, history
<1>7. CASE \E a \in Supervisors : Crash(a)
  BY <1>7 DEF Crash, history
<1> QED BY <1>1, <1>2, <1>3, <1>4, <1>5, <1>6, <1>7 DEF Next, Work

\* The gateway's call goes on about Pods it knew.
LEMMA JobStaysKnown ==
  ASSUME TypeOK, KnownJob, Lasting,
         \/ job' \in {job, NoJob}
         \/ \E p \in Pods, ok \in BOOLEAN : job' = After(p, ok)
  PROVE KnownJob'
<1>1. CASE job' = job
  BY <1>1, JobTypes DEF KnownJob, Lasting, TypeOK, Calls
<1>2. CASE job' = NoJob
  BY <1>2 DEF KnownJob, NoJob, Calls
<1>3. ASSUME NEW p \in Pods, NEW ok \in BOOLEAN, job' = After(p, ok)
      PROVE KnownJob'
  <2>1. CASE job.kind = "reconcile" /\ p # job.winner
    <3>1. job \in [kind : Calls, winner : Pods, seen : Lives, todo : SUBSET Pods,
                   blocked : BOOLEAN]
      BY <2>1, JobTypes DEF TypeOK, Calls
    <3>2. job' = [job EXCEPT !.todo = @ \ {p},
                       !.blocked = @ \/ (~ok /\ StartOf[p] # StartOf[job.winner])]
      BY <1>3, <2>1 DEF After
    <3>3. job'.kind = job.kind /\ job'.todo \subseteq job.todo /\ job'.winner = job.winner
      BY <3>1, <3>2
    <3> QED BY <2>1, <3>1, <3>3 DEF KnownJob, Lasting, Calls
  <2>2. CASE job.kind = "replace" /\ ok
    <3>1. job \in [kind : {"replace"}, todo : SUBSET Pods]
      BY <2>2 DEF TypeOK, Jobs
    <3>2. job' = [job EXCEPT !.todo = @ \ {p}]
      BY <1>3, <2>2 DEF After
    <3>3. job'.kind = "replace" /\ job'.todo \subseteq job.todo
      BY <3>1, <3>2
    <3> QED BY <2>2, <3>1, <3>3 DEF KnownJob, Lasting, Calls
  <2>3. CASE ~(job.kind = "reconcile" /\ p # job.winner) /\ ~(job.kind = "replace" /\ ok)
    BY <1>2, <1>3, <2>3 DEF After
  <2> QED BY <2>1, <2>2, <2>3
<1> QED BY <1>1, <1>2, <1>3

\* A retire that does not move stays about a Pod that is known, and quiet.
LEMMA RetireUnmoved ==
  ASSUME TypeOK, KnownRetires, RetiringIsQuiet, Lasting,
         NEW b \in Supervisors, retire'[b] = retire[b]
  PROVE /\ retire'[b].at # "none" => life'[retire'[b].pod] # "none"
        /\ PastDrain(retire'[b]) => \E q \in Pods : q = retire'[b].pod /\ Expendable(q)'
<1>1. CASE retire[b].at = "none"
  BY <1>1 DEF PastDrain
<1>2. CASE retire[b].at # "none"
  <2> DEFINE q == retire[b].pod
  <2>1. q \in Pods
    BY <1>2, RetireTypes DEF TypeOK
  <2>2. life[q] # "none" /\ (PastDrain(retire[b]) => Expendable(q))
    BY <1>2 DEF KnownRetires, RetiringIsQuiet
  <2> QED BY <2>1, <2>2 DEF Lasting
<1> QED BY <1>1, <1>2

LEMMA RetiresAreQuiet ==
  ASSUME \A b \in Supervisors :
           /\ retire'[b].at # "none" => life'[retire'[b].pod] # "none"
           /\ PastDrain(retire'[b]) => \E q \in Pods : q = retire'[b].pod /\ Expendable(q)'
  PROVE KnownRetires' /\ RetiringIsQuiet'
<1>1. KnownRetires'
  BY DEF KnownRetires
<1>2. \A b \in Supervisors : PastDrain(retire'[b]) => \E q \in Pods : q = retire'[b].pod /\ Expendable(q)'
  OBVIOUS
<1>3. RetiringIsQuiet'
  BY <1>2 DEF RetiringIsQuiet, Expendable, Quiet
<1> QED BY <1>1, <1>3

\* One supervisor's retire moves on, the other's stays.
LEMMA RetiresStayQuiet ==
  ASSUME TypeOK, KnownRetires, RetiringIsQuiet, Lasting,
         NEW a \in Supervisors, NEW p \in Pods, life[p] # "none",
         \A b \in Supervisors \ {a} : retire'[b] = retire[b],
         \/ retire'[a] = NoRetire
         \/ /\ retire'[a].pod = p
            /\ PastDrain(retire'[a]) => Expendable(p) \/ Expendable(p)'
  PROVE KnownRetires' /\ RetiringIsQuiet'
<1> DEFINE Stays(b) ==
      /\ retire'[b].at # "none" => life'[retire'[b].pod] # "none"
      /\ PastDrain(retire'[b]) => \E q \in Pods : q = retire'[b].pod /\ Expendable(q)'
<1>1. ASSUME NEW b \in Supervisors \ {a} PROVE Stays(b)
  BY <1>1, RetireUnmoved
<1>2. Stays(a)
  <2>1. CASE retire'[a] = NoRetire
    BY <2>1 DEF NoRetire, PastDrain
  <2>2. CASE /\ retire'[a].pod = p
             /\ PastDrain(retire'[a]) => Expendable(p) \/ Expendable(p)'
    BY <2>2 DEF Lasting
  <2> QED BY <2>1, <2>2
<1>3. \A b \in Supervisors : Stays(b)
  <2> HIDE DEF Stays
  <2> QED BY <1>1, <1>2
<1> QED BY <1>3, RetiresAreQuiet

LEMMA RetiresUnmoved ==
  ASSUME TypeOK, KnownRetires, RetiringIsQuiet, Lasting, retire' = retire
  PROVE KnownRetires' /\ RetiringIsQuiet'
BY RetireUnmoved, RetiresAreQuiet

\* Only the rename at the end of a drain calls a Pod drained.
LEMMA DrainedStaysQuiet ==
  ASSUME TypeOK, DrainedIsQuiet, Lasting,
         \A p \in Pods : life'[p] = "drained" =>
            life[p] = "drained" \/ (life[p] # "none" /\ Expendable(p))
  PROVE DrainedIsQuiet'
BY DEF DrainedIsQuiet, Lasting

\* How a retire ends, goes on and begins.
LEMMA ReturnMoves ==
  ASSUME TypeOK, NEW a \in Supervisors, NEW p \in Pods, NEW ok \in BOOLEAN,
         Return(a, p, ok) \/ Abort(a)
  PROVE /\ \/ job' \in {job, NoJob}
           \/ \E q \in Pods, k \in BOOLEAN : job' = After(q, k)
        /\ retire'[a] = NoRetire
        /\ \A b \in Supervisors \ {a} : retire'[b] = retire[b]
<1>1. retire' = [retire EXCEPT ![a] = NoRetire]
  BY DEF Return, Abort
<1>2. job' \in {job, NoJob} \/ job' = After(p, ok)
  BY DEF Return, Abort
<1> QED BY <1>1, <1>2 DEF TypeOK

LEMMA GotoMoves ==
  ASSUME TypeOK, NEW a \in Supervisors, retire[a].at # "none", NEW step, Goto(a, step)
  PROVE /\ job' = job
        /\ retire'[a] = [retire[a] EXCEPT !.at = step]
        /\ \A b \in Supervisors \ {a} : retire'[b] = retire[b]
        /\ retire'[a].at = step /\ retire'[a].pod = retire[a].pod
        /\ retire'[a].drain = retire[a].drain /\ retire'[a].seen = retire[a].seen
<1>1. job' = job /\ retire' = [retire EXCEPT ![a].at = step]
  BY DEF Goto
<1>2. retire[a] \in [at : {"fence", "draining", "drain", "drained", "delete"},
                     pod : Pods, seen : Lives, drain : BOOLEAN]
  BY RetireTypes DEF TypeOK
<1>3. retire'[a] = [retire[a] EXCEPT !.at = step]
  BY <1>1 DEF TypeOK
<1> QED BY <1>1, <1>2, <1>3 DEF TypeOK

LEMMA StartMoves ==
  ASSUME TypeOK, NEW a \in Supervisors, NEW p \in Pods, NEW drain \in BOOLEAN,
         StartRetire(a, p, drain)
  PROVE /\ retire'[a].pod = p /\ retire'[a].drain = drain /\ retire'[a].seen = life[p]
        /\ retire'[a].at = "fence"
        /\ \A b \in Supervisors \ {a} : retire'[b] = retire[b]
BY DEF TypeOK, StartRetire, Begin

Safe == KnownJob /\ KnownRetires /\ DrainedIsQuiet /\ RetiringIsQuiet /\ CaptureSurvives

\* A step of a retire: only a Pod past its drain is called drained or deleted.
LEMMA RetireStaysSafe ==
  ASSUME Inductive, SafeToDelete, Lasting, NEW a \in Supervisors, RetireStep(a)
  PROVE Safe'
<1> DEFINE p == retire[a].pod
<1> USE DEF Inductive
<1>1. retire[a].at # "none"
  BY DEF RetireStep, RetireFence, RetireDraining, RetireDrain, RetireDrained, RetireDelete
<1>2. p \in Pods /\ life[p] # "none"
  BY <1>1, RetireTypes DEF TypeOK, SafeToDelete, KnownRetires
<1>3. PastDrain(retire[a]) => Expendable(p)
  BY DEF SafeToDelete, RetiringIsQuiet
<1> DEFINE Returns == \E ok \in BOOLEAN : Return(a, p, ok) \/ Abort(a)
           Goes == \E step : /\ Goto(a, step)
                             /\ step \in {"drained", "delete"} => Expendable(p)
<1>4. ASSUME Returns \/ Goes PROVE KnownJob' /\ KnownRetires' /\ RetiringIsQuiet'
  <2>1. CASE Returns
    BY <1>2, <2>1, ReturnMoves, JobStaysKnown, RetiresStayQuiet DEF SafeToDelete
  <2>2. CASE Goes
    <3>1. PICK step : Goto(a, step) /\ (step \in {"drained", "delete"} => Expendable(p))
      BY <2>2
    <3>2. /\ job' = job
          /\ \A b \in Supervisors \ {a} : retire'[b] = retire[b]
          /\ retire'[a].at = step /\ retire'[a].pod = p
          /\ retire'[a].drain = retire[a].drain /\ retire'[a].seen = retire[a].seen
      BY <1>1, <3>1, GotoMoves
    <3>3. PastDrain(retire'[a]) => Expendable(p)
      BY <1>1, <1>3, <3>1, <3>2 DEF PastDrain
    <3>4. KnownJob'
      BY <3>2, JobStaysKnown DEF SafeToDelete
    <3> HIDE DEF p
    <3> QED BY <1>2, <3>2, <3>3, <3>4, RetiresStayQuiet DEF SafeToDelete
  <2> QED BY <1>4, <2>1, <2>2
<1>5. ASSUME Returns \/ Goes,
             \A q \in Pods : life'[q] = "drained" =>
               life[q] = "drained" \/ (life[q] # "none" /\ Expendable(q)),
             killed' = {}
      PROVE Safe'
  <2>1. DrainedIsQuiet'
    BY <1>5, DrainedStaysQuiet DEF SafeToDelete
  <2> QED BY <1>4, <1>5, <2>1 DEF Safe, CaptureSurvives
<1>6. killed = {}
  BY DEF SafeToDelete, CaptureSurvives
<1>12. Abort(a) => Returns
  OBVIOUS
<1>13. ASSUME NEW step, Goto(a, step), step \in {"drained", "delete"} => Expendable(p)
       PROVE Goes
  BY <1>13
<1> HIDE DEF Returns, Goes
<1>7. CASE RetireFence(a)
  <2>1. Returns \/ Goes
    <3>1. \/ Goto(a, IF retire[a].seen = "drained" THEN "delete" ELSE "draining")
          \/ Abort(a)
      BY <1>7 DEF RetireFence
    <3>2. retire[a].seen = "drained" => Expendable(p)
      BY <1>1, <1>3 DEF PastDrain
    <3>3. CASE retire[a].seen = "drained" /\ Goto(a, "delete")
      BY <1>13, <3>2, <3>3
    <3>4. CASE Goto(a, "draining")
      BY <1>13, <3>4
    <3> QED BY <1>12, <3>1, <3>3, <3>4
  <2> QED BY <1>5, <1>6, <1>7, <2>1 DEF RetireFence
<1>8. CASE RetireDraining(a)
  <2>1. Returns \/ Goes
    BY <1>8, <1>12, <1>13 DEF RetireDraining, Rename
  <2>2. killed' = {} /\ (life' = life \/ life' = [life EXCEPT ![p] = "draining"])
    BY <1>6, <1>8 DEF RetireDraining, Rename, history
  <2> QED BY <1>5, <2>1, <2>2 DEF TypeOK
<1>9. CASE RetireDrain(a)
  <2>1. Returns \/ Goes
    <3>1. CASE ~retire[a].drain \/ p \notin up \/ (a = "gateway" /\ Reported(p))
      <4>1. Goto(a, "drained")
        BY <1>9, <3>1 DEF RetireDrain
      <4>2. ~retire[a].drain => Expendable(p)
        BY <1>1, <1>3 DEF PastDrain
      <4>3. p \notin up => Expendable(p)
        BY <1>2 DEF Expendable, Quiet, TypeOK
      <4>4. Reported(p) => Expendable(p)
        BY DEF Expendable, Quiet, Reported
      <4> QED BY <3>1, <4>1, <4>2, <4>3, <4>4 DEF Goes
    <3>2. CASE ~(~retire[a].drain \/ p \notin up \/ (a = "gateway" /\ Reported(p)))
      BY <1>9, <3>2 DEF RetireDrain, Returns
    <3> QED BY <3>1, <3>2
  <2> QED BY <1>5, <1>6, <1>9, <2>1 DEF RetireDrain, history
<1>10. CASE RetireDrained(a)
  <2>1. Expendable(p)
    BY <1>3, <1>10 DEF RetireDrained, PastDrain
  <2>2. Returns \/ Goes
    BY <1>10, <2>1 DEF RetireDrained, Rename, Returns, Goes
  <2>3. killed' = {} /\ (life' = life \/ life' = [life EXCEPT ![p] = "drained"])
    BY <1>6, <1>10 DEF RetireDrained, Rename, history
  <2>4. \A q \in Pods : life'[q] = "drained" => life[q] = "drained" \/ q = p
    BY <2>3 DEF TypeOK
  <2> QED BY <1>2, <1>5, <2>1, <2>2, <2>3, <2>4
<1>11. CASE RetireDelete(a)
  <2>1. p \notin busy \ replaced
    BY <1>3, <1>11 DEF RetireDelete, PastDrain, Expendable, Quiet
  <2>2. Returns
    BY <1>11 DEF RetireDelete, Returns
  <2>3. killed' = {} /\ (life' = life \/ life' = [life EXCEPT ![p] = "gone"])
    BY <1>6, <1>11, <2>1 DEF RetireDelete
  <2> QED BY <1>5, <2>2, <2>3 DEF TypeOK
<1> QED BY <1>7, <1>8, <1>9, <1>10, <1>11 DEF RetireStep

-----------------------------------------------------------------------------
(* The worker's other steps, the Pods' and the crashes delete nothing; a    *)
(* retire without a drain begins at a Pod that is expendable.               *)

LEMMA CallStaysKnown ==
  ASSUME TypeOK, KnownJob, Lasting, job.kind \in Calls, job'.kind \in Calls,
         job'.todo = job.todo, job'.winner = job.winner
  PROVE KnownJob'
<1>1. job.todo \subseteq Pods /\ job.winner \in Pods
  BY JobTypes DEF TypeOK, Calls
<1> QED BY <1>1 DEF KnownJob, Lasting, Calls

LEMMA WorkStaysSafe ==
  ASSUME TypeOK, SafeToDelete, Lasting,
         NextRetire \/ Create \/ RetireWinner \/ Activate \/ Confirm \/ Select \/ RenameActive
  PROVE Safe'
<1>1. /\ KnownJob /\ KnownRetires /\ RetiringIsQuiet /\ DrainedIsQuiet /\ killed = {}
      /\ "gateway" \in Supervisors /\ TRUE \in BOOLEAN
  BY DEF SafeToDelete, CaptureSurvives, Supervisors
<1>2. killed' = {}
  BY <1>1 DEF NextRetire, Create, RetireWinner, Activate, Confirm, Select, RenameActive, history
<1>3. DrainedIsQuiet'
  <2>1. \A p \in Pods : life'[p] = "drained" => life[p] = "drained"
    <3>1. CASE RenameActive
      BY <3>1 DEF RenameActive, TypeOK
    <3>2. CASE ~RenameActive
      BY <3>2 DEF NextRetire, Create, RetireWinner, Activate, Confirm, Select
    <3> QED BY <3>1, <3>2
  <2> QED BY <1>1, <2>1, DrainedStaysQuiet
<1>4. CASE NextRetire
  <2>1. PICK p \in job.todo :
          IF life[p] = "gone"
          THEN job' = After(p, TRUE) /\ UNCHANGED <<retire, replaced>>
          ELSE /\ StartRetire("gateway", p, job.kind = "reconcile")
               /\ replaced' = IF job.kind = "replace" THEN replaced \union {p} ELSE replaced
               /\ UNCHANGED job
    BY <1>4 DEF NextRetire
  <2>2. p \in Pods /\ life[p] # "none" /\ job.kind \in {"reconcile", "replace"}
    BY <1>1, <1>4, JobTypes DEF NextRetire, TypeOK, KnownJob, Calls
  <2>3. CASE life[p] = "gone"
    <3>1. KnownJob'
      BY <1>1, <2>1, <2>2, <2>3, JobStaysKnown
    <3> QED BY <1>1, <1>2, <1>3, <2>1, <2>3, <3>1, RetiresUnmoved DEF Safe, CaptureSurvives
  <2>4. CASE life[p] # "gone"
    <3> DEFINE drain == (job.kind = "reconcile")
    <3>1. drain \in BOOLEAN /\ StartRetire("gateway", p, drain)
      BY <2>1, <2>4
    <3>2. KnownJob'
      BY <1>1, <2>1, <2>4, JobStaysKnown
    <3>3. ~drain => Expendable(p)'
      BY <2>1, <2>2, <2>4 DEF Expendable
    <3> HIDE DEF drain
    <3>4. /\ retire'["gateway"].pod = p /\ retire'["gateway"].drain = drain
          /\ retire'["gateway"].seen = life[p] /\ retire'["gateway"].at = "fence"
          /\ \A b \in Supervisors \ {"gateway"} : retire'[b] = retire[b]
      BY <1>1, <2>2, <3>1, StartMoves
    <3>5. PastDrain(retire'["gateway"]) => Expendable(p) \/ Expendable(p)'
      BY <1>1, <2>2, <3>3, <3>4 DEF PastDrain, DrainedIsQuiet
    <3>6. KnownRetires' /\ RetiringIsQuiet'
      BY <1>1, <2>2, <3>4, <3>5, RetiresStayQuiet
    <3> QED BY <1>2, <1>3, <3>2, <3>6 DEF Safe, CaptureSurvives
  <2> QED BY <2>3, <2>4
<1>5. CASE RetireWinner
  <2> DEFINE p == job.winner
  <2>1. p \in Pods /\ life[p] # "none" /\ (job' = NoJob \/ job' = job)
    BY <1>1, <1>5, JobTypes DEF RetireWinner, AtWinner, TypeOK, KnownJob, Calls
  <2>2. KnownJob'
    BY <1>1, <2>1, JobStaysKnown
  <2>3. KnownRetires' /\ RetiringIsQuiet'
    <3>1. CASE retire' = retire
      BY <1>1, <3>1, RetiresUnmoved
    <3>2. CASE StartRetire("gateway", p, TRUE)
      <4>1. /\ retire'["gateway"].pod = p /\ retire'["gateway"].drain = TRUE
            /\ retire'["gateway"].seen = life[p] /\ retire'["gateway"].at = "fence"
            /\ \A b \in Supervisors \ {"gateway"} : retire'[b] = retire[b]
        BY <1>1, <2>1, <3>2, StartMoves
      <4>2. PastDrain(retire'["gateway"]) => Expendable(p)
        BY <1>1, <2>1, <4>1 DEF PastDrain, DrainedIsQuiet
      <4> HIDE DEF p
      <4> QED BY <1>1, <2>1, <4>1, <4>2, RetiresStayQuiet
    <3> QED BY <1>5, <3>1, <3>2 DEF RetireWinner
  <2> QED BY <1>2, <1>3, <2>2, <2>3 DEF Safe, CaptureSurvives
<1>6. CASE Create \/ Activate \/ Confirm \/ Select \/ RenameActive
  <2>1. retire' = retire
    BY <1>6 DEF Create, Activate, Confirm, Select, RenameActive
  <2>2. \/ job' = NoJob
        \/ /\ job.kind \in Calls
           /\ \/ job' \in {[job EXCEPT !.kind = "select"], [job EXCEPT !.kind = "rename"],
                           [job EXCEPT !.kind = "confirm"]}
              \/ job' = [job EXCEPT !.kind = "confirm", !.seen = "active"]
    BY <1>6 DEF Create, Activate, Confirm, Select, RenameActive, AtWinner, Calls
  <2>3. KnownJob'
    <3>1. CASE job' = NoJob
      BY <1>1, <3>1, JobStaysKnown
    <3>2. CASE job' # NoJob
      <4>1. job \in [kind : Calls, winner : Pods, seen : Lives, todo : SUBSET Pods,
                     blocked : BOOLEAN]
        BY <2>2, <3>2, JobTypes DEF TypeOK, Calls
      <4>2. /\ job.kind \in Calls /\ job'.kind \in Calls
            /\ job'.todo = job.todo /\ job'.winner = job.winner
        BY <2>2, <3>2, <4>1 DEF Calls
      <4> QED BY <1>1, <4>2, CallStaysKnown
    <3> QED BY <3>1, <3>2
  <2> QED BY <1>1, <1>2, <1>3, <2>1, <2>3, RetiresUnmoved DEF Safe, CaptureSurvives
<1> QED BY <1>4, <1>5, <1>6

\* A pass and a retire begin; access is granted or expires.
LEMMA PassStaysSafe ==
  ASSUME TypeOK, SafeToDelete, Lasting,
         \/ Reconcile \/ Replace \/ LateWrite
         \/ \E p \in Pods : \/ Grant(p) \/ ExpireUnserved(p) \/ RetireReported(p)
                            \/ Cleanup(p) \/ Excess(p)
  PROVE Safe'
<1>1. /\ KnownJob /\ KnownRetires /\ RetiringIsQuiet /\ DrainedIsQuiet /\ killed = {}
      /\ "gateway" \in Supervisors /\ "revivor" \in Supervisors
      /\ TRUE \in BOOLEAN /\ FALSE \in BOOLEAN
  BY DEF SafeToDelete, CaptureSurvives, Supervisors
<1>2. killed' = {} /\ life' = life
  BY <1>1 DEF Reconcile, Replace, LateWrite, Grant, ExpireUnserved, RetireReported,
              Cleanup, Excess, history
<1>3. DrainedIsQuiet'
  BY <1>1, <1>2, DrainedStaysQuiet
<1>4. \A p \in Visible : p \in Pods /\ life[p] # "none"
  BY DEF Visible
<1>5. CASE Reconcile
  <2>1. Winner(Visible) \in Visible
    BY <1>4, <1>5, UnsettledHasPods, WinnerIsSeen DEF Reconcile
  <2>2. KnownJob'
    BY <1>2, <1>4, <1>5, <2>1 DEF Reconcile, KnownJob, Calls
  <2> QED BY <1>1, <1>2, <1>3, <1>5, <2>2, RetiresUnmoved DEF Reconcile, Safe, CaptureSurvives
<1>6. CASE Replace
  <2>1. KnownJob'
    BY <1>2, <1>4, <1>6 DEF Replace, KnownJob, Calls
  <2> QED BY <1>1, <1>2, <1>3, <1>6, <2>1, RetiresUnmoved DEF Replace, Safe, CaptureSurvives
<1>7. CASE LateWrite \/ \E p \in Pods : Grant(p)
  <2>1. job' = job /\ retire' = retire
    BY <1>7 DEF LateWrite, Grant
  <2> QED BY <1>1, <1>2, <1>3, <2>1, JobStaysKnown, RetiresUnmoved DEF Safe, CaptureSurvives
<1>8. ASSUME NEW p \in Pods,
             ExpireUnserved(p) \/ RetireReported(p) \/ Cleanup(p) \/ Excess(p)
      PROVE Safe'
  <2>1. job' = job /\ life[p] # "none"
    BY <1>4, <1>8 DEF ExpireUnserved, RetireReported, Reported, Cleanup, Excess, Victim
  <2>2. KnownJob'
    BY <1>1, <2>1, JobStaysKnown
  <2>3. \E a \in Supervisors, drain \in BOOLEAN :
           StartRetire(a, p, drain) /\ (~drain => Expendable(p) \/ Expendable(p)')
    <3>1. CASE ExpireUnserved(p)
      <4>1. sel.pod = p /\ p \in chosen \ grantees /\ p \notin busy
        BY <3>1 DEF ExpireUnserved, SafeToDelete, UnservedIsNew, Served
      <4>2. sel' = [sel EXCEPT !.active = FALSE] /\ chosen \subseteq chosen'
        BY <3>1, WriteKeepsChosen DEF ExpireUnserved, Write
      <4>3. sel'.active = FALSE
        BY <4>2 DEF TypeOK, Records, NoRecord
      <4>4. Expendable(p)'
        BY <3>1, <4>1, <4>2, <4>3 DEF ExpireUnserved, Expendable, Quiet, IsSelected, podVars
      <4> QED BY <1>1, <3>1, <4>4 DEF ExpireUnserved
    <3>2. CASE RetireReported(p)
      BY <1>1, <3>2 DEF RetireReported, Reported, Expendable, Quiet
    <3>3. CASE Cleanup(p) \/ Excess(p)
      BY <1>1, <3>3 DEF Cleanup, Excess
    <3> QED BY <1>8, <3>1, <3>2, <3>3
  <2>4. PICK a \in Supervisors, drain \in BOOLEAN :
           StartRetire(a, p, drain) /\ (~drain => Expendable(p) \/ Expendable(p)')
    BY <2>3
  <2>5. /\ retire'[a].pod = p /\ retire'[a].drain = drain
        /\ retire'[a].seen = life[p] /\ retire'[a].at = "fence"
        /\ \A b \in Supervisors \ {a} : retire'[b] = retire[b]
    BY <2>4, StartMoves
  <2>6. PastDrain(retire'[a]) => Expendable(p) \/ Expendable(p)'
    BY <1>1, <2>4, <2>5 DEF PastDrain, DrainedIsQuiet
  <2>7. KnownRetires' /\ RetiringIsQuiet'
    BY <1>1, <2>1, <2>5, <2>6, RetiresStayQuiet
  <2> QED BY <1>2, <1>3, <2>2, <2>7 DEF Safe, CaptureSurvives
<1> QED BY <1>5, <1>6, <1>7, <1>8

\* The Pods' own steps, and a crash.
LEMMA PodStaysSafe ==
  ASSUME TypeOK, SafeToDelete, Lasting,
         \/ \E a \in Supervisors : Crash(a)
         \/ \E p \in Pods : \/ Appear(p) \/ Control(p) \/ Capture(p)
                            \/ Finish(p) \/ IdleDrain(p) \/ Stop(p)
  PROVE Safe'
<1>1. KnownJob /\ KnownRetires /\ RetiringIsQuiet /\ DrainedIsQuiet /\ killed = {}
  BY DEF SafeToDelete, CaptureSurvives
<1>2. killed' = {}
  BY <1>1 DEF Crash, Appear, Control, Capture, Finish, IdleDrain, Stop, history
<1>3. DrainedIsQuiet'
  <2>1. \A p \in Pods : life'[p] = "drained" => life[p] = "drained"
    BY DEF Crash, Appear, Control, Capture, Finish, IdleDrain, Stop, TypeOK
  <2> QED BY <1>1, <2>1, DrainedStaysQuiet
<1>4. ASSUME NEW a \in Supervisors, Crash(a)
      PROVE Safe'
  <2>1. retire' = [retire EXCEPT ![a] = NoRetire] /\ job' \in {job, NoJob}
    BY <1>4 DEF Crash, Abort
  <2>2. KnownJob'
    BY <1>1, <2>1, JobStaysKnown
  <2> DEFINE Stays(b) ==
        /\ retire'[b].at # "none" => life'[retire'[b].pod] # "none"
        /\ PastDrain(retire'[b]) => \E q \in Pods : q = retire'[b].pod /\ Expendable(q)'
  <2>3. Stays(a)
    BY <2>1 DEF NoRetire, PastDrain, TypeOK
  <2>4. \A b \in Supervisors \ {a} : retire'[b] = retire[b]
    BY <2>1 DEF TypeOK
  <2>5. \A b \in Supervisors \ {a} : Stays(b)
    BY <1>1, <2>4, RetireUnmoved
  <2>6. \A b \in Supervisors : Stays(b)
    <3> HIDE DEF Stays
    <3> QED BY <2>3, <2>5
  <2>7. KnownRetires' /\ RetiringIsQuiet'
    BY <2>6, RetiresAreQuiet
  <2> QED BY <1>2, <1>3, <2>2, <2>7 DEF Safe, CaptureSurvives
<1>5. CASE \E p \in Pods : \/ Appear(p) \/ Control(p) \/ Capture(p)
                           \/ Finish(p) \/ IdleDrain(p) \/ Stop(p)
  <2>1. job' = job /\ retire' = retire
    BY <1>5 DEF Appear, Control, Capture, Finish, IdleDrain, Stop
  <2> QED BY <1>1, <1>2, <1>3, <2>1, JobStaysKnown, RetiresUnmoved DEF Safe, CaptureSurvives
<1> QED BY <1>4, <1>5

LEMMA InitSafe == Init => SafeToDelete
<1> SUFFICES ASSUME Init PROVE SafeToDelete
  OBVIOUS
<1>1. Served /\ UnservedIsNew /\ CaptureSurvives
  BY DEF Init, Served, UnservedIsNew, CaptureSurvives, NoRecord
<1>2. KnownJob /\ KnownRetires
  BY DEF Init, KnownJob, KnownRetires, NoJob, NoRetire, Calls
<1>3. DrainedIsQuiet
  BY DEF Init, DrainedIsQuiet
<1>4. RetiringIsQuiet
  BY DEF Init, RetiringIsQuiet, PastDrain, NoRetire
<1> QED BY <1>1, <1>2, <1>3, <1>4 DEF SafeToDelete

LEMMA StepStaysSafe ==
  ASSUME Inductive, SafeToDelete, [Next]_vars
  PROVE SafeToDelete'
<1>1. CASE Next
  <2>1. TypeOK /\ Inductive'
    BY <1>1, StepKeeps DEF Inductive
  <2>2. NothingUndone /\ Effect /\ (grantees' = grantees \/ sel'.granted = "yes")
    BY <1>1, <2>1, NextUndoesNothing, NextEffect, NextGrants
  <2>3. Lasting
    BY <2>1, <2>2, StepKeeps, QuietStays
  <2>4. Served' /\ UnservedIsNew'
    BY <2>1, <2>2, ServedKeeps, UnservedKeeps DEF SafeToDelete
  <2>5. Safe'
    BY <1>1, <2>1, <2>3, RetireStaysSafe, WorkStaysSafe, PassStaysSafe, PodStaysSafe
       DEF Next, Work, Supervisors
  <2> QED BY <2>4, <2>5 DEF Safe, SafeToDelete
<1>2. CASE UNCHANGED vars
  BY <1>2 DEF vars, podVars, history, SafeToDelete, Served, UnservedIsNew, KnownJob, KnownRetires,
              DrainedIsQuiet, RetiringIsQuiet, CaptureSurvives, Expendable, Quiet
<1> QED BY <1>1, <1>2

\* Only a deliberate replacement in the same round deletes a Pod with a capture
\* under way: whichever supervisor retires it, from whatever step it went on,
\* the Pod has reported its drain, is stopped, or was never granted
\* (Allocator.retire in allocator.py, DrainControl.drain, cleanup_workers).
THEOREM NoCaptureIsKilled == Spec => []CaptureSurvives
<1>1. Inductive /\ SafeToDelete /\ [Next]_vars => SafeToDelete'
  BY StepStaysSafe
<1>2. Spec => []SafeToDelete
  BY <1>1, InitSafe, AlwaysInductive, PTL DEF Spec
<1>3. SafeToDelete => CaptureSurvives
  BY DEF SafeToDelete
<1> QED BY <1>2, <1>3, PTL
=============================================================================
