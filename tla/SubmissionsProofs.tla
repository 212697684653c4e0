------------------------- MODULE SubmissionsProofs --------------------------
(***************************************************************************)
(* The leases of RoundPolicy and the results saved under them, for any      *)
(* number of Pods, prompts, passes and faults, any lease time and deadline.  *)
(*                                                                         *)
(* A lease once granted only gets older: the invariant relates it to the    *)
(* commit it was granted for, to the clock and to the chain, and none of the *)
(* three can move in its favour.  A Pod's copy of the index is the index if  *)
(* it has its entity tag.                                                   *)
(***************************************************************************)
EXTENDS Submissions, SequenceTheorems, TLAPS

\* A commit that bears an open lease out: the tip, or one that was replaced
\* at most a lease time before the lease ends.
Supports(k, l) ==
  /\ commits[k].open /\ commits[k].inputs = l.inputs
  /\ k = Tip \/ l.expires <= commits[k + 1].at + Ttl

Granted(l) ==
  l.open => /\ l.observed <= now /\ l.expires <= l.observed + Ttl
            /\ l.expires <= blockAt + Deadline - block
            /\ \E k \in 1 .. Tip : Supports(k, l)

Timely == block <= blockAt /\ Granted(policy) /\ \A p \in Pods : Granted(lease[p])

\* Everything that runs has the inputs that were saved first.
OneInput ==
  /\ inputs \in {pin, NoInputs}
  /\ \A p \in Pods : frozen[p] \in {pin, NoInputs}
  /\ \A p \in Pods : frozen[p] = NoInputs => queue[p] = <<>> /\ saving[p] = NoSave

MadeUnder(x) == \A q \in DOMAIN x.results : x.results[q].inputs = pin

\* What a Pod remembers of the index was the index once.
Remembered ==
  /\ MadeUnder(index) /\ \A p \in Pods : MadeUnder(snapshot[p])
  /\ \A p \in Pods : /\ snapshot[p].etag <= index.etag
                     /\ snapshot[p].etag = index.etag => snapshot[p] = index
  /\ index.etag = 0 => index = NoSnapshot

Inductive == TypeOK /\ Timely /\ OneInput /\ Remembered /\ DroppedIsSaved

-----------------------------------------------------------------------------
(* The policy.                                                             *)

LEMMA TipCommit ==
  ASSUME PolicyTypeOK
  PROVE  /\ commits \in Seq(States) /\ Tip \in Nat \ {0} /\ Tip = Len(commits)
         /\ DOMAIN commits = 1 .. Tip
         /\ \A k \in 1 .. Tip : commits[k] \in States
BY LenProperties, ElementOfSeq, PolicyAssumption DEF PolicyTypeOK, Tip

LEMMA LeaseGranted ==
  ASSUME PolicyTypeOK, block <= blockAt, NEW o \in 0 .. now, NEW r \in 1 .. Tip, Observed(o, r),
         NEW i \in Inputs \cup {NoInputs}, commits[r].open => i = commits[r].inputs
  PROVE  Lease(r, o, i) \in Policies /\ Granted(Lease(r, o, i))
<1> DEFINE l == Lease(r, o, i)
<1> USE PolicyAssumption
<1>1. /\ now \in 0 .. MaxTime /\ blockAt \in 0 .. now /\ block \in 0 .. MaxTime
      /\ Tip \in 1 .. (MaxFaults + 1) /\ commits[r] \in States
  BY TipCommit DEF PolicyTypeOK
<1>2. Earlier(o + Ttl, blockAt + (Deadline - block)) \in 0 .. (MaxTime + Ttl)
      /\ Earlier(o + Ttl, blockAt + (Deadline - block)) <= o + Ttl
      /\ Earlier(o + Ttl, blockAt + (Deadline - block)) <= blockAt + Deadline - block
  BY <1>1 DEF Earlier
<1>3. /\ l.revision = r /\ l.open = commits[r].open /\ l.inputs = i /\ l.observed = o
      /\ l.expires \in 0 .. (MaxTime + Ttl) /\ l.expires <= o + Ttl
      /\ l.open => l.expires <= blockAt + Deadline - block
  BY <1>1, <1>2 DEF Lease
<1>4. l \in Policies
  BY <1>1, <1>2 DEF Lease, Policies, States
<1>5. l.open => Supports(r, l)
  <2>1. r < Tip => commits[r + 1].at >= o /\ commits[r + 1].at \in Nat
    <3>1. r < Tip => r + 1 \in 1 .. Tip
      BY <1>1
    <3>2. \A k \in 1 .. Tip : commits[k].at \in Nat
      BY TipCommit DEF States
    <3> QED BY <3>1, <3>2 DEF Observed
  <2>2. r = Tip \/ r < Tip
    BY <1>1
  <2>3. ~l.open \/ (commits[r].open /\ commits[r].inputs = l.inputs)
    BY <1>3
  <2> HIDE DEF l
  <2> QED BY <1>1, <1>3, <2>1, <2>2, <2>3 DEF Supports
<1>6. Granted(l)
  <2> HIDE DEF l
  <2> QED BY <1>1, <1>3, <1>5 DEF Granted
<1> QED BY <1>4, <1>6

\* What is granted stays granted while time passes, blocks come and commits
\* are made.
LEMMA GrantStands ==
  ASSUME PolicyTypeOK, block <= blockAt, NEW l \in Policies, Granted(l),
         \/ Tick \/ NewBlock \/ Commit
         \/ UNCHANGED <<time, commits>>
  PROVE  Granted(l)'
<1> USE PolicyAssumption
<1>1. /\ now \in Nat /\ block \in Nat /\ blockAt \in 0 .. now
      /\ l.expires \in Nat /\ l.observed \in Nat
  BY DEF PolicyTypeOK, Policies
<1>2. CASE UNCHANGED <<time, commits>>
  BY <1>2 DEF Granted, Supports, Tip, time
<1>3. CASE Tick
  BY <1>1, <1>3 DEF Tick, Granted, Supports, Tip
<1>4. CASE NewBlock
  BY <1>1, <1>4, SMTT(30) DEF NewBlock, Granted, Supports, Tip
<1>5. CASE Commit
  <2>1. PICK o \in BOOLEAN, i \in Inputs : commits' = Append(commits, [open |-> o, inputs |-> i, at |-> now])
    BY <1>5 DEF Commit
  <2> DEFINE c == [open |-> o, inputs |-> i, at |-> now]
  <2>2. c \in States
    BY DEF States, PolicyTypeOK
  <2>3. /\ Len(commits') = Tip + 1 /\ commits'[Tip + 1] = c
        /\ \A k \in 1 .. Tip : commits'[k] = commits[k]
    BY <2>1, <2>2, TipCommit, AppendProperties
  <2>4. UNCHANGED time /\ c.at = now
    BY <1>5 DEF Commit
  <2>5. ASSUME l.open
        PROVE  \E k \in 1 .. Tip' : Supports(k, l)'
    <3>1. PICK k \in 1 .. Tip : Supports(k, l)
      BY <2>5 DEF Granted
    <3>2. k \in 1 .. Tip' /\ Tip' = Tip + 1 /\ k # Tip' /\ Tip \in Nat
      BY <2>3, TipCommit DEF Tip
    <3>3. l.expires <= now + Ttl
      BY <1>1, <2>5 DEF Granted
    <3>4. commits'[k] = commits[k] /\ commits'[k + 1] = IF k = Tip THEN c ELSE commits[k + 1]
      <4>1. k # Tip => k + 1 \in 1 .. Tip
        BY <3>2
      <4> HIDE DEF c
      <4> QED BY <2>3, <3>2, <4>1
    <3> HIDE DEF c
    <3> QED BY <2>4, <3>1, <3>2, <3>3, <3>4 DEF Supports
  <2>6. Granted(l)'
    BY <1>1, <2>4, <2>5 DEF Granted, time
  <2> QED BY <2>6
<1> QED BY <1>2, <1>3, <1>4, <1>5

LEMMA NoPolicyGranted == NoPolicy \in Policies /\ Granted(NoPolicy) /\ Granted(NoPolicy)'
BY PolicyAssumption DEF NoPolicy, Policies, Granted

LEMMA PolicyStep ==
  ASSUME PolicyTypeOK, Timely, inputs \in {pin, NoInputs},
         \A p \in Pods : frozen[p] \in {pin, NoInputs}, PolicyNext
  PROVE  PolicyTypeOK' /\ Timely' /\ UNCHANGED <<pin, frozen>> /\ inputs' \in {pin, NoInputs}
<1> USE PolicyAssumption, TipCommit, NoPolicyGranted
<1>1. /\ now \in 0 .. MaxTime /\ block \in 0 .. MaxTime /\ blockAt \in 0 .. now
      /\ faults \in 0 .. MaxFaults /\ refreshed \in 0 .. now
      /\ pin \in Inputs /\ inputs \in Inputs \cup {NoInputs} /\ policy \in Policies
      /\ frozen \in [Pods -> Inputs \cup {NoInputs}] /\ lease \in [Pods -> Policies]
      /\ commits \in Seq(States) /\ Tip \in 1 .. (faults + 1) /\ block <= blockAt
  BY DEF PolicyTypeOK, Timely
<1>2. Fault => faults' \in 1 .. MaxFaults /\ faults' = faults + 1
  BY <1>1 DEF Fault
<1>3. CASE Tick \/ NewBlock \/ Commit
  <2>1. Granted(policy)' /\ (\A p \in Pods : Granted(lease[p])')
    <3>1. \A l \in Policies : Granted(l) => Granted(l)'
      BY <1>1, <1>3, GrantStands
    <3>2. policy' = policy /\ lease' = lease
      BY <1>3 DEF Tick, NewBlock, Commit, gateway
    <3> QED BY <1>1, <3>1, <3>2, SMTT(30) DEF Timely, Granted, Supports
  <2>2. block' <= blockAt' /\ PolicyTypeOK'
    <3>1. CASE Tick
      BY <1>1, <3>1 DEF Tick, PolicyTypeOK, gateway, Tip
    <3>2. CASE NewBlock
      BY <1>1, <3>2 DEF NewBlock, PolicyTypeOK, gateway, Tip
    <3>3. CASE Commit
      <4>1. PICK o \in BOOLEAN, i \in Inputs :
              commits' = Append(commits, [open |-> o, inputs |-> i, at |-> now])
        BY <3>3 DEF Commit
      <4>2. commits' \in Seq(States) /\ Tip' = Tip + 1
        <5>1. [open |-> o, inputs |-> i, at |-> now] \in States
          BY <1>1 DEF States
        <5> QED BY <1>1, <4>1, <5>1, AppendProperties DEF Tip
      <4> QED BY <1>1, <1>2, <3>3, <4>2 DEF Commit, PolicyTypeOK, gateway, time
    <3> QED BY <1>3, <3>1, <3>2, <3>3
  <2>3. UNCHANGED <<pin, frozen, inputs>>
    BY <1>3 DEF Tick, NewBlock, Commit, gateway
  <2> QED BY <2>1, <2>2, <2>3 DEF Timely
<1>4. ASSUME UNCHANGED <<time, commits, pin, frozen>>,
             policy' \in Policies, Granted(policy'), lease' \in [Pods -> Policies],
             \A p \in Pods : Granted(lease'[p]),
             faults' \in 0 .. MaxFaults, faults' >= faults, refreshed' \in 0 .. now,
             inputs' \in {pin, NoInputs}
      PROVE  PolicyTypeOK' /\ Timely'
  <2>1. PolicyTypeOK'
    BY <1>1, <1>4 DEF PolicyTypeOK, time, Tip
  <2>2. \A l \in Policies : Granted(l) => Granted(l)'
    BY <1>1, <1>4, GrantStands
  <2>3. Timely'
    BY <1>1, <1>4, <2>2 DEF Timely, Granted, Supports, time, Tip
  <2> QED BY <2>1, <2>3
<1>5. CASE Refresh
  <2>1. PICK o \in 0 .. now, r \in 1 .. Tip :
          /\ Observed(o, r) /\ Resolves(r, o) /\ inputs' = InputsFor(r)
          /\ policy' = Lease(r, o, inputs') /\ refreshed' = now
          /\ UNCHANGED <<time, commits, faults, pin, frozen, lease>>
    BY <1>5 DEF Refresh
  <2>2. inputs' = pin
    BY <2>1 DEF InputsFor, Resolves, Pinned
  <2>3. commits[r].open => pin = commits[r].inputs
    BY <2>1 DEF Resolves, Pinned
  <2>4. policy' \in Policies /\ Granted(policy')
    BY <1>1, <2>1, <2>2, <2>3, LeaseGranted
  <2> QED BY <1>1, <1>4, <2>1, <2>2, <2>4 DEF Timely
<1>6. CASE RefreshFails
  <2>1. policy' \in {policy, NoPolicy}
    BY <1>6 DEF RefreshFails
  <2> QED BY <1>1, <1>2, <1>4, <1>6, <2>1 DEF RefreshFails, Timely
<1>7. CASE Restart
  BY <1>1, <1>2, <1>4, <1>7 DEF Restart, Timely
<1>8. ASSUME NEW p \in Pods, Install(p) \/ Withdraw(p)
      PROVE  PolicyTypeOK' /\ Timely' /\ UNCHANGED <<pin, frozen, inputs>>
  <2>1. PICK l \in {policy, NoPolicy} : lease' = [lease EXCEPT ![p] = l]
    BY <1>8 DEF Install, Withdraw
  <2>2. UNCHANGED <<time, commits, gateway, frozen>> /\ (faults' = faults \/ Fault)
    BY <1>8 DEF Install, Withdraw
  <2>3. faults' \in 0 .. MaxFaults /\ faults' >= faults
    BY <1>1, <1>2, <2>2
  <2> QED BY <1>1, <1>4, <2>1, <2>2, <2>3 DEF gateway, Timely
<1> QED BY <1>3, <1>5, <1>6, <1>7, <1>8 DEF PolicyNext

-----------------------------------------------------------------------------
(* The batch and its submissions.                                          *)

BatchOK ==
  /\ attempt \in 1 .. Attempts /\ remaining \subseteq Prompts /\ todo \subseteq remaining
  /\ \E D \in SUBSET (remaining \ todo) : waiting \in [D -> 1 .. MaxSubmits]
  /\ submits \in 0 .. MaxSubmits

SavingOK ==
  /\ saving \in [Pods -> Saves \cup {NoSave}]
  /\ \A p \in Pods : saving[p].step \in {"load", "save"} => saving[p].kind \in Kinds

\* A prompt is dropped by the reply to a saved result only, and not while it
\* is still to be done.
LEMMA ReplyDrops ==
  ASSUME BatchOK, SavingOK, NEW p \in Pods, NEW r,
         NEW saved \in BOOLEAN, Reply(p, r, saved)
  PROVE  /\ BatchOK' /\ SavingOK' /\ saving' = [saving EXCEPT ![p] = NoSave]
         /\ \/ remaining' = remaining
            \/ /\ saved
               /\ remaining' = remaining \ {r.prompt}
<1> DEFINE q == r.prompt
<1> DEFINE heard == q \in DOMAIN waiting /\ waiting[q] = r.n
<1> DEFINE left == DOMAIN waiting \ (IF heard THEN {q} ELSE {})
<1>1. /\ saving' = [saving EXCEPT ![p] = NoSave]
      /\ waiting' = [w \in left |-> waiting[w]]
      /\ remaining' = remaining \ (IF heard /\ saved THEN {q} ELSE {})
      /\ UNCHANGED <<attempt, todo, submits>>
  BY DEF Reply, Accepted
<1>2. PICK D \in SUBSET (remaining \ todo) : waiting \in [D -> 1 .. MaxSubmits]
  BY DEF BatchOK
<1>3. left \in SUBSET (remaining' \ todo')
  BY <1>1, <1>2
<1>4. waiting' \in [left -> 1 .. MaxSubmits]
  <2> HIDE DEF heard
  <2> QED BY <1>1, <1>2
<1>5. todo' \subseteq remaining' /\ remaining' \subseteq Prompts
  BY <1>1, <1>2 DEF BatchOK
<1>6. BatchOK'
  <2>1. \E E \in SUBSET (remaining' \ todo') : waiting' \in [E -> 1 .. MaxSubmits]
    <3> HIDE DEF left
    <3> QED BY <1>3, <1>4
  <2>2. UNCHANGED <<attempt, submits>>
    BY <1>1
  <2> QED BY <1>5, <2>1, <2>2 DEF BatchOK
<1>7. SavingOK'
  BY <1>1 DEF SavingOK, NoSave
<1> QED BY <1>1, <1>6, <1>7

LEMMA Wider ==
  ASSUME NEW m \in Nat, NEW n \in Nat, m <= n, NEW x \in 1 .. (m + 1)
  PROVE  x \in 1 .. (n + 1)
OBVIOUS

LEMMA OnlyFaults ==
  ASSUME PolicyTypeOK, UNCHANGED <<time, commits, gateway, frozen, lease>>,
         faults' \in 0 .. MaxFaults, faults' >= faults
  PROVE  PolicyTypeOK'
<1>1. Tip \in 1 .. (faults' + 1)
  <2>1. faults \in Nat /\ faults' \in Nat /\ faults <= faults' /\ Tip \in 1 .. (faults + 1)
    BY PolicyAssumption DEF PolicyTypeOK
  <2> QED BY <2>1, Wider
<1> QED BY <1>1 DEF PolicyTypeOK, time, gateway, Tip

LEMMA EmptyIndex == IsIndex(NoSnapshot) /\ MadeUnder(NoSnapshot) /\ DOMAIN NoSnapshot.results = {}
<1>1. <<>> \in [{} -> Results] /\ DOMAIN <<>> = {}
  <2>1. <<>> = [x \in {} |-> x]
    OBVIOUS
  <2> QED BY <2>1
<1>2. NoSnapshot = [etag |-> 0, results |-> <<>>]
  BY DEF NoSnapshot
<1>3. \E D \in SUBSET Prompts : NoSnapshot \in [etag : Nat, results : [D -> Results]]
  <2>1. {} \in SUBSET Prompts
    OBVIOUS
  <2>2. NoSnapshot \in [etag : Nat, results : [{} -> Results]]
    BY <1>1, <1>2
  <2> QED BY <2>1, <2>2
<1> QED BY <1>1, <1>2, <1>3 DEF IsIndex, MadeUnder

\* A step of the batch or of the requests that leaves policy and index alone.
LEMMA Aside ==
  ASSUME Inductive,
         UNCHANGED <<time, commits, gateway, frozen, lease, index>>,
         faults' \in 0 .. MaxFaults, faults' >= faults,
         selected' \in Pods, gone' \subseteq Pods,
         queue' \in [Pods -> Seq(Requests)], SavingOK',
         \A p \in Pods : frozen[p] = NoInputs => queue'[p] = <<>> /\ saving'[p] = NoSave,
         DOMAIN snapshot' = Pods,
         \A p \in Pods : snapshot'[p] \in {snapshot[p], index, NoSnapshot},
         BatchOK', Prompts \ remaining' \subseteq Saved
  PROVE  Inductive'
<1> USE PolicyAssumption, SubmissionsAssumption
<1>1. PolicyTypeOK'
  <2>1. PolicyTypeOK /\ UNCHANGED <<time, commits, gateway, frozen, lease>>
    BY DEF Inductive, TypeOK
  <2> QED BY <2>1, OnlyFaults
<1>2. TypeOK'
  <2>1. \A p \in Pods : IsIndex(snapshot'[p])
    BY EmptyIndex DEF Inductive, TypeOK
  <2>2. IsIndex(index')
    BY DEF Inductive, TypeOK
  <2> QED BY <1>1, <2>1, <2>2 DEF BatchOK, SavingOK, TypeOK
<1>3. Timely'
  BY DEF Inductive, Timely, Granted, Supports, time, gateway, Tip
<1>4. OneInput'
  BY DEF Inductive, OneInput, gateway
<1>5. Remembered'
  <2>1. NoSnapshot.etag = 0 /\ DOMAIN NoSnapshot.results = {}
    BY DEF NoSnapshot
  <2>2. pin' = pin /\ index' = index
    BY DEF gateway
  <2>3. index.etag \in Nat
    BY DEF Inductive, TypeOK, IsIndex
  <2>4. ASSUME NEW p \in Pods
        PROVE  /\ MadeUnder(snapshot'[p]) /\ snapshot'[p].etag <= index.etag
               /\ snapshot'[p].etag = index.etag => snapshot'[p] = index
    <3>1. CASE snapshot'[p] = snapshot[p]
      BY <3>1, Zenon DEF Inductive, Remembered
    <3>2. CASE snapshot'[p] = index
      BY <2>3, <3>2 DEF Inductive, Remembered
    <3>3. CASE snapshot'[p] = NoSnapshot
      <4>1. MadeUnder(NoSnapshot)
        BY <2>1, Zenon DEF MadeUnder
      <4>2. 0 <= index.etag /\ (index.etag = 0 => index = NoSnapshot)
        BY <2>3 DEF Inductive, Remembered
      <4> QED BY <2>1, <3>3, <4>1, <4>2
    <3> QED BY <3>1, <3>2, <3>3
  <2>5. MadeUnder(index)
    BY DEF Inductive, Remembered
  <2>6. index.etag = 0 => index = NoSnapshot
    BY DEF Inductive, Remembered
  <2> QED BY <2>2, <2>4, <2>5, <2>6, Zenon DEF Remembered, MadeUnder
<1>6. DroppedIsSaved'
  BY DEF DroppedIsSaved, Saved
<1> QED BY <1>2, <1>3, <1>4, <1>5, <1>6 DEF Inductive

\* The index with a new result in it, written over the index it was made from.
LEMMA AddedIsIndex ==
  ASSUME Inductive, NEW p \in Pods, At(p, "save"), Unchanged(p)
  PROVE  /\ IsIndex(Added(p)) /\ MadeUnder(Added(p)) /\ Added(p).etag = index.etag + 1
         /\ DOMAIN Added(p).results = Saved \cup {saving[p].prompt}
<1> DEFINE q == saving[p].prompt
<1> DEFINE r == [source |-> saving[p].source, kind |-> saving[p].kind, inputs |-> frozen[p]]
<1> DEFINE D == Saved \cup {q}
<1>1. snapshot[p] = index
  BY DEF Inductive, Remembered, Unchanged
<1>2. saving[p] \in Saves /\ saving[p].kind \in Kinds
  <2>1. saving[p] \in Saves \cup {NoSave} /\ saving[p].step = "save"
    BY DEF Inductive, TypeOK, At
  <2>2. NoSave.step # "save"
    BY DEF NoSave
  <2> QED BY <2>1, <2>2 DEF Inductive, TypeOK
<1>3. frozen[p] = pin /\ pin \in Inputs
  <2>1. saving[p] # NoSave
    BY DEF At, NoSave
  <2> QED BY <2>1 DEF Inductive, OneInput, TypeOK, PolicyTypeOK
<1>4. r \in Results /\ r.inputs = pin
  BY <1>2, <1>3 DEF Results, Saves
<1>5. PICK E \in SUBSET Prompts : index \in [etag : Nat, results : [E -> Results]]
  BY DEF Inductive, TypeOK, IsIndex
<1>6. E = Saved /\ index.etag \in Nat /\ index.results \in [E -> Results] /\ q \in Prompts
  BY <1>2, <1>5 DEF Saved, Saves
<1>7. Added(p) = [etag |-> index.etag + 1,
                  results |-> [w \in D |-> IF w = q THEN r ELSE index.results[w]]]
  BY <1>1 DEF Added, Saved
<1> HIDE DEF r, q
<1>8. [w \in D |-> IF w = q THEN r ELSE index.results[w]] \in [D -> Results]
  BY <1>4, <1>6
<1>9. \A w \in D : (IF w = q THEN r ELSE index.results[w]).inputs = pin
  BY <1>4 DEF Inductive, Remembered, MadeUnder, Saved
<1>10. D \in SUBSET Prompts
  BY <1>6
<1> HIDE DEF D
<1>11. Added(p) \in [etag : Nat, results : [D -> Results]]
  BY <1>6, <1>7, <1>8
<1>12. IsIndex(Added(p))
  BY <1>10, <1>11 DEF IsIndex
<1>13. Added(p).etag = index.etag + 1 /\ DOMAIN Added(p).results = D
  BY <1>7
<1>14. MadeUnder(Added(p))
  BY <1>7, <1>9, <1>13 DEF MadeUnder
<1> QED BY <1>12, <1>13, <1>14 DEF D, q

LEMMA Written ==
  ASSUME Inductive, NEW p \in Pods, At(p, "save"), Unchanged(p), index' = Added(p),
         snapshot' \in {snapshot, [snapshot EXCEPT ![p] = Added(p)]},
         UNCHANGED <<time, commits, gateway, frozen, lease, pods, queue>>,
         faults' \in 0 .. MaxFaults, faults' >= faults,
         SavingOK', saving' = [saving EXCEPT ![p] = NoSave],
         BatchOK', remaining' \in {remaining, remaining \ {saving[p].prompt}}
  PROVE  Inductive'
<1>1. /\ IsIndex(index') /\ MadeUnder(index') /\ index'.etag = index.etag + 1
      /\ DOMAIN index'.results = Saved \cup {saving[p].prompt}
  BY AddedIsIndex
<1>2. index.etag \in Nat
  BY DEF Inductive, TypeOK, IsIndex
<1>3. PolicyTypeOK'
  BY OnlyFaults DEF Inductive, TypeOK
<1>4. DOMAIN snapshot' = Pods
      /\ \A k \in Pods : snapshot'[k] = snapshot[k] \/ snapshot'[k] = index'
  BY DEF Inductive, TypeOK
<1>5. \A k \in Pods : IsIndex(snapshot'[k])
  <2>1. \A k \in Pods : IsIndex(snapshot[k])
    BY DEF Inductive, TypeOK
  <2> QED BY <1>1, <1>4, <2>1, Zenon
<1>6. TypeOK'
  BY <1>1, <1>3, <1>4, <1>5 DEF Inductive, TypeOK, BatchOK, SavingOK, pods
<1>7. Timely'
  BY DEF Inductive, Timely, Granted, Supports, time, gateway, Tip
<1>8. OneInput'
  BY DEF Inductive, OneInput, gateway, TypeOK
<1>9. Remembered'
  <2>1. pin' = pin /\ index'.etag # 0
    BY <1>1, <1>2 DEF gateway
  <2>2. ASSUME NEW k \in Pods
        PROVE  /\ MadeUnder(snapshot'[k]) /\ snapshot'[k].etag <= index'.etag
               /\ snapshot'[k].etag = index'.etag => snapshot'[k] = index'
    <3>1. CASE snapshot'[k] = snapshot[k]
      <4>1. snapshot[k].etag \in Nat
        BY DEF Inductive, TypeOK, IsIndex
      <4>2. MadeUnder(snapshot[k]) /\ snapshot[k].etag <= index.etag
        BY DEF Inductive, Remembered
      <4>3. snapshot[k].etag < index'.etag
        BY <1>1, <1>2, <4>1, <4>2
      <4> QED BY <1>1, <1>2, <3>1, <4>1, <4>2, <4>3
    <3>2. CASE snapshot'[k] = index'
      BY <1>1, <1>2, <3>2
    <3> QED BY <1>4, <3>1, <3>2
  <2> QED BY <1>1, <2>1, <2>2, Zenon DEF Remembered, MadeUnder
<1>10. DroppedIsSaved'
  BY <1>1 DEF Inductive, DroppedIsSaved, Saved
<1> QED BY <1>6, <1>7, <1>8, <1>9, <1>10 DEF Inductive

-----------------------------------------------------------------------------
(* The steps.                                                              *)

\* What the steps below start from.
LEMMA Facts ==
  ASSUME Inductive
  PROVE  /\ BatchOK /\ SavingOK /\ PolicyTypeOK /\ DroppedIsSaved
         /\ selected \in Pods /\ gone \subseteq Pods /\ queue \in [Pods -> Seq(Requests)]
         /\ \A p \in Pods : frozen[p] = NoInputs => queue[p] = <<>> /\ saving[p] = NoSave
         /\ DOMAIN snapshot = Pods /\ faults \in 0 .. MaxFaults
         /\ Fault => faults' \in 0 .. MaxFaults /\ faults' >= faults
<1>1. MaxFaults \in Nat /\ faults \in 0 .. MaxFaults
  BY PolicyAssumption DEF Inductive, TypeOK, PolicyTypeOK
<1>2. Fault => faults' \in 0 .. MaxFaults /\ faults' >= faults
  BY <1>1 DEF Fault
<1>3. BatchOK /\ SavingOK
  BY Zenon DEF Inductive, TypeOK, BatchOK, SavingOK
<1> QED BY <1>1, <1>2, <1>3, Zenon DEF Inductive, TypeOK, OneInput

\* A step of one Pod's save, with the batch's part in it.
LEMMA SaveAside ==
  ASSUME Inductive, NEW p \in Pods,
         UNCHANGED <<time, commits, gateway, frozen, lease, index, pods>>,
         faults' \in 0 .. MaxFaults, faults' >= faults, frozen[p] # NoInputs,
         NEW s, saving' = [saving EXCEPT ![p] = s], SavingOK',
         NEW t \in Seq(Requests), queue' = [queue EXCEPT ![p] = t],
         DOMAIN snapshot' = Pods,
         \A k \in Pods : snapshot'[k] \in {snapshot[k], index, NoSnapshot},
         BatchOK', Prompts \ remaining' \subseteq Saved
  PROVE  Inductive'
<1>1. queue' \in [Pods -> Seq(Requests)]
  BY Facts
<1>2. \A k \in Pods : frozen[k] = NoInputs => queue'[k] = <<>> /\ saving'[k] = NoSave
  BY Facts DEF SavingOK
<1>3. selected' \in Pods /\ gone' \subseteq Pods
  BY Facts DEF pods
<1> QED BY <1>1, <1>2, <1>3, Aside

\* A save that goes on.
LEMMA GotoStep ==
  ASSUME Inductive, NEW p \in Pods, ~At(p, "none"), NEW kind, NEW step, Goto(p, step, kind),
         kind \in Kinds \/ (kind = "none" /\ step \in {"render", "embed"}),
         step \in {"render", "embed", "load", "save"}
  PROVE  /\ saving' = [saving EXCEPT ![p] = [saving[p] EXCEPT !.step = step, !.kind = kind]]
         /\ SavingOK' /\ BatchOK' /\ remaining' = remaining
<1>1. saving[p] \in Saves
  BY Facts DEF SavingOK, At, NoSave
<1>2. saving' = [saving EXCEPT ![p] = [saving[p] EXCEPT !.step = step, !.kind = kind]]
  BY Facts DEF Goto, SavingOK
<1> DEFINE s == [saving[p] EXCEPT !.step = step, !.kind = kind]
<1>3. s \in Saves /\ s.step = step /\ s.kind = kind
  BY <1>1 DEF Saves
<1> HIDE DEF s
<1>4. SavingOK'
  <2>1. step \in {"load", "save"} => kind \in Kinds
    OBVIOUS
  <2> QED BY <1>2, <1>3, <2>1, Facts DEF SavingOK, s
<1>5. UNCHANGED <<attempt, remaining, todo, submits, waiting>>
  BY DEF Goto, batch
<1> QED BY <1>2, <1>4, <1>5, Facts DEF BatchOK, s

LEMMA QueueStep ==
  ASSUME Inductive, NEW p \in Pods, queue[p] # <<>>
  PROVE  /\ Head(queue[p]) \in Requests /\ Tail(queue[p]) \in Seq(Requests)
         /\ frozen[p] # NoInputs
BY Facts, HeadTailProperties

LEMMA LookStep ==
  ASSUME Inductive, NEW p \in Pods, Look(p)
  PROVE  Inductive' /\ index' = index
<1> DEFINE r == Head(queue[p])
<1> DEFINE s == [prompt |-> r.prompt, source |-> r.source, n |-> r.n, step |-> "admit",
                 kind |-> "none"]
<1>1. /\ r \in Requests /\ Tail(queue[p]) \in Seq(Requests) /\ frozen[p] # NoInputs
      /\ queue' = [queue EXCEPT ![p] = Tail(@)] /\ UNCHANGED <<policyVars, pods, index, snapshot>>
  BY QueueStep DEF Look
<1> HIDE DEF r
<1>2. /\ UNCHANGED <<time, commits, gateway, frozen, lease, index, pods, faults>>
      /\ snapshot' = snapshot /\ queue' = [queue EXCEPT ![p] = Tail(queue[p])]
  BY <1>1, Facts DEF policyVars
<1>3. \E t : saving' = [saving EXCEPT ![p] = t]
  BY DEF Look, Reply
<1>4. SavingOK' /\ BatchOK' /\ Prompts \ remaining' \subseteq Saved
  <2>1. CASE r.prompt \in Saved /\ Reply(p, r, SameOutput(r))
    <3>1. SameOutput(r) \in BOOLEAN
      BY DEF SameOutput
    <3>2. BatchOK' /\ SavingOK' /\ (remaining' = remaining \/ remaining' = remaining \ {r.prompt})
      BY <2>1, <3>1, Facts, ReplyDrops
    <3> QED BY <2>1, <3>2, Facts DEF DroppedIsSaved
  <2>2. CASE saving' = [saving EXCEPT ![p] = s] /\ UNCHANGED <<batch, waiting>>
    <3>1. s \in Saves /\ s.step = "admit"
      BY <1>1 DEF Requests, Saves, Kinds
    <3>2. SavingOK'
      <4> HIDE DEF s
      <4> QED BY <2>2, <3>1, Facts DEF SavingOK
    <3>3. BatchOK' /\ remaining' = remaining
      BY <2>2, Facts DEF BatchOK, batch
    <3> QED BY <3>2, <3>3, Facts DEF DroppedIsSaved
  <2> QED BY <2>1, <2>2 DEF Look, r
<1>5. PICK t : saving' = [saving EXCEPT ![p] = t]
  BY <1>3
<1>6. DOMAIN snapshot' = Pods /\ \A k \in Pods : snapshot'[k] \in {snapshot[k], index, NoSnapshot}
  BY <1>2, Facts
<1>7. faults' \in 0 .. MaxFaults /\ faults' >= faults
  BY <1>2, Facts, PolicyAssumption
<1>8. Inductive'
  BY <1>1, <1>2, <1>4, <1>5, <1>6, <1>7, SaveAside
<1> QED BY <1>2, <1>8

LEMMA SaveGoesOn ==
  ASSUME Inductive, NEW p \in Pods,
         Admit(p) \/ Render(p) \/ Embed(p) \/ Load(p)
  PROVE  Inductive' /\ index' = index
<1>1. /\ ~At(p, "none") /\ saving[p] # NoSave /\ frozen[p] # NoInputs
      /\ UNCHANGED <<time, commits, gateway, frozen, lease, faults, index, pods, queue>>
  <2>1. ~At(p, "none")
    BY DEF Admit, Render, Embed, Load, At
  <2>2. saving[p] # NoSave
    BY <2>1 DEF At, NoSave
  <2> QED BY <2>1, <2>2, Facts DEF Admit, Render, Embed, Load, policyVars
<1>2. DOMAIN snapshot' = Pods /\ \A k \in Pods : snapshot'[k] \in {snapshot[k], index, NoSnapshot}
  BY Facts DEF Admit, Render, Embed, Load
<1> DEFINE Goes == /\ SavingOK' /\ BatchOK' /\ remaining' = remaining
                   /\ \E t : saving' = [saving EXCEPT ![p] = t]
<1>3. Goes
  <2>1. Reply(p, saving[p], FALSE) => Goes
    BY Facts, ReplyDrops
  <2>2. Goto(p, "render", "none") \/ Goto(p, "embed", "none") => Goes
    BY <1>1, GotoStep
  <2>3. ASSUME NEW kind \in Kinds, NEW step \in {"load", "save"}, Goto(p, step, kind) PROVE Goes
    BY <1>1, <2>3, GotoStep
  <2>4. {"generation_failed", "render_rejected", "views"} = Kinds
    BY DEF Kinds
  <2>5. saving[p].step = "load" => saving[p].kind \in Kinds
    BY Facts DEF SavingOK
  <2> HIDE DEF Goes
  <2>6. CASE Admit(p)
    BY <2>1, <2>2, <2>3, <2>4, <2>6 DEF Admit
  <2>7. CASE Render(p)
    <3>1. PICK o \in Outcomes : CASE o = "views" -> Goto(p, "embed", "none")
                                  [] o = "render_rejected" -> Goto(p, "load", o)
                                  [] o = "error" -> Reply(p, saving[p], FALSE)
      BY <2>7 DEF Render
    <3> QED BY <2>1, <2>2, <2>3, <2>4, <3>1 DEF Outcomes
  <2>8. CASE Embed(p)
    BY <2>1, <2>3, <2>4, <2>8 DEF Embed
  <2>9. CASE Load(p)
    BY <2>3, <2>5, <2>9 DEF Load, At
  <2> QED BY <2>6, <2>7, <2>8, <2>9
<1>4. queue' = [queue EXCEPT ![p] = queue[p]] /\ queue[p] \in Seq(Requests)
  BY <1>1, Facts
<1>5. Prompts \ remaining' \subseteq Saved
  BY <1>3, Facts DEF DroppedIsSaved
<1>6. PICK t : saving' = [saving EXCEPT ![p] = t]
  BY <1>3
<1>7. faults' \in 0 .. MaxFaults /\ faults' >= faults
  BY <1>1, Facts, PolicyAssumption
<1>8. Inductive'
  BY <1>1, <1>2, <1>3, <1>4, <1>5, <1>6, <1>7, SaveAside
<1> QED BY <1>1, <1>8

\* A write over the index that it was made from, with its result.
Writes(p) == At(p, "save") /\ Unchanged(p) /\ index' = Added(p)

LEMMA SaveStep ==
  ASSUME Inductive, NEW p \in Pods, Save(p) \/ SaveFails(p)
  PROVE  Inductive' /\ (index' = index \/ Writes(p))
<1>1. /\ saving[p] # NoSave /\ frozen[p] # NoInputs /\ At(p, "save")
      /\ UNCHANGED <<time, commits, gateway, frozen, lease, pods, queue>>
      /\ faults' \in 0 .. MaxFaults /\ faults' >= faults
  <2>1. At(p, "save") /\ saving[p] # NoSave
    <3>1. At(p, "save")
      BY Zenon DEF Save, SaveFails
    <3> QED BY <3>1 DEF At, NoSave
  <2>2. faults' = faults \/ Fault
    BY DEF Save, SaveFails, policyVars
  <2>3. faults' \in 0 .. MaxFaults /\ faults' >= faults
    BY <2>2, Facts, PolicyAssumption
  <2> QED BY <2>1, <2>3, Facts DEF Save, SaveFails, policyVars, quiet
<1>2. CASE Save(p) /\ ~Unchanged(p)
  <2>1. /\ snapshot' = [snapshot EXCEPT ![p] = index]
        /\ UNCHANGED <<index, saving, batch, waiting>>
    BY <1>2 DEF Save
  <2>2. saving' = [saving EXCEPT ![p] = saving[p]] /\ queue' = [queue EXCEPT ![p] = queue[p]]
        /\ queue[p] \in Seq(Requests)
    BY <1>1, <2>1, Facts DEF SavingOK
  <2>3. SavingOK' /\ BatchOK' /\ Prompts \ remaining' \subseteq Saved
    BY <2>1, Facts DEF SavingOK, BatchOK, DroppedIsSaved, batch
  <2>4. DOMAIN snapshot' = Pods /\ \A k \in Pods : snapshot'[k] \in {snapshot[k], index, NoSnapshot}
    BY <2>1, Facts
  <2>5. Inductive'
    BY <1>1, <2>1, <2>2, <2>3, <2>4, SaveAside
  <2> QED BY <2>1, <2>5
<1>3. CASE Save(p) /\ Unchanged(p)
  <2>1. /\ index' = Added(p) /\ snapshot' = [snapshot EXCEPT ![p] = Added(p)]
        /\ Reply(p, saving[p], saving[p].kind # "render_rejected")
    BY <1>3 DEF Save
  <2>2. /\ SavingOK' /\ BatchOK' /\ saving' = [saving EXCEPT ![p] = NoSave]
        /\ remaining' \in {remaining, remaining \ {saving[p].prompt}}
    <3>1. (saving[p].kind # "render_rejected") \in BOOLEAN
      OBVIOUS
    <3> QED BY <2>1, <3>1, Facts, ReplyDrops
  <2>3. Inductive'
    BY <1>1, <1>3, <2>1, <2>2, Written
  <2> QED BY <1>1, <1>3, <2>1, <2>3 DEF Writes
<1>4. CASE SaveFails(p)
  <2>1. /\ SavingOK' /\ BatchOK' /\ saving' = [saving EXCEPT ![p] = NoSave] /\ remaining' = remaining
        /\ snapshot' = snapshot
    <3>1. Reply(p, saving[p], FALSE) /\ snapshot' = snapshot
      BY <1>4 DEF SaveFails
    <3> QED BY <3>1, Facts, ReplyDrops
  <2>2. CASE index' = index
    <3>1. queue' = [queue EXCEPT ![p] = queue[p]] /\ queue[p] \in Seq(Requests)
      BY <1>1, Facts
    <3>2. Prompts \ remaining' \subseteq Saved
      BY <2>1, Facts DEF DroppedIsSaved
    <3>3. DOMAIN snapshot' = Pods /\ \A k \in Pods : snapshot'[k] \in {snapshot[k], index, NoSnapshot}
      BY <2>1, Facts
    <3>4. Inductive'
      BY <1>1, <2>1, <2>2, <3>1, <3>2, <3>3, SaveAside
    <3> QED BY <2>2, <3>4
  <2>3. CASE Unchanged(p) /\ index' = Added(p)
    <3>1. Inductive'
      BY <1>1, <2>1, <2>3, Written
    <3> QED BY <1>1, <2>3, <3>1 DEF Writes
  <2> QED BY <1>4, <2>2, <2>3 DEF SaveFails
<1> QED BY <1>2, <1>3, <1>4

\* The batch leaves the Pods' saves alone.
LEMMA BatchStep ==
  ASSUME Inductive, Batch
  PROVE  Inductive' /\ index' = index
<1> USE SubmissionsAssumption
<1>1. ASSUME UNCHANGED <<time, commits, gateway, frozen, lease, pods, index, snapshot, saving>>,
             faults' = faults \/ Fault,
             \/ queue' = queue
             \/ \E p \in Pods, r \in Requests : /\ frozen[p] # NoInputs
                                              /\ queue' = [queue EXCEPT ![p] = Append(@, r)],
             BatchOK', Prompts \ remaining' \subseteq Saved
      PROVE  Inductive' /\ index' = index
  <2>1. faults' \in 0 .. MaxFaults /\ faults' >= faults
    BY <1>1, Facts, PolicyAssumption
  <2>2. queue' \in [Pods -> Seq(Requests)]
    <3>1. ASSUME NEW p \in Pods, NEW r \in Requests PROVE Append(queue[p], r) \in Seq(Requests)
      BY Facts, AppendProperties
    <3> QED BY <1>1, <3>1, Facts
  <2>3. \A p \in Pods : frozen[p] = NoInputs => queue'[p] = <<>> /\ saving'[p] = NoSave
    BY <1>1, Facts
  <2>4. selected' \in Pods /\ gone' \subseteq Pods /\ SavingOK'
    BY <1>1, Facts DEF pods, SavingOK
  <2>5. DOMAIN snapshot' = Pods /\ \A p \in Pods : snapshot'[p] \in {snapshot[p], index, NoSnapshot}
    BY <1>1, Facts
  <2> QED BY <1>1, <2>1, <2>2, <2>3, <2>4, <2>5, Aside
<1>2. PICK D \in SUBSET (remaining \ todo) : waiting \in [D -> 1 .. MaxSubmits]
  BY Facts DEF BatchOK
<1>3. /\ attempt \in 1 .. Attempts /\ remaining \subseteq Prompts /\ todo \subseteq remaining
      /\ submits \in 0 .. MaxSubmits /\ Prompts \ remaining \subseteq Saved
  BY Facts DEF BatchOK, DroppedIsSaved
<1>4. CASE NextPass
  <2>1. waiting' = waiting /\ D = {} /\ submits' = submits
    BY <1>2, <1>4 DEF NextPass, Idle
  <2>2. attempt' \in 1 .. Attempts
    BY <1>3, <1>4 DEF NextPass, Over
  <2>3. /\ remaining' \subseteq Prompts /\ todo' \subseteq remaining'
        /\ Prompts \ remaining' \subseteq Saved
    BY <1>3, <1>4 DEF NextPass, Lookup, Idle
  <2>4. BatchOK'
    BY <1>2, <1>3, <2>1, <2>2, <2>3 DEF BatchOK
  <2>5. faults' = faults \/ Fault
    BY <1>4 DEF NextPass, Lookup
  <2> QED BY <1>1, <1>4, <2>3, <2>4, <2>5 DEF NextPass, quiet
<1>5. ASSUME NEW q \in Prompts, NEW p \in Pods, Submit(q, p)
      PROVE  Inductive' /\ index' = index
  <2>1. /\ q \in todo /\ todo' = todo \ {q} /\ submits' = submits + 1 /\ submits < MaxSubmits
        /\ UNCHANGED <<policyVars, pods, index, snapshot, saving, attempt, remaining>>
        /\ frozen[p] # NoInputs
    BY <1>5 DEF Submit, Runs
  <2>2. submits' \in 1 .. MaxSubmits
    BY <1>3, <2>1
  <2>3. CASE UNCHANGED <<queue, waiting>>
    <3>1. BatchOK'
      BY <1>2, <1>3, <2>1, <2>2, <2>3 DEF BatchOK
    <3> QED BY <1>1, <1>3, <2>1, <2>3, <3>1 DEF policyVars
  <2>4. ASSUME NEW s \in {NoSource, attempt},
               queue' = [queue EXCEPT ![p] = Append(@, [prompt |-> q, source |-> s, n |-> submits + 1])],
               waiting' = [w \in DOMAIN waiting \cup {q} |-> IF w = q THEN submits + 1 ELSE waiting[w]]
        PROVE  Inductive' /\ index' = index
    <3>1. [prompt |-> q, source |-> s, n |-> submits + 1] \in Requests
      BY <1>3, <2>1, <2>2 DEF Requests, Sources, NoSource
    <3>2. waiting' \in [D \cup {q} -> 1 .. MaxSubmits]
      BY <1>2, <2>1, <2>2, <2>4
    <3>3. D \cup {q} \in SUBSET (remaining' \ todo')
      BY <1>3, <2>1
    <3>4. BatchOK'
      BY <1>3, <2>1, <2>2, <3>2, <3>3 DEF BatchOK
    <3> QED BY <1>1, <1>3, <2>1, <2>4, <3>1, <3>4 DEF policyVars
  <2> QED BY <1>5, <2>3, <2>4 DEF Submit
<1>6. ASSUME NEW q \in Prompts, GenerateFails(q) \/ LoseReply(q)
      PROVE  Inductive' /\ index' = index
  <2>1. /\ UNCHANGED <<time, commits, gateway, frozen, lease, pods, index, snapshot, saving, queue>>
        /\ Fault /\ remaining' = remaining /\ attempt' = attempt /\ submits' = submits
        /\ todo' \subseteq todo
    BY <1>6 DEF GenerateFails, LoseReply, quiet, batch
  <2>2. \E E \in SUBSET D : waiting' \in [E -> 1 .. MaxSubmits]
    <3>1. CASE GenerateFails(q)
      BY <1>2, <3>1 DEF GenerateFails
    <3>2. CASE LoseReply(q)
      <4>1. waiting' \in [D \ {q} -> 1 .. MaxSubmits]
        BY <1>2, <3>2 DEF LoseReply
      <4> QED BY <4>1
    <3> QED BY <1>6, <3>1, <3>2
  <2>3. BatchOK'
    BY <1>3, <2>1, <2>2 DEF BatchOK
  <2> QED BY <1>1, <1>3, <2>1, <2>3
<1> QED BY <1>4, <1>5, <1>6 DEF Batch

LEMMA CrashStep ==
  ASSUME Inductive, NEW p \in Pods, Crash(p)
  PROVE  Inductive' /\ index' = index
<1> DEFINE lost == {saving[p].n} \cup {queue[p][i].n : i \in DOMAIN queue[p]}
<1> DEFINE left == {w \in DOMAIN waiting : waiting[w] \notin lost}
<1>1. /\ UNCHANGED <<time, commits, gateway, frozen, lease, index, selected, batch>>
      /\ Fault /\ gone' = gone \cup {p}
      /\ queue' = [queue EXCEPT ![p] = <<>>] /\ saving' = [saving EXCEPT ![p] = NoSave]
      /\ snapshot' = [snapshot EXCEPT ![p] = NoSnapshot]
      /\ waiting' = [q \in left |-> waiting[q]]
  BY DEF Crash, quiet
<1>2. BatchOK' /\ remaining' = remaining
  <2>1. PICK D \in SUBSET (remaining \ todo) : waiting \in [D -> 1 .. MaxSubmits]
    BY Facts DEF BatchOK
  <2> HIDE DEF lost
  <2>2. left \in SUBSET (remaining \ todo) /\ waiting' \in [left -> 1 .. MaxSubmits]
    BY <1>1, <2>1
  <2> HIDE DEF left
  <2> QED BY <1>1, <2>2, Facts DEF BatchOK, batch
<1>3. SavingOK' /\ queue' \in [Pods -> Seq(Requests)]
  <2>1. NoSave.step = "none" /\ <<>> \in Seq(Requests)
    BY DEF NoSave
  <2> QED BY <1>1, <2>1, Facts DEF SavingOK
<1>4. \A k \in Pods : frozen[k] = NoInputs => queue'[k] = <<>> /\ saving'[k] = NoSave
  BY <1>1, Facts DEF SavingOK
<1>5. DOMAIN snapshot' = Pods /\ \A k \in Pods : snapshot'[k] \in {snapshot[k], index, NoSnapshot}
  BY <1>1, Facts
<1>6. faults' \in 0 .. MaxFaults /\ faults' >= faults /\ selected' \in Pods /\ gone' \subseteq Pods
  BY <1>1, Facts
<1>7. Prompts \ remaining' \subseteq Saved
  BY <1>2, Facts DEF DroppedIsSaved
<1>8. Inductive'
  BY <1>1, <1>2, <1>3, <1>4, <1>5, <1>6, <1>7, Aside
<1> QED BY <1>1, <1>8

LEMMA ReplaceStep ==
  ASSUME Inductive, Replace
  PROVE  Inductive' /\ index' = index
<1>1. PICK p \in Pods : frozen' = [frozen EXCEPT ![p] = inputs] /\ selected' = p
  BY DEF Replace
<1>2. /\ UNCHANGED <<time, commits, faults, gateway, lease, gone, index, snapshot, queue, saving,
                     batch, waiting>>
      /\ inputs # NoInputs
  BY DEF Replace, MayCreate
<1>3. inputs = pin
  BY <1>2 DEF Inductive, OneInput
<1>4. frozen \in [Pods -> Inputs \cup {NoInputs}] /\ inputs \in Inputs
  BY <1>2, Facts DEF PolicyTypeOK
<1>5. frozen' \in [Pods -> Inputs \cup {NoInputs}]
      /\ \A k \in Pods : frozen'[k] = frozen[k] \/ frozen'[k] = pin
  BY <1>1, <1>3, <1>4
<1>6. PolicyTypeOK'
  BY <1>2, <1>5, Facts DEF PolicyTypeOK, time, gateway, Tip
<1>7. TypeOK'
  BY <1>1, <1>2, <1>6 DEF Inductive, TypeOK, batch
<1>8. Timely'
  BY <1>2 DEF Inductive, Timely, Granted, Supports, time, gateway, Tip
<1>9. OneInput'
  <2>1. pin' = pin /\ inputs' = inputs /\ pin # NoInputs
    BY <1>2, <1>3 DEF gateway
  <2> QED BY <1>2, <1>5, <2>1 DEF Inductive, OneInput
<1>10. Remembered' /\ DroppedIsSaved'
  BY <1>2 DEF Inductive, Remembered, MadeUnder, DroppedIsSaved, Saved, gateway, batch
<1> QED BY <1>2, <1>7, <1>8, <1>9, <1>10 DEF Inductive

LEMMA LeaseStep ==
  ASSUME Inductive, PolicyNext, UNCHANGED saveVars
  PROVE  Inductive' /\ index' = index
<1>1. PolicyTypeOK' /\ Timely' /\ UNCHANGED <<pin, frozen>> /\ inputs' \in {pin, NoInputs}
  BY PolicyStep DEF Inductive, TypeOK, OneInput
<1>2. UNCHANGED <<selected, gone, index, snapshot, queue, saving, attempt, remaining, todo, submits, waiting>>
  BY DEF saveVars, pods, batch
<1>3. TypeOK'
  BY <1>1, <1>2 DEF Inductive, TypeOK
<1>4. OneInput' /\ Remembered' /\ DroppedIsSaved'
  BY <1>1, <1>2 DEF Inductive, OneInput, Remembered, MadeUnder, DroppedIsSaved, Saved
<1> QED BY <1>1, <1>2, <1>3, <1>4 DEF Inductive

LEMMA InductiveStep ==
  ASSUME Inductive, [Next]_vars
  PROVE  Inductive' /\ (index' = index \/ \E p \in Pods : Writes(p))
<1>1. CASE UNCHANGED vars
  <2>1. UNCHANGED <<now, block, blockAt, commits, faults, pin, policy, inputs, refreshed, frozen, lease>>
        /\ UNCHANGED <<selected, gone, index, snapshot, queue, saving, attempt, remaining, todo, submits, waiting>>
    BY <1>1 DEF vars, policyVars, saveVars, time, gateway, pods, batch
  <2>2. TypeOK'
    BY <2>1 DEF Inductive, TypeOK, PolicyTypeOK, Tip
  <2>3. Timely' /\ OneInput' /\ Remembered' /\ DroppedIsSaved'
    BY <2>1 DEF Inductive, Timely, Granted, Supports, Tip, OneInput, Remembered, MadeUnder,
       DroppedIsSaved, Saved
  <2> QED BY <2>1, <2>2, <2>3 DEF Inductive
<1>2. ASSUME NEW p \in Pods, Pod(p)
      PROVE  Inductive' /\ (index' = index \/ Writes(p))
  BY <1>2, LookStep, SaveGoesOn, SaveStep, Zenon DEF Pod
<1> QED BY <1>1, <1>2, LeaseStep, ReplaceStep, CrashStep, BatchStep, Zenon DEF Next

LEMMA InitInductive == Init => Inductive
<1> SUFFICES ASSUME Init PROVE Inductive
  OBVIOUS
<1> USE PolicyAssumption, SubmissionsAssumption
<1>1. PICK i \in Inputs : /\ commits = <<[open |-> TRUE, inputs |-> i, at |-> 0]>>
                         /\ pin = i /\ inputs = i
                         /\ frozen = [p \in Pods |-> IF p = 1 THEN i ELSE NoInputs]
  BY DEF Init, PolicyInit
<1>2. now = 0 /\ block = 0 /\ blockAt = 0 /\ faults = 0 /\ refreshed = 0
      /\ policy = Lease(1, 0, inputs) /\ lease = [p \in Pods |-> IF p = 1 THEN policy ELSE NoPolicy]
  BY DEF Init, PolicyInit
<1> DEFINE l == [revision |-> 1, open |-> TRUE, inputs |-> i, observed |-> 0,
                 expires |-> Earlier(0 + Ttl, 0 + (Deadline - 0))]
<1>3. commits[1] = [open |-> TRUE, inputs |-> i, at |-> 0] /\ Tip = 1
      /\ commits \in Seq(States)
  <2>1. [open |-> TRUE, inputs |-> i, at |-> 0] \in States
    BY DEF States
  <2> QED BY <1>1, <2>1 DEF Tip
<1>4. policy = l
  BY <1>1, <1>2, <1>3 DEF Lease
<1>5. Earlier(0 + Ttl, 0 + (Deadline - 0)) \in 0 .. Ttl /\ Earlier(0 + Ttl, 0 + (Deadline - 0)) <= Deadline
  BY DEF Earlier
<1>6. l \in Policies
  BY <1>5 DEF Policies
<1>7. Granted(l)
  <2>1. Supports(1, l) /\ 1 \in 1 .. Tip
    BY <1>3 DEF Supports
  <2>2. l.observed = 0 /\ l.expires \in 0 .. Ttl /\ l.expires <= Deadline
    BY <1>5
  <2> HIDE DEF l
  <2> QED BY <1>2, <2>1, <2>2 DEF Granted
<1> HIDE DEF l
<1>8. PolicyTypeOK
  BY <1>1, <1>2, <1>3, <1>4, <1>6, NoPolicyGranted DEF PolicyTypeOK
<1>9. Timely
  BY <1>2, <1>4, <1>7, NoPolicyGranted DEF Timely
<1>10. /\ selected = 1 /\ gone = {} /\ index = NoSnapshot
       /\ snapshot = [p \in Pods |-> NoSnapshot]
       /\ queue = [p \in Pods |-> <<>>] /\ saving = [p \in Pods |-> NoSave]
       /\ attempt = 1 /\ remaining = Prompts /\ todo = Prompts
       /\ waiting = <<>> /\ submits = 0
  BY DEF Init
<1>11. \E D \in SUBSET (remaining \ todo) : waiting \in [D -> 1 .. MaxSubmits]
  <2>1. <<>> = [x \in {} |-> x]
    OBVIOUS
  <2>2. waiting \in [{} -> 1 .. MaxSubmits]
    BY <1>10, <2>1
  <2> QED BY <2>2
<1>12. TypeOK
  <2>1. NoSave.step = "none" /\ <<>> \in Seq(Requests)
    BY DEF NoSave
  <2>2. /\ selected \in Pods /\ gone \subseteq Pods /\ IsIndex(index)
        /\ DOMAIN snapshot = Pods /\ \A p \in Pods : IsIndex(snapshot[p])
    BY <1>10, EmptyIndex
  <2>3. /\ queue \in [Pods -> Seq(Requests)] /\ saving \in [Pods -> Saves \cup {NoSave}]
        /\ \A p \in Pods : saving[p].step \notin {"load", "save"}
    BY <1>10, <2>1
  <2>4. attempt \in 1 .. Attempts /\ remaining \subseteq Prompts /\ todo \subseteq remaining
        /\ submits \in 0 .. MaxSubmits
    BY <1>10
  <2> QED BY <1>8, <1>11, <2>2, <2>3, <2>4, Zenon DEF TypeOK
<1>13. OneInput
  BY <1>1, <1>10 DEF OneInput
<1>14. Remembered
  <2>1. NoSnapshot.etag = 0
    BY DEF NoSnapshot
  <2> QED BY <1>10, <2>1, EmptyIndex DEF Remembered
<1>15. DroppedIsSaved
  BY <1>10 DEF DroppedIsSaved
<1> QED BY <1>9, <1>12, <1>13, <1>14, <1>15 DEF Inductive

-----------------------------------------------------------------------------
(* The theorems.                                                           *)

\* The leases, the copies of the index and the batch keep their types and the
\* relations above.
THEOREM LeasesAreGranted == Spec => []Inductive
<1> QED BY InitInductive, InductiveStep, PTL DEF Spec

\* A Pod that may start work holds permission for its own inputs that was true
\* of the branch less than the lease's time ago (rounds.py:154-195,
\* pod.py:148-165).
THEOREM ClosedRoundIsFenced == Spec => []ClosedIsFenced
<1>1. Inductive => ClosedIsFenced
  <2> SUFFICES ASSUME Inductive, NEW p \in Pods, CanGenerate(p)
               PROVE  \E k \in DOMAIN commits :
                        /\ commits[k].open /\ commits[k].inputs = frozen[p]
                        /\ k = Tip \/ now < commits[k + 1].at + Ttl
    BY DEF ClosedIsFenced
  <2>1. /\ lease[p].open /\ lease[p].inputs = frozen[p] /\ now < lease[p].expires
        /\ lease[p] \in Policies /\ now \in Nat
    BY DEF CanGenerate, Permits, Inductive, TypeOK, PolicyTypeOK
  <2>2. PICK k \in 1 .. Tip : Supports(k, lease[p])
    BY <2>1 DEF Inductive, Timely, Granted
  <2>3. k \in DOMAIN commits /\ (k # Tip => commits[k + 1].at \in Nat)
    <3>1. k # Tip => k + 1 \in 1 .. Tip
      BY TipCommit, Facts
    <3> QED BY <3>1, TipCommit, Facts DEF States
  <2>4. lease[p].expires \in Nat /\ Ttl \in Nat
    BY <2>1, PolicyAssumption DEF Policies
  <2> QED BY <2>1, <2>2, <2>3, <2>4 DEF Supports
<1> QED BY <1>1, LeasesAreGranted, PTL

\* No Pod starts work once the chain has reached the round's deadline
\* (rounds.py:179-194).
THEOREM DeadlineIsKept == Spec => []DeadlineStands
<1>1. Inductive => DeadlineStands
  <2> SUFFICES ASSUME Inductive, NEW p \in Pods, CanGenerate(p) PROVE block < Deadline
    BY DEF DeadlineStands
  <2>1. /\ lease[p].open /\ now < lease[p].expires /\ lease[p] \in Policies
        /\ now \in Nat /\ block \in Nat /\ blockAt \in 0 .. now
    BY DEF CanGenerate, Permits, Inductive, TypeOK, PolicyTypeOK
  <2>2. lease[p].expires <= blockAt + Deadline - block
    BY <2>1 DEF Inductive, Timely, Granted
  <2>3. lease[p].expires \in Nat /\ Deadline \in Nat
    BY <2>1, PolicyAssumption DEF Policies
  <2> QED BY <2>1, <2>2, <2>3
<1> QED BY <1>1, LeasesAreGranted, PTL

\* The batch drops a prompt only when the index has a result for it
\* (batch.py:51-85, direct.py:417-449).
THEOREM DroppedPromptsAreSaved == Spec => []DroppedIsSaved
<1>1. Inductive => DroppedIsSaved
  BY DEF Inductive
<1> QED BY <1>1, LeasesAreGranted, PTL

\* All results of the round were made under the same published inputs
\* (rounds.py:86-152).
THEOREM OneSetOfInputs == Spec => []ResultsShareInputs
<1>1. Inductive => ResultsShareInputs
  BY DEF Inductive, Remembered, MadeUnder, ResultsShareInputs
<1> QED BY <1>1, LeasesAreGranted, PTL

\* No save loses another prompt's result (artifacts.py:78-92).
THEOREM SavedResultsStay == Spec => ResultsStay
<1>1. Inductive /\ [Next]_vars => [DOMAIN index.results \subseteq DOMAIN index'.results]_vars
  <2> SUFFICES ASSUME Inductive, [Next]_vars
               PROVE  DOMAIN index.results \subseteq DOMAIN index'.results
    OBVIOUS
  <2>1. CASE index' = index
    BY <2>1
  <2>2. ASSUME NEW p \in Pods, Writes(p)
        PROVE  DOMAIN index.results \subseteq DOMAIN index'.results
    BY <2>2, AddedIsIndex DEF Writes, Saved
  <2> QED BY <2>1, <2>2, InductiveStep
<1> QED BY <1>1, LeasesAreGranted, PTL DEF Spec, ResultsStay

=============================================================================
