-------------------------- MODULE GitBatcherProofs ------------------------
(***************************************************************************)
(* Proofs about GitBatcher, for any set of coroutines and paths and any     *)
(* bounds: no write is lost, flush() tells the truth when it commits, other *)
(* committers' files survive, and the batcher implements WriteBehind.       *)
(***************************************************************************)
EXTENDS GitBatcher, TLAPS

(***************************************************************************)
(* The inductive invariant.  A request is a ref update that may still reach *)
(* GitHub: the one under way and those the client gave up on.               *)
(***************************************************************************)
Requests ==
    late \cup IF commit.phase = "sent"
              THEN {[base |-> commit.base, files |-> commit.files]}
              ELSE {}

\* A snapshot holds the newest contents unless something newer is queued.
SnapshotIsNewest ==
    /\ ~InProgress => commit.files = None
    /\ \A p \in Paths :
        /\ commit.files[p] <= queued[p]
        /\ commit.files[p] # 0 /\ pending[p] = 0 => commit.files[p] = queued[p]

\* What an accepted commit carried is on the branch.
AppliedIsMarked ==
    commit.phase = "applied" => \A p \in Paths : commit.files[p] <= mark[p]

\* A request that would still fast-forward the branch takes it to a prefix of
\* the history, and not back.
RequestsMoveForward ==
    \A r \in Requests :
        /\ \A p \in Paths : r.files[p] <= queued[p]
        /\ r.base = HEAD =>
            /\ NewMark(r.files) \in prefixes
            /\ \A p \in Paths : r.files[p] # 0 => mark[p] <= r.files[p]

MarkIsQueued ==
    /\ queued \in prefixes
    /\ \A p \in Paths : mark[p] <= queued[p]

\* The branch holds no own content of a file that was never written.
UnwrittenIsForeign ==
    \A i \in 1..HEAD : \A p \in Paths :
        /\ queued[p] = 0 => log[i][p].by = "other"
        /\ log[i][p].by = "other" => log[i][p].n <= foreign

IInv ==
    /\ TypeOK
    /\ PendingIsNewest
    /\ NoWriteLost
    /\ SnapshotIsNewest
    /\ AppliedIsMarked
    /\ RequestsMoveForward
    /\ MarkIsQueued
    /\ UnwrittenIsForeign
    /\ ForeignFilesKept

-----------------------------------------------------------------------------
(***************************************************************************)
(* Type correctness.                                                       *)
(***************************************************************************)

LEMMA InitTypeOK == Init => TypeOK
  BY BoundsAssumption
     DEF Init, TypeOK, Tree, Content, Files, None, Idle, HEAD

\* A tree appended to the branch leaves the earlier commits alone.
LEMMA AppendFacts ==
  ASSUME NEW t \in Tree, log \in Seq(Tree), log' = Append(log, t)
  PROVE  /\ log' \in Seq(Tree) /\ log' # << >>
         /\ HEAD' = HEAD + 1
         /\ HEAD \in Nat
         /\ \A i \in 1..HEAD : log'[i] = log[i]
         /\ log'[HEAD'] = t
  BY DEF HEAD

LEMMA NextTypeOK == TypeOK /\ [Next]_vars => TypeOK'
<1> SUFFICES ASSUME TypeOK, [Next]_vars PROVE TypeOK'
  OBVIOUS
<1> USE BoundsAssumption
<1>0. /\ HEAD \in Nat /\ 1 \in 1..HEAD
      /\ None \in Files
      /\ Idle \in [phase : {"idle", "sent", "applied", "error"},
                   base : 1..HEAD, files : Files, flush : BOOLEAN]
  BY DEF TypeOK, HEAD, None, Files, Idle
<1>a. ASSUME NEW r, r.base \in 1..HEAD, r.files \in Files, FastForward(r)
      PROVE  /\ log' \in Seq(Tree) /\ log' # << >>
             /\ HEAD' = HEAD + 1
             /\ mark' \in Files
  <2>1. log[r.base] \in Tree
    BY <1>a DEF TypeOK, HEAD
  <2>2. Overlay(log[r.base], r.files) \in Tree
    BY <1>a, <2>1 DEF Overlay, Tree, Content, Own, Files
  <2>3. mark' \in Files
    BY <1>a DEF FastForward, NewMark, Files, TypeOK
  <2> QED
    BY <1>a, <2>2, <2>3, AppendFacts DEF FastForward, TypeOK
<1>b. commit \in [phase : {"idle", "sent", "applied", "error"},
                  base : 1..HEAD, files : Files, flush : BOOLEAN]
  BY DEF TypeOK
<1>c. ASSUME NEW files \in Files, NEW b \in BOOLEAN, StartCommit(files, b),
             UNCHANGED <<log, base>>
      PROVE  /\ commit' \in [phase : {"idle", "sent", "applied", "error"},
                             base : 1..HEAD, files : Files, flush : BOOLEAN]
             /\ pending' \in Files
  BY <1>0, <1>c DEF StartCommit, TypeOK
<1>1. ASSUME NEW P \in SUBSET Paths, WriteMany(P) PROVE TypeOK'
  <2>1. queued' \in Files
    BY <1>1 DEF WriteMany, TypeOK, Files
  <2>5. prefixes' \subseteq Files
    BY <1>1, <2>1 DEF WriteMany, TypeOK
  <2>2. [p \in Paths |-> IF p \in P THEN queued[p] + 1 ELSE pending[p]] \in Files
    BY DEF TypeOK, Files
  <2>3. UNCHANGED <<log, base, late, answer, mark, foreign, faults>>
    BY <1>1 DEF WriteMany
  <2>4. /\ pending' \in Files
        /\ commit' \in [phase : {"idle", "sent", "applied", "error"},
                        base : 1..HEAD, files : Files, flush : BOOLEAN]
    BY <1>1, <2>2, <2>3, <1>b, <1>c DEF WriteMany
  <2> QED
    BY <1>1, <2>1, <2>3, <2>4, <2>5 DEF TypeOK, HEAD, WriteMany, StartCommit
<1>2. CASE Flush
  <2>1. pending \in Files /\ UNCHANGED <<log, base>> /\ StartCommit(pending, TRUE)
    BY <1>2 DEF Flush, TypeOK
  <2>2. commit'.phase = "sent"
    BY <2>1 DEF StartCommit
  <2> QED
    BY <1>2, <1>c, <2>1, <2>2 DEF Flush, TypeOK, HEAD
<1>3. CASE CommitSucceeds
  <2>1. UNCHANGED <<log, pending, late, answer, queued, prefixes, mark, foreign,
                    faults>> /\ HEAD' = HEAD
    BY <1>3 DEF CommitSucceeds, HEAD
  <2>2. base' \in 1..HEAD
    BY <1>3, <1>0, <1>b DEF CommitSucceeds, TypeOK
  <2> QED
    BY <1>3, <1>0, <1>b, <2>1, <2>2 DEF CommitSucceeds, TypeOK, Idle
<1>4. CASE CommitFails
  <2>1. pending' \in Files
    BY <1>4, <1>b DEF CommitFails, Restore, Files, TypeOK
  <2>2. HEAD' = HEAD
    BY <1>4 DEF CommitFails, HEAD
  <2>3. base' \in 1..HEAD /\ faults' \in 0..MaxFaults
    BY <1>4, <1>0 DEF CommitFails, TypeOK
  <2> QED
    BY <1>4, <1>0, <2>1, <2>2, <2>3 DEF CommitFails, TypeOK, Idle
<1>5. ASSUME NEW w \in Coroutines, RefreshRead(w) PROVE TypeOK'
  BY <1>0, <1>5 DEF RefreshRead, TypeOK, HEAD
<1>6. ASSUME NEW w \in Coroutines, RefreshAssign(w) PROVE TypeOK'
  BY <1>0, <1>6 DEF RefreshAssign, TypeOK, HEAD
<1>d. ASSUME log' \in Seq(Tree), log' # << >>, HEAD' = HEAD + 1,
             mark' \in Files, late' \subseteq late, foreign' \in 0..MaxForeign,
             commit' \in [phase : {"idle", "sent", "applied", "error"},
                          base : 1..HEAD, files : Files, flush : BOOLEAN],
             UNCHANGED <<base, pending, answer, queued, prefixes, faults>>
      PROVE  TypeOK'
  <2>1. 1..HEAD \subseteq 1..HEAD' /\ 0..HEAD \subseteq 0..HEAD'
    BY <1>0, <1>d
  <2>2. base' \in 1..HEAD' /\ late' \subseteq [base : 1..HEAD', files : Files]
    BY <1>d, <2>1 DEF TypeOK
  <2>3. /\ commit' \in [phase : {"idle", "sent", "applied", "error"},
                        base : 1..HEAD', files : Files, flush : BOOLEAN]
        /\ commit'.base < HEAD'
    BY <1>0, <1>d, <2>1
  <2>4. answer' \in [Coroutines -> 0..HEAD']
    BY <1>d, <2>1 DEF TypeOK
  <2> QED
    BY <1>d, <2>2, <2>3, <2>4 DEF TypeOK
<1>7. CASE Accept
  <2>1. log' \in Seq(Tree) /\ log' # << >> /\ HEAD' = HEAD + 1 /\ mark' \in Files
    BY <1>7, <1>a, <1>b DEF Accept
  <2>2. commit' \in [phase : {"idle", "sent", "applied", "error"},
                     base : 1..HEAD, files : Files, flush : BOOLEAN]
    BY <1>7, <1>b DEF Accept
  <2> QED
    BY <1>7, <1>d, <2>1, <2>2 DEF Accept, TypeOK
<1>8. CASE Refuse
  BY <1>8, <1>b DEF Refuse, TypeOK, HEAD
<1>9. CASE RequestFails
  <2>1. late' \subseteq [base : 1..HEAD, files : Files]
    BY <1>9, <1>b DEF RequestFails, TypeOK
  <2>2. HEAD' = HEAD /\ faults' \in 0..MaxFaults
    BY <1>9 DEF RequestFails, HEAD, TypeOK
  <2> QED
    BY <1>9, <1>b, <2>1, <2>2 DEF RequestFails, TypeOK
<1>10. CASE ReplyLost
  <2>1. /\ commit' \in [phase : {"idle", "sent", "applied", "error"},
                         base : 1..HEAD, files : Files, flush : BOOLEAN]
        /\ commit'.base = commit.base /\ commit'.phase = "error"
    BY <1>10, <1>b DEF ReplyLost
  <2>2. HEAD' = HEAD /\ faults' \in 0..MaxFaults
    BY <1>10 DEF ReplyLost, HEAD, TypeOK
  <2> QED
    BY <1>10, <2>1, <2>2 DEF ReplyLost, TypeOK
<1>11. ASSUME NEW r \in late, LateArrival(r) PROVE TypeOK'
  <2>1. r.base \in 1..HEAD /\ r.files \in Files
    BY DEF TypeOK
  <2>2. log' \in Seq(Tree) /\ log' # << >> /\ HEAD' = HEAD + 1 /\ mark' \in Files
    BY <1>11, <1>a, <2>1 DEF LateArrival
  <2> QED
    BY <1>11, <1>b, <1>d, <2>2 DEF LateArrival, TypeOK
<1>12. ASSUME NEW p \in Paths, ForeignCommit(p) PROVE TypeOK'
  <2> DEFINE t == [log[HEAD] EXCEPT ![p] = [by |-> "other", n |-> foreign + 1]]
  <2>1. log[HEAD] \in Tree
    BY <1>0 DEF TypeOK, HEAD
  <2>2. t \in Tree
    BY <2>1 DEF Tree, Content, TypeOK
  <2>3. log' \in Seq(Tree) /\ log' # << >> /\ HEAD' = HEAD + 1
    BY <1>12, <2>2, AppendFacts DEF ForeignCommit, TypeOK
  <2> QED
    BY <1>12, <2>3, <1>b, <1>d DEF ForeignCommit, TypeOK
<1>13. CASE UNCHANGED vars
  BY <1>13 DEF vars, TypeOK, HEAD
<1> QED
  BY <1>1, <1>2, <1>3, <1>4, <1>5, <1>6, <1>7, <1>8, <1>9, <1>10, <1>11, <1>12,
     <1>13 DEF Next, Write

\* The state keeps its types: in particular base_sha and every request name a
\* commit of the branch.
THEOREM TypeCorrect == Spec => []TypeOK
  BY InitTypeOK, NextTypeOK, PTL DEF Spec

-----------------------------------------------------------------------------
(***************************************************************************)
(* The inductive invariant: what the log-changing and the other steps have  *)
(* in common first, then one step per action.                              *)
(***************************************************************************)

LEMMA InitIInv == Init => IInv
<1> SUFFICES ASSUME Init PROVE IInv
  OBVIOUS
<1>1. TypeOK
  BY InitTypeOK
<1>2. HEAD = 1
  BY DEF Init, HEAD
<1> QED
  BY <1>1, <1>2, BoundsAssumption
     DEF Init, IInv, PendingIsNewest, NoWriteLost, SnapshotIsNewest, AppliedIsMarked,
         RequestsMoveForward, Requests, MarkIsQueued, UnwrittenIsForeign,
         ForeignFilesKept, InProgress, Idle, None

\* Steps that do not touch the branch keep what is known about its files.
LEMMA BranchUntouched ==
  ASSUME UnwrittenIsForeign, ForeignFilesKept, UNCHANGED <<log, foreign>>,
         \A p \in Paths : queued'[p] = 0 => queued[p] = 0
  PROVE  UnwrittenIsForeign' /\ ForeignFilesKept'
  BY DEF UnwrittenIsForeign, ForeignFilesKept, HEAD

\* Every request that may still arrive names a commit of the branch.
LEMMA RequestTypes ==
  ASSUME TypeOK, NEW r \in Requests
  PROVE  r.base \in 1..HEAD /\ r.files \in Files
  BY DEF Requests, TypeOK

\* A request that reaches GitHub in time takes the branch to a longer prefix
\* and leaves unwritten files alone; the other requests are then refused.
LEMMA FastForwardFacts ==
  ASSUME IInv, NEW r \in Requests, FastForward(r), UNCHANGED <<queued, prefixes, foreign>>
  PROVE  /\ HEAD' = HEAD + 1
         /\ mark' \in prefixes
         /\ \A p \in Paths : mark[p] <= mark'[p] /\ mark'[p] <= queued[p]
         /\ \A p \in Paths : r.files[p] # 0 => mark'[p] = r.files[p]
         /\ UnwrittenIsForeign' /\ ForeignFilesKept'
         /\ log'[HEAD'] = Overlay(log[HEAD], r.files)
<1> USE DEF IInv
<1>1. r.base = HEAD /\ HEAD \in Nat /\ HEAD \in 1..HEAD /\ r.files \in Files
  BY RequestTypes DEF FastForward, TypeOK, HEAD
<1>2. log[HEAD] \in Tree
  BY <1>1 DEF TypeOK, HEAD
<1>3. Overlay(log[HEAD], r.files) \in Tree
  BY <1>1, <1>2 DEF Overlay, Tree, Content, Own, Files
<1>4. /\ HEAD' = HEAD + 1
      /\ \A i \in 1..HEAD : log'[i] = log[i]
      /\ log'[HEAD'] = Overlay(log[HEAD], r.files)
  BY <1>1, <1>3, AppendFacts DEF FastForward, TypeOK
<1>5. \A p \in Paths : /\ r.files[p] <= queued[p]
                       /\ r.files[p] # 0 => mark[p] <= r.files[p]
  BY <1>1 DEF RequestsMoveForward
<1>6. \A p \in Paths : mark'[p] = IF r.files[p] = 0 THEN mark[p] ELSE r.files[p]
  BY DEF FastForward, NewMark
<1>7. mark' \in prefixes
  BY <1>1 DEF RequestsMoveForward, FastForward
<1>8. \A p \in Paths : mark[p] \in Nat /\ queued[p] \in Nat /\ r.files[p] \in Nat
  BY <1>1 DEF TypeOK, Files
<1>9. \A p \in Paths : mark[p] <= mark'[p] /\ mark'[p] <= queued[p]
  BY <1>5, <1>6, <1>8 DEF MarkIsQueued
<1>10. UnwrittenIsForeign'
  <2> SUFFICES ASSUME NEW i \in 1..HEAD', NEW p \in Paths
               PROVE  /\ queued[p] = 0 => log'[i][p].by = "other"
                      /\ log'[i][p].by = "other" => log'[i][p].n <= foreign
    BY DEF UnwrittenIsForeign
  <2>1. CASE i \in 1..HEAD
    BY <2>1, <1>4 DEF UnwrittenIsForeign
  <2>2. CASE i = HEAD'
    <3>1. log'[i][p] = IF r.files[p] = 0 THEN log[HEAD][p] ELSE Own(r.files[p])
      BY <2>2, <1>4 DEF Overlay
    <3>2. queued[p] = 0 => r.files[p] = 0
      BY <1>5, <1>8
    <3> QED
      BY <3>1, <3>2, <1>1 DEF UnwrittenIsForeign, Own
  <2> QED
    BY <2>1, <2>2, <1>1, <1>4
<1>11. ForeignFilesKept'
  <2> SUFFICES ASSUME NEW p \in Paths, queued[p] = 0, NEW i \in 1..HEAD'
               PROVE  log'[i][p].n <= log'[HEAD'][p].n
    BY DEF ForeignFilesKept
  <2>1. r.files[p] = 0
    BY <1>5, <1>8
  <2>2. log'[HEAD'][p] = log[HEAD][p]
    BY <2>1, <1>4 DEF Overlay
  <2>3. log[HEAD][p].n \in Nat
    BY <1>2 DEF Tree, Content
  <2>4. CASE i \in 1..HEAD
    BY <2>2, <2>4, <1>4 DEF ForeignFilesKept
  <2>5. CASE i = HEAD'
    BY <2>2, <2>3, <2>5
  <2> QED
    BY <2>4, <2>5, <1>1, <1>4
<1> QED
  BY <1>4, <1>6, <1>7, <1>9, <1>10, <1>11

\* What a fast-forward means for the contents in hand.
LEMMA FastForwardInv ==
  ASSUME IInv, TypeOK', NEW r \in Requests, FastForward(r), Requests' \subseteq Requests,
         UNCHANGED <<pending, queued, prefixes, foreign>>,
         commit'.files = commit.files, InProgress' = InProgress,
         commit'.phase = "applied" =>
            commit.phase = "applied" \/ r.files = commit.files
  PROVE  IInv'
<1> USE DEF IInv
<1>1. /\ HEAD' = HEAD + 1
      /\ mark' \in prefixes
      /\ \A p \in Paths : mark[p] <= mark'[p] /\ mark'[p] <= queued[p]
      /\ \A p \in Paths : r.files[p] # 0 => mark'[p] = r.files[p]
      /\ UnwrittenIsForeign' /\ ForeignFilesKept'
  BY FastForwardFacts
<1>2. /\ pending \in Files /\ queued \in Files /\ mark \in Files /\ mark' \in Files
      /\ commit.files \in Files /\ r.files \in Files
      /\ HEAD \in Nat
  BY RequestTypes DEF TypeOK, HEAD
<1>3. PendingIsNewest'
  BY DEF PendingIsNewest
<1>4. NoWriteLost'
  BY <1>1, <1>2 DEF NoWriteLost, Files
<1>5. SnapshotIsNewest'
  BY DEF SnapshotIsNewest
<1>6. AppliedIsMarked'
  <2> SUFFICES ASSUME commit'.phase = "applied", NEW p \in Paths
               PROVE  commit.files[p] <= mark'[p]
    BY DEF AppliedIsMarked
  <2>1. CASE commit.phase = "applied"
    BY <2>1, <1>1, <1>2 DEF AppliedIsMarked, Files
  <2>2. CASE r.files = commit.files
    BY <2>2, <1>1, <1>2 DEF Files
  <2> QED
    BY <2>1, <2>2
<1>7. RequestsMoveForward'
  <2> SUFFICES ASSUME NEW s \in Requests
               PROVE  s.base # HEAD' /\ \A p \in Paths : s.files[p] <= queued[p]
    BY DEF RequestsMoveForward
  <2>1. s.base \in 1..HEAD
    BY RequestTypes
  <2> QED
    BY <2>1, <1>1, <1>2 DEF RequestsMoveForward
<1>8. MarkIsQueued'
  BY <1>1 DEF MarkIsQueued
<1> QED
  BY <1>1, <1>3, <1>4, <1>5, <1>6, <1>7, <1>8

\* A commit starts with everything the process has not yet put on the branch:
\* if base_sha still is HEAD, the commit completes the prefix up to now.
LEMMA StartCommitInv ==
  ASSUME IInv, TypeOK', NEW files \in Files, NEW b \in BOOLEAN, StartCommit(files, b),
         UNCHANGED <<log, base, late, mark, foreign>>,
         prefixes \subseteq prefixes', queued' \in prefixes',
         \A p \in Paths : queued[p] <= queued'[p],
         \A p \in Paths : IF files[p] # 0 THEN files[p] = queued'[p]
                                          ELSE mark[p] = queued'[p]
  PROVE  IInv'
<1> USE DEF IInv
<1>1. /\ commit'.files = files /\ commit'.base = base /\ commit'.phase = "sent"
      /\ pending' = None /\ HEAD' = HEAD
  BY DEF StartCommit, HEAD
<1>2. /\ queued \in Files /\ queued' \in Files /\ mark \in Files
      /\ \A p \in Paths : /\ queued[p] \in Nat /\ queued'[p] \in Nat
                          /\ mark[p] \in Nat /\ files[p] \in Nat
                          /\ None[p] = 0
  BY DEF TypeOK, Files, None
<1>3. PendingIsNewest' /\ NoWriteLost' /\ SnapshotIsNewest' /\ AppliedIsMarked'
  BY <1>1, <1>2 DEF PendingIsNewest, NoWriteLost, SnapshotIsNewest, AppliedIsMarked,
                    InProgress
<1>4. MarkIsQueued'
  BY <1>2 DEF MarkIsQueued
<1>5. NewMark(files) = queued'
  BY <1>2 DEF NewMark, Files
<1>6. RequestsMoveForward'
  <2> SUFFICES ASSUME NEW r \in Requests'
               PROVE  /\ \A p \in Paths : r.files[p] <= queued'[p]
                      /\ r.base = HEAD =>
                          /\ NewMark(r.files) \in prefixes'
                          /\ \A p \in Paths : r.files[p] # 0 => mark[p] <= r.files[p]
    BY <1>1, Zenon DEF RequestsMoveForward, NewMark
  <2>1. CASE r \in late
    <3>1. r \in Requests /\ r.files \in Files
      BY <2>1, RequestTypes DEF Requests
    <3> QED
      BY <3>1, <1>2 DEF RequestsMoveForward, Files
  <2>2. CASE r = [base |-> base, files |-> files]
    BY <2>2, <1>2, <1>5 DEF MarkIsQueued
  <2> QED
    BY <2>1, <2>2, <1>1 DEF Requests
<1>7. UnwrittenIsForeign' /\ ForeignFilesKept'
  BY <1>2, BranchUntouched
<1> QED
  BY <1>3, <1>4, <1>6, <1>7

\* Steps that change none of what IInv relates, except to drop requests.
LEMMA QuietInv ==
  ASSUME IInv, TypeOK', UNCHANGED <<log, pending, queued, prefixes, mark, foreign>>,
         commit'.files = commit.files, InProgress' = InProgress,
         commit'.phase = "applied" => commit.phase = "applied",
         Requests' \subseteq Requests
  PROVE  IInv'
<1> USE DEF IInv
<1>1. HEAD' = HEAD
  BY DEF HEAD
<1>2. RequestsMoveForward'
  BY <1>1 DEF RequestsMoveForward, NewMark
<1>3. UnwrittenIsForeign' /\ ForeignFilesKept'
  BY BranchUntouched
<1> QED
  BY <1>2, <1>3 DEF PendingIsNewest, NoWriteLost, SnapshotIsNewest, AppliedIsMarked,
                    MarkIsQueued

LEMMA NextIInv == IInv /\ [Next]_vars => IInv'
<1> SUFFICES ASSUME IInv, [Next]_vars PROVE IInv'
  OBVIOUS
<1>0. TypeOK /\ TypeOK'
  BY NextTypeOK DEF IInv
<1>a. /\ pending \in Files /\ queued \in Files /\ mark \in Files /\ commit.files \in Files
      /\ \A p \in Paths : /\ queued[p] \in Nat /\ pending[p] \in Nat
                          /\ mark[p] \in Nat /\ commit.files[p] \in Nat
  BY <1>0 DEF TypeOK, Files
<1>b. ~InProgress => /\ commit.files = None
                     /\ \A p \in Paths : IF pending[p] # 0 THEN pending[p] = queued[p]
                                                           ELSE mark[p] = queued[p]
  BY <1>a DEF IInv, SnapshotIsNewest, PendingIsNewest, NoWriteLost, MarkIsQueued, None
<1>1. ASSUME NEW P \in SUBSET Paths, WriteMany(P) PROVE IInv'
  <2> DEFINE files == [p \in Paths |-> IF p \in P THEN queued[p] + 1 ELSE pending[p]]
  <2>1. /\ files \in Files /\ queued' \in prefixes' /\ prefixes \subseteq prefixes'
        /\ \A p \in Paths : queued'[p] = IF p \in P THEN queued[p] + 1 ELSE queued[p]
        /\ \A p \in Paths : files[p] = IF p \in P THEN queued[p] + 1 ELSE pending[p]
        /\ UNCHANGED <<log, base, late, mark, foreign>>
    BY <1>1, <1>a DEF WriteMany, Files
  <2> HIDE DEF files
  <2>2. CASE StartCommit(files, FALSE)
    <3>1. ~InProgress
      BY <2>2 DEF StartCommit
    <3>2. \A p \in Paths : queued[p] <= queued'[p]
      BY <2>1, <1>a
    <3>3. \A p \in Paths : IF files[p] # 0 THEN files[p] = queued'[p]
                                            ELSE mark[p] = queued'[p]
      BY <2>1, <3>1, <1>a, <1>b
    <3> QED
      BY <2>1, <2>2, <3>2, <3>3, <1>0, StartCommitInv
  <2>3. CASE pending' = files /\ UNCHANGED commit
    <3>1. HEAD' = HEAD /\ Requests' = Requests
      BY <2>1, <2>3 DEF HEAD, Requests
    <3>2. PendingIsNewest' /\ NoWriteLost'
      BY <2>1, <2>3, <1>a DEF IInv, PendingIsNewest, NoWriteLost
    <3>3. SnapshotIsNewest'
      <4>1. InProgress' = InProgress /\ commit' = commit
        BY <2>3 DEF InProgress
      <4>2. ASSUME NEW p \in Paths
            PROVE  /\ commit.files[p] <= queued'[p]
                   /\ commit.files[p] # 0 /\ files[p] = 0 => commit.files[p] = queued'[p]
        BY <2>1, <1>a DEF IInv, SnapshotIsNewest
      <4> QED
        BY <4>1, <4>2, <2>3 DEF IInv, SnapshotIsNewest
    <3>4. AppliedIsMarked'
      BY <2>1, <2>3 DEF IInv, AppliedIsMarked
    <3>5. RequestsMoveForward'
      <4> SUFFICES ASSUME NEW r \in Requests
                   PROVE  /\ \A p \in Paths : r.files[p] <= queued'[p]
                          /\ r.base = HEAD =>
                              /\ NewMark(r.files) \in prefixes'
                              /\ \A p \in Paths : r.files[p] # 0 => mark[p] <= r.files[p]
        BY <2>1, <3>1 DEF RequestsMoveForward, NewMark
      <4>1. r.files \in Files
        BY <1>0, RequestTypes
      <4> QED
        BY <4>1, <2>1, <1>a DEF IInv, RequestsMoveForward, Files
    <3>6. MarkIsQueued'
      BY <2>1, <1>a DEF IInv, MarkIsQueued
    <3>7. UnwrittenIsForeign' /\ ForeignFilesKept'
      BY <2>1, <1>a, BranchUntouched DEF IInv
    <3> QED
      BY <1>0, <3>2, <3>3, <3>4, <3>5, <3>6, <3>7 DEF IInv
  <2> QED
    BY <1>1, <2>2, <2>3 DEF WriteMany, files
<1>2. CASE Flush
  <2>1. /\ StartCommit(pending, TRUE)
        /\ UNCHANGED <<log, base, late, queued, prefixes, mark, foreign>>
    BY <1>2 DEF Flush
  <2>2. ~InProgress
    BY <2>1 DEF StartCommit
  <2>3. /\ queued' = queued /\ queued' \in prefixes' /\ prefixes \subseteq prefixes'
        /\ \A p \in Paths : queued[p] <= queued'[p]
    BY <2>1, <1>a DEF IInv, MarkIsQueued
  <2>4. \A p \in Paths : IF pending[p] # 0 THEN pending[p] = queued'[p]
                                            ELSE mark[p] = queued'[p]
    BY <2>2, <2>3, <1>b
  <2> QED
    BY <2>1, <2>3, <2>4, <1>0, <1>a, StartCommitInv
<1>3. CASE CommitSucceeds
  <2>1. /\ UNCHANGED <<log, pending, queued, prefixes, mark, foreign>>
        /\ Requests' \subseteq Requests /\ HEAD' = HEAD
        /\ commit'.files = None /\ commit'.phase = "idle"
    BY <1>3 DEF CommitSucceeds, Idle, Requests, HEAD
  <2>2. \A p \in Paths : commit.files[p] <= mark[p] /\ mark[p] <= queued[p]
    BY <1>3 DEF CommitSucceeds, IInv, AppliedIsMarked, MarkIsQueued
  <2>3. NoWriteLost'
    BY <2>1, <2>2, <1>a DEF IInv, NoWriteLost
  <2>4. SnapshotIsNewest' /\ AppliedIsMarked'
    BY <2>1, <1>a DEF SnapshotIsNewest, AppliedIsMarked, InProgress, None
  <2>5. RequestsMoveForward' /\ PendingIsNewest' /\ MarkIsQueued'
    BY <2>1 DEF IInv, RequestsMoveForward, NewMark, PendingIsNewest, MarkIsQueued
  <2>6. UnwrittenIsForeign' /\ ForeignFilesKept'
    BY <2>1, BranchUntouched DEF IInv
  <2> QED
    BY <1>0, <2>3, <2>4, <2>5, <2>6 DEF IInv
<1>4. CASE CommitFails
  <2>1. /\ UNCHANGED <<log, queued, prefixes, mark, foreign>>
        /\ Requests' \subseteq Requests /\ HEAD' = HEAD
        /\ commit'.files = None /\ commit'.phase = "idle"
        /\ \A p \in Paths : pending'[p] = IF pending[p] = 0 THEN commit.files[p]
                                                            ELSE pending[p]
    BY <1>4 DEF CommitFails, Idle, Requests, HEAD, Restore
  <2>2. PendingIsNewest' /\ NoWriteLost'
    BY <2>1, <1>a DEF IInv, PendingIsNewest, NoWriteLost, SnapshotIsNewest
  <2>3. SnapshotIsNewest' /\ AppliedIsMarked'
    BY <2>1, <1>a DEF SnapshotIsNewest, AppliedIsMarked, InProgress, None
  <2>4. RequestsMoveForward' /\ MarkIsQueued'
    BY <2>1 DEF IInv, RequestsMoveForward, NewMark, MarkIsQueued
  <2>5. UnwrittenIsForeign' /\ ForeignFilesKept'
    BY <2>1, BranchUntouched DEF IInv
  <2> QED
    BY <1>0, <2>2, <2>3, <2>4, <2>5 DEF IInv
<1>5. ASSUME NEW w \in Coroutines, RefreshRead(w) \/ RefreshAssign(w) PROVE IInv'
  BY <1>0, <1>5, QuietInv DEF RefreshRead, RefreshAssign, Requests, InProgress
<1>6. CASE Accept
  <2> DEFINE r == [base |-> commit.base, files |-> commit.files]
  <2>1. r \in Requests /\ FastForward(r)
    BY <1>6 DEF Accept, Requests, FastForward
  <2>2. /\ commit'.files = commit.files /\ commit'.phase = "applied"
        /\ InProgress' = InProgress /\ Requests' \subseteq Requests
    BY <1>0, <1>6 DEF Accept, InProgress, Requests, TypeOK
  <2>3. UNCHANGED <<pending, queued, prefixes, foreign>> /\ r.files = commit.files
    BY <1>6 DEF Accept
  <2> QED
    BY <1>0, <2>1, <2>2, <2>3, FastForwardInv
<1>7. CASE Refuse \/ RequestFails \/ ReplyLost
  <2>1. /\ commit'.files = commit.files /\ commit'.phase = "error"
        /\ InProgress' = InProgress
    BY <1>0, <1>7 DEF Refuse, RequestFails, ReplyLost, InProgress, TypeOK
  <2>2. Requests' \subseteq Requests
    BY <2>1, <1>7 DEF Refuse, RequestFails, ReplyLost, Requests
  <2>3. UNCHANGED <<log, pending, queued, prefixes, mark, foreign>>
    BY <1>7 DEF Refuse, RequestFails, ReplyLost
  <2> QED
    BY <1>0, <2>1, <2>2, <2>3, QuietInv
<1>8. ASSUME NEW r \in late, LateArrival(r) PROVE IInv'
  <2>1. r \in Requests /\ FastForward(r)
    BY <1>8 DEF LateArrival, Requests
  <2>2. /\ UNCHANGED <<commit, pending, queued, prefixes, foreign>>
        /\ Requests' \subseteq Requests /\ InProgress' = InProgress
    BY <1>8 DEF LateArrival, Requests, InProgress
  <2> QED
    BY <1>0, <2>1, <2>2, FastForwardInv
<1>9. ASSUME NEW p \in Paths, ForeignCommit(p) PROVE IInv'
  <2> DEFINE t == [log[HEAD] EXCEPT ![p] = [by |-> "other", n |-> foreign + 1]]
  <2>1. HEAD \in Nat /\ HEAD \in 1..HEAD /\ foreign \in Nat
    BY <1>0, BoundsAssumption DEF TypeOK, HEAD
  <2>2. /\ log[HEAD] \in Tree
        /\ \A j \in 1..HEAD : \A q \in Paths : log[j][q] \in Content
    BY <2>1, <1>0 DEF TypeOK, HEAD, Tree
  <2>3. t \in Tree
    BY <2>1, <2>2 DEF Tree, Content
  <2>4. /\ HEAD' = HEAD + 1 /\ log'[HEAD'] = t
        /\ \A i \in 1..HEAD : log'[i] = log[i]
    BY <1>0, <1>9, <2>3, AppendFacts DEF ForeignCommit, TypeOK
  <2>5. /\ UNCHANGED <<pending, commit, late, queued, prefixes, mark>>
        /\ foreign' = foreign + 1
    BY <1>9 DEF ForeignCommit
  <2>6. \A q \in Paths : t[q] = IF q = p THEN [by |-> "other", n |-> foreign + 1]
                                         ELSE log[HEAD][q]
    BY <2>2 DEF Tree
  <2> HIDE DEF t
  <2>7. UnwrittenIsForeign'
    <3> SUFFICES ASSUME NEW i \in 1..HEAD', NEW q \in Paths
                 PROVE  /\ queued[q] = 0 => log'[i][q].by = "other"
                        /\ log'[i][q].by = "other" => log'[i][q].n <= foreign + 1
      BY <2>5 DEF UnwrittenIsForeign
    <3>1. ASSUME NEW j \in 1..HEAD
          PROVE  /\ log[j][q].n \in Nat
                 /\ queued[q] = 0 => log[j][q].by = "other"
                 /\ log[j][q].by = "other" => log[j][q].n <= foreign
      BY <2>2 DEF IInv, UnwrittenIsForeign, Content
    <3>2. CASE i \in 1..HEAD
      BY <3>1, <3>2, <2>1, <2>4
    <3>3. CASE i = HEAD' /\ q # p
      BY <3>1, <3>3, <2>1, <2>4, <2>6
    <3>4. CASE i = HEAD' /\ q = p
      BY <3>4, <2>1, <2>4, <2>6
    <3> QED
      BY <3>2, <3>3, <3>4, <2>1, <2>4
  <2>8. ForeignFilesKept'
    <3> SUFFICES ASSUME NEW q \in Paths, queued[q] = 0, NEW i \in 1..HEAD'
                 PROVE  log'[i][q].n <= t[q].n
      BY <2>4, <2>5 DEF ForeignFilesKept
    <3>1. ASSUME NEW j \in 1..HEAD
          PROVE  /\ log[j][q].n \in Nat /\ log[j][q].n <= foreign
                 /\ log[j][q].n <= log[HEAD][q].n
      BY <2>2 DEF IInv, UnwrittenIsForeign, ForeignFilesKept, Content
    <3>2. log[HEAD][q].n <= t[q].n /\ t[q].n \in Nat
      BY <3>1, <2>1, <2>6
    <3>3. CASE i \in 1..HEAD
      <4>1. log'[i][q] = log[i][q] /\ log[i][q].n <= foreign /\ log[i][q].n \in Nat
        BY <3>1, <3>3, <2>4
      <4>2. log[i][q].n <= log[HEAD][q].n /\ log[HEAD][q].n \in Nat
        BY <3>1, <3>3, <2>1
      <4> QED
        BY <4>1, <4>2, <3>2
    <3>4. CASE i = HEAD'
      BY <3>2, <3>4, <2>4
    <3> QED
      BY <3>3, <3>4, <2>1, <2>4
  <2>9. RequestsMoveForward'
    <3> SUFFICES ASSUME NEW s \in Requests
                 PROVE  s.base # HEAD' /\ \A q \in Paths : s.files[q] <= queued[q]
      BY <2>5 DEF RequestsMoveForward, Requests
    <3> QED
      BY <1>0, <2>1, <2>4, RequestTypes DEF IInv, RequestsMoveForward
  <2>10. /\ PendingIsNewest' /\ NoWriteLost' /\ SnapshotIsNewest' /\ AppliedIsMarked'
         /\ MarkIsQueued'
    BY <2>5 DEF IInv, PendingIsNewest, NoWriteLost, SnapshotIsNewest, AppliedIsMarked,
                MarkIsQueued, InProgress
  <2> QED
    BY <1>0, <2>7, <2>8, <2>9, <2>10 DEF IInv
<1>10. CASE UNCHANGED vars
  BY <1>0, <1>10, QuietInv DEF vars, Requests, InProgress
<1> QED
  BY <1>1, <1>2, <1>3, <1>4, <1>5, <1>6, <1>7, <1>8, <1>9, <1>10 DEF Next, Write

LEMMA Invariance == Spec => []IInv
  BY InitIInv, NextIInv, PTL DEF Spec

-----------------------------------------------------------------------------
(***************************************************************************)
(* Results.                                                                *)
(***************************************************************************)

\* Whatever fails, the newest write to each file is queued, in the commit under
\* way or on the branch (git_batcher.py, the except branch of _commit).
THEOREM NothingIsLost == Spec => []NoWriteLost
  BY Invariance, PTL DEF IInv

\* Restoring a failed snapshot never hides a newer write
\* (_restore_pending_without_overwrite).
THEOREM NewestIsQueued == Spec => []PendingIsNewest
  BY Invariance, PTL DEF IInv

\* A commit of the batcher never undoes another committer's change to a file the
\* batcher has not written (github.py, force = False).
THEOREM OthersAreKept == Spec => []ForeignFilesKept
  BY Invariance, PTL DEF IInv

\* When flush() commits and returns True, everything queued is on the branch.
THEOREM FlushIsHonest == Spec => FlushedIsCommitted
<1>1. IInv /\ [Next]_vars =>
        [CommitSucceeds /\ commit.flush /\ pending = None => AllCommitted]_vars
  <2> SUFFICES ASSUME IInv, CommitSucceeds, pending = None PROVE mark = queued
    BY DEF AllCommitted
  <2>1. queued \in Files /\ mark \in Files /\ commit.files \in Files
    BY DEF IInv, TypeOK
  <2>2. ASSUME NEW p \in Paths PROVE mark[p] = queued[p]
    <3>1. /\ commit.files[p] <= mark[p] /\ mark[p] <= queued[p] /\ pending[p] = 0
          /\ queued[p] # 0 => \/ pending[p] = queued[p]
                              \/ commit.files[p] = queued[p]
                              \/ mark[p] = queued[p]
      BY DEF CommitSucceeds, IInv, AppliedIsMarked, MarkIsQueued, NoWriteLost, None
    <3> QED
      BY <3>1, <2>1 DEF Files
  <2> QED
    BY <2>1, <2>2 DEF Files
<1> QED
  BY <1>1, Invariance, PTL DEF Spec, FlushedIsCommitted

\* A fast-forward by the batcher is a step of the abstract specification.
LEMMA FastForwardPublishes ==
  ASSUME IInv, NEW r \in Requests, FastForward(r), UNCHANGED <<queued, prefixes, foreign>>
  PROVE  \E f \in prefixes : Promise!Publish(f)
<1>1. /\ mark' \in prefixes /\ HEAD' = HEAD + 1
      /\ \A p \in Paths : mark[p] <= mark'[p]
      /\ \A p \in Paths : r.files[p] # 0 => mark'[p] = r.files[p]
      /\ log'[HEAD'] = Overlay(log[HEAD], r.files)
  BY FastForwardFacts
<1>2. \A p \in Paths : mark[p] # mark'[p] => r.files[p] # 0
  BY DEF FastForward, NewMark
<1> DEFINE P == {p \in Paths : r.files[p] # 0}
<1>3. log'[HEAD'] = [p \in Paths |-> IF p \in P THEN [by |-> "self", n |-> mark'[p]]
                                               ELSE log[HEAD][p]]
  BY <1>1 DEF Overlay, Own
<1>4. P \in SUBSET Paths /\ \A p \in Paths : mark[p] # mark'[p] => p \in P
  BY <1>2
<1>5. Promise!Publish(mark')
  BY <1>1, <1>3, <1>4 DEF Promise!Publish
<1> QED
  BY <1>1, <1>5

\* The batcher implements WriteBehind: the branch always shows a prefix of the
\* writes in the order they were queued, plus what others committed.
THEOREM ImplementsWriteBehind == Spec => ShowsPrefixOfWrites
<1>1. Init => Promise!Init
  BY DEF Init, Promise!Init, None, HEAD
<1>2. IInv /\ [Next]_vars => [Promise!Next]_(Promise!vars)
  <2> SUFFICES ASSUME IInv, [Next]_vars
               PROVE  Promise!Next \/ UNCHANGED Promise!vars
    OBVIOUS
  <2>1. TypeOK
    BY DEF IInv
  <2>2. ASSUME NEW P \in SUBSET Paths, WriteMany(P) PROVE Promise!Accept(P)
    BY <2>2 DEF WriteMany, Promise!Accept, HEAD
  <2>3. CASE Accept
    <3> DEFINE r == [base |-> commit.base, files |-> commit.files]
    <3>1. r \in Requests /\ FastForward(r) /\ UNCHANGED <<queued, prefixes, foreign>>
      BY <2>3 DEF Accept, Requests, FastForward
    <3>2. \E f \in prefixes : Promise!Publish(f)
      BY <3>1, FastForwardPublishes
    <3> QED
      BY <3>2 DEF Promise!Next
  <2>4. ASSUME NEW r \in late, LateArrival(r) PROVE Promise!Next
    <3>1. r \in Requests /\ FastForward(r) /\ UNCHANGED <<queued, prefixes, foreign>>
      BY <2>4 DEF LateArrival, Requests
    <3> QED
      BY <3>1, FastForwardPublishes DEF Promise!Next
  <2>5. ASSUME NEW p \in Paths, ForeignCommit(p) PROVE Promise!OtherCommits(p)
    <3> DEFINE c == [by |-> "other", n |-> foreign + 1]
    <3> DEFINE t == [log[HEAD] EXCEPT ![p] = c]
    <3>1. log[HEAD] \in Tree /\ foreign \in Nat
      BY <2>1, BoundsAssumption DEF TypeOK, HEAD
    <3>2. t \in Tree /\ t[p] = c
      BY <3>1 DEF Tree, Content
    <3>3. log'[HEAD'] = t
      BY <2>1, <2>5, <3>2, AppendFacts DEF ForeignCommit, TypeOK
    <3>4. t = [log[HEAD] EXCEPT ![p] = t[p]]
      BY <3>2
    <3>5. UNCHANGED <<queued, prefixes, mark>> /\ t[p].by = "other"
      BY <2>5, <3>2 DEF ForeignCommit
    <3> HIDE DEF t
    <3> QED
      BY <3>3, <3>4, <3>5 DEF Promise!OtherCommits
  <2>6. CASE \/ Flush \/ CommitSucceeds \/ CommitFails \/ Refuse \/ RequestFails \/ ReplyLost
             \/ \E w \in Coroutines : RefreshRead(w) \/ RefreshAssign(w)
             \/ UNCHANGED vars
    BY <2>6 DEF Flush, CommitSucceeds, CommitFails, Refuse, RequestFails, ReplyLost,
                RefreshRead, RefreshAssign, vars, Promise!vars, HEAD
  <2> QED
    BY <2>2, <2>3, <2>4, <2>5, <2>6 DEF Next, Write, Promise!Next
<1> QED
  BY <1>1, <1>2, Invariance, PTL DEF Spec, ShowsPrefixOfWrites, Promise!Spec
=============================================================================
