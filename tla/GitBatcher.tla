---------------------------- MODULE GitBatcher ----------------------------
(***************************************************************************)
(* shared/subnet_common/git_batcher.py: the write-behind buffer through     *)
(* which the judge and the collector change the competition's git branch.   *)
(*                                                                         *)
(* Coroutines of one process queue file contents; a commit swaps the queue  *)
(* out, builds a commit on base_sha and asks GitHub to fast-forward the     *)
(* branch.  Other processes and people commit to the same branch.  A        *)
(* request may fail, its reply may be lost, and it may reach GitHub after   *)
(* the client has given up.                                                *)
(*                                                                         *)
(* The content of the k-th write to a path is the number k; a foreign       *)
(* content is [by |-> "other"].  A step runs from one await to the next.    *)
(***************************************************************************)
EXTENDS Naturals, Sequences

CONSTANTS Coroutines,    \* tasks of the process that share the batcher
          Paths,         \* files of the branch
          MaxWrites,     \* bound: writes to one path
          MaxForeign,    \* bound: commits of other committers
          MaxFaults      \* bound: failed requests and lost replies

ASSUME BoundsAssumption == /\ MaxWrites \in Nat
                           /\ MaxForeign \in Nat
                           /\ MaxFaults \in Nat

VARIABLES
    log,        \* the branch: the tree of each commit, HEAD last
    base,       \* base_sha, as a position in log
    pending,    \* _pending_files: content number per path, 0 when absent
    commit,     \* the commit in progress, if any
    late,       \* requests the client gave up on that may still arrive
    answer,     \* per coroutine, the HEAD its refresh_base_sha() has read, or 0
    queued,     \* history: number of writes accepted per path
    prefixes,   \* history: every value queued has had
    mark,       \* history: per path, the own content last put on the branch
    foreign,    \* number of commits by other committers
    faults      \* number of faults so far

vars == <<log, base, pending, commit, late, answer, queued, prefixes, mark,
          foreign, faults>>

-----------------------------------------------------------------------------
None == [p \in Paths |-> 0]

Content == [by : {"self", "other"}, n : Nat]
Tree    == [Paths -> Content]
Files   == [Paths -> Nat]

Own(k) == [by |-> "self", n |-> k]

HEAD == Len(log)

\* The tree of a commit that puts files on top of tree.
Overlay(tree, files) ==
    [p \in Paths |-> IF files[p] = 0 THEN tree[p] ELSE Own(files[p])]

\* _restore_pending_without_overwrite: only the missing keys come back.
Restore(now, snapshot) ==
    [p \in Paths |-> IF now[p] = 0 THEN snapshot[p] ELSE now[p]]

Idle == [phase |-> "idle", base |-> 1, files |-> None, flush |-> FALSE]

\* Commits that do not wait for each other (mutant).
NeverInProgress == FALSE

InProgress == commit.phase # "idle"     \* _commit_in_progress

Request == [base : Nat, files : Files]

TypeOK ==
    /\ log \in Seq(Tree) /\ log # << >>
    /\ base \in 1..HEAD
    /\ pending \in Files
    /\ commit \in [phase : {"idle", "sent", "applied", "error"},
                   base : 1..HEAD, files : Files, flush : BOOLEAN]
    /\ commit.phase = "applied" => commit.base < HEAD
    /\ late \subseteq [base : 1..HEAD, files : Files]
    /\ answer \in [Coroutines -> 0..HEAD]
    /\ queued \in Files
    /\ prefixes \subseteq Files
    /\ mark \in Files
    /\ foreign \in 0..MaxForeign
    /\ faults \in 0..MaxFaults

Init ==
    /\ log = << [p \in Paths |-> [by |-> "other", n |-> 0]] >>
    /\ base = 1
    /\ pending = None
    /\ commit = Idle
    /\ late = {}
    /\ answer = [w \in Coroutines |-> 0]
    /\ queued = None
    /\ prefixes = {None}
    /\ mark = None
    /\ foreign = 0
    /\ faults = 0

-----------------------------------------------------------------------------
(***************************************************************************)
(* The process.  Any coroutine that is not itself awaiting a commit may     *)
(* take these steps; with two or more of them there is always one.          *)
(***************************************************************************)

\* _commit() up to its first await: swap the queue out and send the request.
StartCommit(files, isFlush) ==
    /\ ~InProgress
    /\ commit' = [phase |-> "sent", base |-> base, files |-> files,
                  flush |-> isFlush]
    /\ pending' = None

\* write() / write_many(): queue the contents, then _maybe_commit(), which
\* commits when none is in progress and the interval has elapsed.
WriteMany(P) ==
    /\ P # {}
    /\ \A p \in P : queued[p] < MaxWrites
    /\ queued' = [p \in Paths |-> IF p \in P THEN queued[p] + 1 ELSE queued[p]]
    /\ prefixes' = prefixes \cup {queued'}
    /\ LET files == [p \in Paths |-> IF p \in P THEN queued[p] + 1
                                                ELSE pending[p]]
       IN  \/ pending' = files /\ UNCHANGED commit
           \/ StartCommit(files, FALSE)
    /\ UNCHANGED <<log, base, late, answer, mark, foreign, faults>>

\* flush() with something pending and no commit in progress commits it.  The
\* other cases change nothing: True at once when nothing is pending, False when
\* a commit is in progress.
Flush ==
    /\ pending # None
    /\ StartCommit(pending, TRUE)
    /\ UNCHANGED <<log, base, late, answer, queued, prefixes, mark, foreign, faults>>

\* commit_files() returned: base_sha is the new commit.  A flush that waited
\* for it returns True if nothing has been queued meanwhile.
CommitSucceeds ==
    /\ commit.phase = "applied"
    /\ base' = commit.base + 1
    /\ commit' = Idle
    /\ UNCHANGED <<log, pending, late, answer, queued, prefixes, mark, foreign, faults>>

\* A failure that keeps the old base_sha (mutant).
CommitFailsStale ==
    /\ commit.phase = "error"
    /\ pending' = Restore(pending, commit.files)
    /\ commit' = Idle
    /\ UNCHANGED <<log, base, late, answer, queued, prefixes, mark, foreign, faults>>

\* The except branch: base_sha := HEAD, unless that request fails too, then
\* the snapshot is put back under what was queued meanwhile.
CommitFails ==
    /\ commit.phase = "error"
    /\ \/ base' = HEAD /\ UNCHANGED faults
       \/ faults < MaxFaults /\ faults' = faults + 1 /\ UNCHANGED base
    /\ pending' = Restore(pending, commit.files)
    /\ commit' = Idle
    /\ UNCHANGED <<log, late, answer, queued, prefixes, mark, foreign>>

\* refresh_base_sha(): read HEAD, then assign it.
RefreshRead(w) ==
    /\ answer[w] = 0
    /\ answer' = [answer EXCEPT ![w] = HEAD]
    /\ UNCHANGED <<log, base, pending, commit, late, queued, prefixes, mark, foreign, faults>>

RefreshAssign(w) ==
    /\ answer[w] # 0
    /\ base' = answer[w]
    /\ answer' = [answer EXCEPT ![w] = 0]
    /\ UNCHANGED <<log, pending, commit, late, queued, prefixes, mark, foreign, faults>>

(***************************************************************************)
(* GitHub.  commit_files() builds on the tree of base_sha and updates the   *)
(* ref without force: it is refused unless base_sha still is HEAD.          *)
(***************************************************************************)

\* The own contents on the branch once files are committed.
NewMark(files) == [p \in Paths |-> IF files[p] = 0 THEN mark[p] ELSE files[p]]

\* _update_ref with force = False: only a fast-forward moves the branch.
FastForward(request) ==
    /\ request.base = HEAD
    /\ log' = Append(log, Overlay(log[request.base], request.files))
    /\ mark' = NewMark(request.files)

Accept ==
    /\ commit.phase = "sent"
    /\ FastForward(commit)
    /\ commit' = [commit EXCEPT !.phase = "applied"]
    /\ UNCHANGED <<base, pending, late, answer, queued, prefixes, foreign, faults>>

Refuse ==
    /\ commit.phase = "sent"
    /\ commit.base # HEAD
    /\ commit' = [commit EXCEPT !.phase = "error"]
    /\ UNCHANGED <<log, base, pending, late, answer, queued, prefixes, mark, foreign, faults>>

\* A request of the commit fails; the ref update may still be under way.
RequestFails ==
    /\ commit.phase = "sent"
    /\ faults < MaxFaults
    /\ faults' = faults + 1
    /\ commit' = [commit EXCEPT !.phase = "error"]
    /\ \/ late' = late \cup {[base |-> commit.base, files |-> commit.files]}
       \/ UNCHANGED late
    /\ UNCHANGED <<log, base, pending, answer, queued, prefixes, mark, foreign>>

\* The branch has moved but the reply does not arrive.
ReplyLost ==
    /\ commit.phase = "applied"
    /\ faults < MaxFaults
    /\ faults' = faults + 1
    /\ commit' = [commit EXCEPT !.phase = "error"]
    /\ UNCHANGED <<log, base, pending, late, answer, queued, prefixes, mark, foreign>>

LateArrival(request) ==
    /\ FastForward(request)
    /\ late' = late \ {request}
    /\ UNCHANGED <<base, pending, commit, answer, queued, prefixes, foreign, faults>>

\* Another committer changes one file on top of HEAD.
ForeignCommit(p) ==
    /\ foreign < MaxForeign
    /\ foreign' = foreign + 1
    /\ log' = Append(log, [log[HEAD] EXCEPT
                              ![p] = [by |-> "other", n |-> foreign + 1]])
    /\ UNCHANGED <<base, pending, commit, late, answer, queued, prefixes, mark,
                   faults>>

-----------------------------------------------------------------------------
Write == \E P \in SUBSET Paths : WriteMany(P)

Next ==
    \/ Write
    \/ Flush
    \/ CommitSucceeds
    \/ CommitFails
    \/ \E w \in Coroutines : RefreshRead(w) \/ RefreshAssign(w)
    \/ Accept
    \/ Refuse
    \/ RequestFails
    \/ ReplyLost
    \/ \E request \in late : LateArrival(request)
    \/ \E p \in Paths : ForeignCommit(p)

Spec == Init /\ [][Next]_vars

(***************************************************************************)
(* A request ends in a reply or an exception (the HTTP client times out), a *)
(* coroutine that got an answer goes on, and the callers go on flushing     *)
(* what is pending: the judge does at each turn of its loop.  The fairness  *)
(* of Flush is strong: a write's own commit disables it for a while.        *)
(***************************************************************************)
Fairness ==
    /\ SF_vars(Flush)
    /\ WF_vars(Accept \/ Refuse \/ CommitSucceeds \/ CommitFails)
    /\ \A w \in Coroutines : WF_vars(RefreshAssign(w))

FairSpec == Spec /\ Fairness

-----------------------------------------------------------------------------
(***************************************************************************)
(* Properties                                                              *)
(***************************************************************************)

\* What is queued for a path is always the last thing written to it: putting a
\* failed snapshot back never hides a newer write
\* (_restore_pending_without_overwrite).
PendingIsNewest == \A p \in Paths : pending[p] # 0 => pending[p] = queued[p]

\* The newest write to a path is queued, in the commit under way, or on the
\* branch: no failure, conflict or lost reply drops it.
NoWriteLost ==
    \A p \in Paths : queued[p] # 0 =>
        \/ pending[p] = queued[p]
        \/ commit.files[p] = queued[p]
        \/ mark[p] = queued[p]

\* A commit of the batcher never undoes another committer's change to a file
\* the batcher has not written (update_ref with force = False).
ForeignFilesKept ==
    \A p \in Paths : queued[p] = 0 =>
        \A i \in 1..HEAD : log[i][p].n <= log[HEAD][p].n

AllCommitted == mark = queued

\* When flush() commits and returns True (nothing is pending after its commit),
\* everything queued until that moment is on the branch.
FlushedIsCommitted ==
    [][CommitSucceeds /\ commit.flush /\ pending = None => AllCommitted]_vars

\* The branch always shows a prefix of the writes, in the order the process made
\* them (WriteBehind), so state.json never appears before the winner.json that
\* was queued first.
Promise == INSTANCE WriteBehind WITH accepted <- queued, branch <- log[HEAD]
ShowsPrefixOfWrites == Promise!Spec

\* Every queued write reaches the branch, or gives way to a newer one that does.
EventuallyCommitted ==
    \A p \in Paths : \A k \in 1..MaxWrites :
        (queued[p] >= k) ~> (mark[p] >= k)
=============================================================================
