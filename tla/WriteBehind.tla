---------------------------- MODULE WriteBehind ---------------------------
(***************************************************************************)
(* What GitBatcher promises the services: whatever fails, and whatever      *)
(* others commit, the branch shows the effect of a prefix of the writes     *)
(* the process queued, in the order it queued them, and that prefix never   *)
(* shrinks.  A reader who sees a later write (state.json) therefore also    *)
(* finds the files written before it (winner.json, the match matrix) unless *)
(* another committer has changed them since.                                *)
(***************************************************************************)
EXTENDS Naturals

CONSTANT Paths

VARIABLES
    accepted,   \* number of writes queued per path
    prefixes,   \* the values accepted has had: the prefixes of the history
    mark,       \* the prefix on the branch
    branch      \* the tree of the branch

vars == <<accepted, prefixes, mark, branch>>

Init ==
    /\ accepted = [p \in Paths |-> 0]
    /\ prefixes = {accepted}
    /\ mark = accepted
    /\ branch = [p \in Paths |-> [by |-> "other", n |-> 0]]

\* The process queues a new content for each file of P.
Accept(P) ==
    /\ accepted' = [p \in Paths |-> IF p \in P THEN accepted[p] + 1
                                               ELSE accepted[p]]
    /\ prefixes' = prefixes \cup {accepted'}
    /\ UNCHANGED <<mark, branch>>

\* The branch moves to a prefix f no shorter than the one it shows: it gets the
\* last content of every file changed since, and may get the others again.
Publish(f) ==
    /\ \A p \in Paths : mark[p] <= f[p]
    /\ mark' = f
    /\ \E P \in SUBSET Paths :
        /\ \A p \in Paths : mark[p] # f[p] => p \in P
        /\ branch' = [p \in Paths |-> IF p \in P
                                      THEN [by |-> "self", n |-> f[p]]
                                      ELSE branch[p]]
    /\ UNCHANGED <<accepted, prefixes>>

\* Someone else commits a change to one file.
OtherCommits(p) ==
    /\ branch' = [branch EXCEPT ![p] = branch'[p]]
    /\ branch'[p].by = "other"
    /\ UNCHANGED <<accepted, prefixes, mark>>

Next ==
    \/ \E P \in SUBSET Paths : Accept(P)
    \/ \E f \in prefixes : Publish(f)
    \/ \E p \in Paths : OtherCommits(p)

Spec == Init /\ [][Next]_vars
=============================================================================
