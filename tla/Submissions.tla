---------------------------- MODULE Submissions ----------------------------
(***************************************************************************)
(* A miner's final results: the batch runner that generates one for each     *)
(* prompt (batch.py), the Pods that save them (save_choice of direct.py,      *)
(* results.py) and their index in R2 (artifacts.py), under the leases of      *)
(* RoundPolicy.  The gateway may select another Pod while the first one is    *)
(* still saving; any Pod may crash.  A result's files are not modelled.      *)
(***************************************************************************)
EXTENDS RoundPolicy

CONSTANTS
    Prompts,
    Attempts,       \* passes of the batch over what remains
    QueueCapacity,  \* SAVE_QUEUE_CAPACITY
    MaxSubmits      \* bound: submissions; later ones fail before they are sent

\* What a generation returns: nothing, or a source, different in every pass.
ASSUME SubmissionsAssumption ==
    Attempts \in Nat \ {0} /\ {QueueCapacity, MaxSubmits} \subseteq Nat

NoSource == 0
Sources == 0..Attempts
NoSnapshot == [etag |-> 0, results |-> <<>>]
NoPrompt == "none"
NoSave == [prompt |-> NoPrompt, source |-> NoSource, n |-> 0, step |-> "none", kind |-> "none"]

VARIABLES
    selected,       \* the Pod that the selection record names
    gone,           \* Pods that crashed
    index,          \* submitted.json with its etag
    snapshot,       \* _saved of each Pod
    queue,          \* the requests that wait for the save lock of each Pod
    saving,         \* the one that has it
    attempt,        \* pass of the batch
    remaining,
    todo,           \* prompts the pass has to do
    waiting,        \* prompts whose submission is with a Pod, and its number
    submits

pods == <<selected, gone>>
batch == <<attempt, remaining, todo, submits>>
saveVars == <<pods, index, snapshot, queue, saving, batch, waiting>>
vars == <<policyVars, saveVars>>
quiet == <<time, commits, gateway, frozen, lease>>

Kinds == {"generation_failed", "render_rejected", "views"}
Results == [source : Sources, kind : Kinds, inputs : Inputs]
Requests == [prompt : Prompts, source : Sources, n : 1..MaxSubmits]
Saves == [prompt : Prompts, source : Sources, n : 1..MaxSubmits, kind : Kinds \cup {"none"},
          step : {"admit", "render", "embed", "load", "save"}]

\* The saved results of some prompts.
IsIndex(x) == \E D \in SUBSET Prompts : x \in [etag : Nat, results : [D -> Results]]

TypeOK ==
    /\ PolicyTypeOK
    /\ selected \in Pods /\ gone \subseteq Pods
    /\ IsIndex(index)
    /\ DOMAIN snapshot = Pods /\ \A p \in Pods : IsIndex(snapshot[p])
    /\ queue \in [Pods -> Seq(Requests)] /\ saving \in [Pods -> Saves \cup {NoSave}]
    /\ \A p \in Pods : saving[p].step \in {"load", "save"} => saving[p].kind \in Kinds
    /\ attempt \in 1..Attempts /\ remaining \subseteq Prompts /\ todo \subseteq remaining
    /\ \E D \in SUBSET (remaining \ todo) : waiting \in [D -> 1..MaxSubmits]
    /\ submits \in 0..MaxSubmits

Init ==
    /\ PolicyInit
    /\ selected = 1 /\ gone = {}
    /\ index = NoSnapshot
    /\ snapshot = [p \in Pods |-> NoSnapshot]
    /\ queue = [p \in Pods |-> <<>>] /\ saving = [p \in Pods |-> NoSave]
    /\ attempt = 1 /\ remaining = Prompts /\ todo = Prompts
    /\ waiting = <<>> /\ submits = 0

Runs(p) == frozen[p] # NoInputs /\ p \notin gone

\* The prompts that the index has a result for.
Saved == DOMAIN index.results

-----------------------------------------------------------------------------
(***************************************************************************)
(* The gateway's and the cloud's part.                                     *)
(***************************************************************************)
\* A replacement is created with the gateway's current inputs and selected; the
\* Pod that it replaces only drains.
Replace ==
    /\ MayCreate
    /\ \E p \in Pods : /\ frozen[p] = NoInputs /\ p = selected + 1
                       /\ frozen' = [frozen EXCEPT ![p] = inputs]
                       /\ selected' = p
    /\ UNCHANGED <<time, commits, faults, gateway, lease, gone, index, snapshot, queue, saving,
                   batch, waiting>>

\* The Pod's requests end with its connections.
Crash(p) ==
    /\ Runs(p) /\ Fault
    /\ gone' = gone \cup {p}
    /\ queue' = [queue EXCEPT ![p] = <<>>] /\ saving' = [saving EXCEPT ![p] = NoSave]
    /\ snapshot' = [snapshot EXCEPT ![p] = NoSnapshot]
    /\ LET lost == {saving[p].n} \cup {queue[p][i].n : i \in DOMAIN queue[p]}
       IN  waiting' = [q \in {w \in DOMAIN waiting : waiting[w] \notin lost} |-> waiting[q]]
    /\ UNCHANGED <<quiet, selected, index, batch>>

-----------------------------------------------------------------------------
(***************************************************************************)
(* The batch.                                                              *)
(***************************************************************************)
Idle == attempt <= Attempts /\ todo = {} /\ DOMAIN waiting = {}
Over == remaining = {} \/ attempt = Attempts

\* What is saved already is done.
Lookup ==
    /\ \E p \in Pods : Runs(p)
    /\ remaining' = remaining \ Saved
    /\ todo' = remaining' /\ UNCHANGED faults

\* A new pass begins with the lookup; when that fails, so does the pass.
NextPass ==
    /\ Idle /\ ~Over
    /\ attempt' = attempt + 1
    /\ \/ Lookup
       \/ Fault /\ UNCHANGED <<remaining, todo>>
    /\ UNCHANGED <<quiet, pods, index, snapshot, queue, saving, waiting, submits>>

\* The save queue's limit, with the save that is running.
Full(p) == Len(queue[p]) + (IF saving[p] = NoSave THEN 0 ELSE 1) > QueueCapacity

\* A worker takes a prompt, generates, and submits to the Pod it knows: the one
\* selected now or one that was.  A full queue refuses it.
Submit(q, p) ==
    /\ q \in todo /\ Runs(p) /\ p <= selected
    /\ submits < MaxSubmits
    /\ todo' = todo \ {q} /\ submits' = submits + 1
    /\ IF Full(p)
       THEN UNCHANGED <<queue, waiting>>
       ELSE /\ \E s \in {NoSource, attempt} :
                  queue' = [queue EXCEPT ![p] = Append(@,
                                 [prompt |-> q, source |-> s, n |-> submits + 1])]
            /\ waiting' = [w \in DOMAIN waiting \cup {q} |->
                              IF w = q THEN submits + 1 ELSE waiting[w]]
    /\ UNCHANGED <<policyVars, pods, index, snapshot, saving, attempt, remaining>>

\* The generation raises, or the submission is never sent.
GenerateFails(q) ==
    /\ q \in todo /\ Fault
    /\ todo' = todo \ {q}
    /\ UNCHANGED <<quiet, pods, index, snapshot, queue, saving,
                   attempt, remaining, waiting, submits>>

\* submit() loses its connection; the Pod goes on (aiohttp does not cancel it).
LoseReply(q) ==
    /\ q \in DOMAIN waiting /\ Fault
    /\ waiting' = [w \in DOMAIN waiting \ {q} |-> waiting[w]]
    /\ UNCHANGED <<quiet, pods, index, snapshot, queue, saving, batch>>

-----------------------------------------------------------------------------
(***************************************************************************)
(* The Pod: one save at a time.                                            *)
(***************************************************************************)
\* Any reply taken for success (mutant).
AnyReply(saved) == saved \in BOOLEAN

\* _submission_result(): only a reply that is a success has a saved result.
Accepted(saved) == saved

\* The reply that ends a save, and the lock with it.  The batch's worker drops
\* the prompt when the reply is a saved result and it still waits for it.
Reply(p, r, saved) ==
    LET q == r.prompt
        heard == q \in DOMAIN waiting /\ waiting[q] = r.n
    IN  /\ saving' = [saving EXCEPT ![p] = NoSave]
        /\ waiting' = [w \in DOMAIN waiting \ (IF heard THEN {q} ELSE {}) |-> waiting[w]]
        /\ remaining' = remaining \ (IF heard /\ Accepted(saved) THEN {q} ELSE {})
        /\ UNCHANGED <<attempt, todo, submits>>

At(p, step) == saving[p].step = step
Goto(p, step, kind) ==
    /\ saving' = [saving EXCEPT ![p].step = step, ![p].kind = kind]
    /\ UNCHANGED <<batch, waiting>>

SameOutput(r) == index.results[r.prompt].source = r.source

\* When the lock is free: the same output again is answered with what is saved,
\* another one with a conflict.
Look(p) ==
    /\ At(p, "none") /\ queue[p] # <<>>
    /\ LET r == Head(queue[p])
           s == [prompt |-> r.prompt, source |-> r.source, n |-> r.n, step |-> "admit",
                 kind |-> "none"]
       IN  IF r.prompt \in Saved
           THEN Reply(p, r, SameOutput(r))
           ELSE /\ saving' = [saving EXCEPT ![p] = s]
                /\ UNCHANGED <<batch, waiting>>
    /\ queue' = [queue EXCEPT ![p] = Tail(@)]
    /\ UNCHANGED <<policyVars, pods, index, snapshot>>

\* _admit_artifact(): selected and permitted now; never asked again.
Admit(p) ==
    /\ At(p, "admit")
    /\ IF selected = p /\ CanGenerate(p)
       THEN IF saving[p].source = NoSource THEN Goto(p, "load", "generation_failed")
                                           ELSE Goto(p, "render", "none")
       ELSE Reply(p, saving[p], FALSE)
    /\ UNCHANGED <<policyVars, pods, queue, index, snapshot>>

\* One request to the renderer, sent once: its images, a rejection of the source
\* (422), or an error of the service or in its reply.
Outcomes == {"views", "render_rejected", "error"}

\* ResultSaver.save(): all views are rendered and stored, or the first rejection
\* is the result, or the first error ends the save without one.
Render(p) ==
    /\ At(p, "render")
    /\ \E o \in Outcomes :
          CASE o = "views" -> Goto(p, "embed", "none")
            [] o = "render_rejected" -> Goto(p, "load", o)
            [] o = "error" -> Reply(p, saving[p], FALSE)
    /\ UNCHANGED <<policyVars, pods, queue, index, snapshot>>

\* The embeddings of the prompt's image and the white views, one for each, are
\* stored before the result is.
Embed(p) ==
    /\ At(p, "embed")
    /\ Goto(p, "load", "views") \/ Reply(p, saving[p], FALSE)
    /\ UNCHANGED <<policyVars, pods, queue, index, snapshot>>

\* update_result() begins with the snapshot of the Pod's last save, or the index.
Load(p) ==
    /\ At(p, "load")
    /\ snapshot' = [snapshot EXCEPT ![p] = IF @ = NoSnapshot THEN index ELSE @]
    /\ Goto(p, "save", saving[p].kind)
    /\ UNCHANGED <<policyVars, pods, queue, index>>

Added(p) ==
    LET q == saving[p].prompt
        r == [source |-> saving[p].source, kind |-> saving[p].kind, inputs |-> frozen[p]]
    IN  [etag |-> index.etag + 1,
         results |-> [w \in DOMAIN snapshot[p].results \cup {q} |->
                         IF w = q THEN r ELSE snapshot[p].results[w]]]

\* A save that does not ask for the entity tag (mutant).
Whenever(p) == p \in Pods

Unchanged(p) == snapshot[p].etag = index.etag

\* It is saved if the index is still the one that was read, else
\* read again.  A rejection is saved and then raised.
Save(p) ==
    /\ At(p, "save")
    /\ IF Unchanged(p)
       THEN /\ index' = Added(p)
            /\ snapshot' = [snapshot EXCEPT ![p] = Added(p)]
            /\ Reply(p, saving[p], saving[p].kind # "render_rejected")
       ELSE /\ snapshot' = [snapshot EXCEPT ![p] = index]
            /\ UNCHANGED <<index, saving, batch, waiting>>
    /\ UNCHANGED <<policyVars, pods, queue>>

\* The storage fails, with the write done or not.
SaveFails(p) ==
    /\ At(p, "save") /\ Fault
    /\ \/ UNCHANGED index
       \/ Unchanged(p) /\ index' = Added(p)
    /\ Reply(p, saving[p], FALSE)
    /\ UNCHANGED <<quiet, pods, queue, snapshot>>

Pod(p) == Look(p) \/ Admit(p) \/ Render(p) \/ Embed(p) \/ Load(p) \/ Save(p) \/ SaveFails(p)

Batch ==
    \/ NextPass
    \/ \E q \in Prompts, p \in Pods : Submit(q, p)
    \/ \E q \in Prompts : GenerateFails(q) \/ LoseReply(q)

Next ==
    \/ PolicyNext /\ UNCHANGED saveVars
    \/ Replace
    \/ \E p \in Pods : Crash(p) \/ Pod(p)
    \/ Batch

Spec == Init /\ [][Next]_vars

-----------------------------------------------------------------------------
(***************************************************************************)
(* Properties.                                                             *)
(***************************************************************************)
\* A prompt that the batch drops has a result in the index: no lost reply, crash,
\* abandoned request or conflict makes it forget one.
DroppedIsSaved == Prompts \ remaining \subseteq Saved

\* A result once saved is never lost to another save, of another prompt or by a
\* Pod with an old copy of the index.
ResultsStay == [][DOMAIN index.results \subseteq DOMAIN index'.results]_vars

\* Every result of the round was made under the same published inputs.
ResultsShareInputs ==
    \A q, r \in DOMAIN index.results : index.results[q].inputs = index.results[r].inputs

\* "Final saves are immutable" (witness-server/worker/README.md): a second Pod
\* replaces the result that the first one saves after it is replaced itself.
FinalSaveStands ==
    [][\A q \in DOMAIN index.results : index'.results[q] = index.results[q]]_vars

=============================================================================
