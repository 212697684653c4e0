----------------------------- MODULE PodClient -----------------------------
(***************************************************************************)
(* How the witness SDK gets a Pod and keeps it (ensure_pod and replace_pod   *)
(* of async_pods.py; ensure_pod of pods.py, which has no replacement) for    *)
(* the calls that share one client, and what the gateway answers it          *)
(* (server.py's routes over the queue of Allocation).  One miner, one round. *)
(***************************************************************************)
EXTENDS Naturals, Sequences, FiniteSets

CONSTANTS
    PodCalls,    \* operations that need the Pod
    MaxEntries,  \* bound: starts that become queue entries
    MaxReplaces, \* bound: replacements asked for
    MaxLate      \* bound: POSTs given up by the client that arrive later

\* A start id is a fresh one <<n>>, or the uuid5 of the one that it replaces.
NoStart == <<>>
Intent(x) == [id |-> Append(x, 0), replaces |-> x]
NoRequest == [id |-> NoStart, replaces |-> NoStart]
NoSession == [id |-> NoStart, replaces |-> NoStart, phase |-> "none"]
NoEntry == [id |-> NoStart, replaces |-> NoStart, phase |-> "none"]

VARIABLES
    async,       \* which of the two clients this is
    entry,       \* the gateway's queue entry, if any, and what came of it so far
    known,       \* start ids it has recorded, with the entry that each one joined
    pods,        \* the Pods in its inventory, by start id: phase and predecessor
    last,        \* the last start submitted
    entries, late,
    start,       \* _start_id
    connected,   \* _direct is set and its access not expired
    request,     \* _allocation_request
    generation,  \* _replacement_generation
    pending,     \* _replacement_pending
    replaced,    \* _replacement_pod
    fresh,       \* uuid4s drawn
    lock, place, kind, saw, reply, retiring,
    given,       \* the start id that each call returned
    asked        \* history: the starts that replace_pod() asked to replace

gateway == <<entry, known, pods, last, entries>>
client == <<start, connected, request, generation, pending, replaced, fresh, asked>>
podLocal == <<kind, saw, retiring, given>>
podVars == <<async, gateway, late, client, lock, place, reply, podLocal>>

Live == DOMAIN pods
Pending == entry.id # NoStart

PodInit ==
    /\ async \in BOOLEAN
    /\ entry = NoEntry
    /\ known = <<>> /\ pods = <<>> /\ last = NoStart /\ entries = 0 /\ late = {}
    /\ start = NoStart /\ connected = FALSE /\ request = NoRequest
    /\ generation = 0 /\ pending = FALSE /\ replaced = NoStart /\ fresh = 0
    /\ lock = {} /\ place = [c \in PodCalls |-> "idle"]
    /\ kind = [c \in PodCalls |-> "ensure"]
    /\ saw = [c \in PodCalls |-> [start |-> NoStart, generation |-> 0]]
    /\ reply = [c \in PodCalls |-> NoSession]
    /\ retiring = [c \in PodCalls |-> NoStart]
    /\ given = [c \in PodCalls |-> NoStart] /\ asked = {}

PodTypeOK ==
    /\ {lock} \subseteq {{}} \cup {{c} : c \in PodCalls}
    /\ \A c \in PodCalls : /\ (lock = {c}) = (place[c] \in {"look", "decide", "post", "settle", "poll"})
                          /\ reply[c].phase \in {"none", "waiting", "allocated", "retiring", "gone"}
    /\ \A x \in Live : pods[x].phase \in {"allocated", "retiring"}

-----------------------------------------------------------------------------
(***************************************************************************)
(* The gateway.                                                            *)
(***************************************************************************)
View(x) == [id |-> x, replaces |-> pods[x].replaces, phase |-> pods[x].phase]
Gone(x) == [id |-> x, replaces |-> NoStart, phase |-> "gone"]

\* A pending entry, whose outcome is shown before the entry is completed.
Turn(e) ==
    CASE e.phase = "rejected" -> Gone(e.id)
      [] e.phase = "allocated" -> [id |-> e.id, replaces |-> e.replaces, phase |-> "allocated"]
      [] OTHER -> [id |-> e.id, replaces |-> e.replaces, phase |-> "waiting"]

\* GET /v1/pods/current.
Cached ==
    IF Pending THEN Turn(entry)
    ELSE IF Live # {} THEN View(CHOOSE x \in Live : TRUE)
    ELSE IF last # NoStart THEN Gone(last) ELSE NoSession

\* GET /v1/pods/{start_id}.
Session(x) ==
    IF Pending /\ entry.id = x THEN Turn(entry)
    ELSE IF x \in Live THEN View(x)
    ELSE IF known[x] \in Live THEN View(known[x]) ELSE Gone(known[x])

Added(f, x, v) == [y \in DOMAIN f \cup {x} |-> IF y \in DOMAIN f THEN f[y] ELSE v]

\* POST /v1/pods/start: it joins the pending entry, or the one that it was before.
Enqueue(r) ==
    /\ UNCHANGED <<pods, last>>
    /\ IF Pending
       THEN known' = Added(known, r.id, entry.id) /\ UNCHANGED <<entry, entries>>
       ELSE IF r.id \in DOMAIN known THEN UNCHANGED <<entry, known, entries>>
       ELSE /\ entries < MaxEntries
            /\ entries' = entries + 1
            /\ entry' = [id |-> r.id, replaces |-> r.replaces, phase |-> "queued"]
            /\ known' = Added(known, r.id, r.id)

StartReply(r) == IF entry'.id # NoStart THEN Turn(entry') ELSE Session(r.id)

Drop(x) == [y \in Live \ {x} |-> pods[y]]
Others == UNCHANGED <<async, late, client, lock, place, reply, podLocal>>

\* The entry's turn: the miner's Pods are terminated, whatever their health.
Terminate ==
    /\ entry.phase = "queued"
    /\ \E x \in Live : \/ pods[x].phase = "allocated" /\ pods' = [pods EXCEPT ![x].phase = "retiring"]
                       \/ pods[x].phase = "retiring" /\ pods' = Drop(x)
    /\ UNCHANGED <<entry, known, last, entries>> /\ Others

\* The entry is submitted while the miner's Pod is there (mutant).
SubmitBeside ==
    /\ entry.phase = "queued"
    /\ entry' = [entry EXCEPT !.phase = "creating"] /\ last' = entry.id
    /\ UNCHANGED <<known, pods, entries>> /\ Others

Submit ==
    /\ entry.phase = "queued" /\ Live = {}
    /\ entry' = [entry EXCEPT !.phase = "creating"] /\ last' = entry.id
    /\ UNCHANGED <<known, pods, entries>> /\ Others

\* The Pod is active, or its create was rejected.
Created ==
    /\ entry.phase = "creating"
    /\ \/ /\ entry' = [entry EXCEPT !.phase = "allocated"]
          /\ pods' = Added(pods, entry.id, [phase |-> "allocated", replaces |-> entry.replaces])
       \/ entry' = [entry EXCEPT !.phase = "rejected"] /\ UNCHANGED pods
    /\ UNCHANGED <<known, last, entries>> /\ Others

\* The journal is written, and the entry is no longer pending.
Completed ==
    /\ entry.phase \in {"allocated", "rejected"} /\ entry' = NoEntry
    /\ UNCHANGED <<known, pods, last, entries>> /\ Others

\* The miner's hotkey is no longer registered.
Cancelled ==
    /\ entry.phase = "queued"
    /\ entry' = NoEntry
    /\ UNCHANGED <<known, pods, last, entries>> /\ Others

\* A Pod is retired for a reason of the gateway's own, or is lost.
Ends(x) ==
    /\ \/ pods[x].phase = "allocated" /\ ~Pending /\ pods' = [pods EXCEPT ![x].phase = "retiring"]
       \/ pods' = Drop(x)
    /\ UNCHANGED <<entry, known, last, entries>> /\ Others

\* A POST that its sender gave up arrives.
Arrive(r) ==
    /\ late' = late \ {r}
    /\ Enqueue(r)
    /\ UNCHANGED <<async, client, lock, place, reply, podLocal>>

-----------------------------------------------------------------------------
(***************************************************************************)
(* The client.                                                             *)
(***************************************************************************)
GoTo(c, where) == place' = [place EXCEPT ![c] = where]
Fresh(x) == [id |-> <<fresh + 1>>, replaces |-> x]
Replies(c, s) == reply' = [reply EXCEPT ![c] = s]

\* What is read before the lock is waited for.
Begin(c) ==
    /\ place[c] \in {"idle", "done"} /\ GoTo(c, "lock")
    /\ \E k \in {"ensure", "renew"} \cup IF async /\ generation < MaxReplaces THEN {"replace"} ELSE {} :
          kind' = [kind EXCEPT ![c] = k]
    /\ saw' = [saw EXCEPT ![c] = [start |-> start, generation |-> generation]]
    /\ UNCHANGED <<async, gateway, late, client, lock, reply, retiring, given>>

Replaces(c) == kind[c] = "replace" /\ saw[c].generation = generation

\* The call is over and the lock released; it returns x, or raises.
Leave(c, x) ==
    /\ GoTo(c, "done") /\ lock' = lock \ {c}
    /\ given' = [given EXCEPT ![c] = x]
    /\ reply' = [reply EXCEPT ![c] = NoSession]
    /\ retiring' = [retiring EXCEPT ![c] = NoStart]

Acquire(c) ==
    /\ place[c] = "lock" /\ lock = {}
    /\ IF ~Replaces(c) /\ ~pending /\ connected
       THEN Leave(c, start)
       ELSE lock' = {c} /\ GoTo(c, "look") /\ UNCHANGED <<reply, retiring, given>>
    /\ UNCHANGED <<async, gateway, late, client, kind, saw>>

\* A renewal asks for the Pod it knows, unless that one is gone.
Look(c) ==
    /\ place[c] = "look" /\ GoTo(c, "decide")
    /\ Replies(c, IF kind[c] = "renew" /\ ~pending /\ start # NoStart /\ Session(start).phase # "gone"
                  THEN Session(start) ELSE Cached)
    /\ UNCHANGED <<async, gateway, late, client, lock, podLocal>>

\* The Pod that is there is to be replaced: by this call, which found it assigned,
\* or by one that was interrupted.
ToReplace(c, s) ==
    /\ s.phase = "allocated"
    /\ IF pending THEN request # NoRequest /\ s.id = request.replaces
       ELSE Replaces(c) /\ saw[c].start \in {NoStart, s.id}

\* Every request has a start id of its own (mutant).
AlwaysNew(s, new) == new

\* The request that was made before is made again, until it was answered for.
SameRequest(s, new) == IF request = NoRequest \/ s.id = request.id THEN new ELSE request

Ask(c, r) ==
    /\ request' = r /\ GoTo(c, "post")
    /\ fresh' = IF r = Fresh(r.replaces) THEN fresh + 1 ELSE fresh

Decide(c) ==
    LET s == reply[c]
        again == IF Replaces(c) THEN Intent(s.id) ELSE Fresh(s.id)
    IN /\ async /\ place[c] = "decide"
       /\ generation' = IF Replaces(c) THEN generation + 1 ELSE generation
       /\ pending' = (pending \/ Replaces(c))
       /\ connected' = (connected /\ ~Replaces(c) /\ ~ToReplace(c, s))
       /\ IF ToReplace(c, s)
          THEN /\ Ask(c, IF request.replaces # s.id THEN Intent(s.id) ELSE request)
               /\ replaced' = s.id /\ asked' = asked \cup {s.id}
          ELSE /\ IF s.phase \in {"none", "gone"}
                  THEN Ask(c, SameRequest(s, again))
                  ELSE GoTo(c, "settle") /\ UNCHANGED <<request, fresh>>
               /\ UNCHANGED <<replaced, asked>>
       /\ UNCHANGED <<async, gateway, late, start, lock, reply, podLocal>>

\* The synchronous client waits for a retirement first, and looks again, now at
\* what is current.
DecideSync(c) ==
    LET s == reply[c]
    IN /\ ~async /\ place[c] = "decide"
       /\ CASE s.phase = "retiring" ->
                 /\ GoTo(c, "look")
                 /\ request' = IF request.id = s.id THEN NoRequest ELSE request
                 /\ kind' = [kind EXCEPT ![c] = "ensure"]
                 /\ UNCHANGED fresh
            [] s.phase \in {"none", "gone"} ->
                 /\ Ask(c, SameRequest(s, Fresh(s.id)))
                 /\ UNCHANGED kind
            [] OTHER -> GoTo(c, "settle") /\ UNCHANGED <<request, kind, fresh>>
       /\ UNCHANGED <<async, gateway, late, start, connected, generation, pending, replaced, asked,
                      lock, reply, saw, retiring, given>>

\* The start request; its reply may be lost, and the request may be late.
Post(c) ==
    /\ place[c] = "post"
    /\ \/ /\ Enqueue(request) /\ UNCHANGED late
          /\ \/ Replies(c, StartReply(request)) /\ GoTo(c, "settle")
             \/ UNCHANGED <<reply, place>>
       \/ /\ Cardinality(late \cup {request}) <= MaxLate /\ late' = late \cup {request}
          /\ UNCHANGED <<gateway, reply, place>>
    /\ UNCHANGED <<async, client, lock, podLocal>>

Accept(s) == request' = [id |-> s.id, replaces |-> s.replaces]

\* A Pod with an endpoint is attached, unless it is the one being replaced.
Attach(c, s) ==
    /\ s.phase = "allocated"
    /\ Accept(s) /\ start' = s.id
    /\ IF s.id = replaced
       THEN /\ connected' = FALSE /\ Leave(c, NoStart)
            /\ UNCHANGED <<pending, replaced>>
       ELSE /\ connected' = TRUE /\ Leave(c, s.id)
            /\ pending' = FALSE /\ replaced' = NoStart
    /\ UNCHANGED fresh

\* The retirement that was waited for is over.
Retired(c, s) == retiring[c] # NoStart /\ (s.phase = "none" \/ (s.id = retiring[c] /\ s.phase = "gone"))

Settle(c) ==
    LET s == reply[c]
    IN /\ place[c] = "settle"
       /\ \/ /\ Retired(c, s)
             /\ Ask(c, IF async THEN Intent(retiring[c]) ELSE Fresh(retiring[c]))
             /\ retiring' = [retiring EXCEPT ![c] = NoStart]
             /\ UNCHANGED <<start, connected, pending, replaced, lock, reply, given>>
          \/ /\ ~Retired(c, s) /\ s.phase \in {"none", "gone"} /\ Leave(c, NoStart)
             /\ UNCHANGED <<start, connected, request, pending, replaced, fresh>>
          \/ Attach(c, s)
          \/ /\ s.phase \in {"waiting", "allocated", "retiring"}
             /\ retiring' = [retiring EXCEPT ![c] =
                   IF s.phase = "retiring" /\ (pending \/ ~async) THEN s.id
                   ELSE IF ~async /\ s.id # @ THEN NoStart ELSE @]
             /\ Accept(s) /\ GoTo(c, "poll")
             /\ UNCHANGED <<start, connected, pending, replaced, fresh, lock, reply, given>>
       /\ UNCHANGED <<async, gateway, late, generation, asked, kind, saw>>

PollPod(c) ==
    /\ place[c] = "poll" /\ GoTo(c, "settle")
    /\ Replies(c, IF retiring[c] # NoStart THEN Cached ELSE Session(reply[c].id))
    /\ UNCHANGED <<async, gateway, late, client, lock, podLocal>>

\* The deadline, a cancellation or an error of a request; the lock is released.
Fail(c) ==
    /\ place[c] \in {"lock", "look", "post", "poll"}
    /\ Leave(c, NoStart)
    /\ UNCHANGED <<async, gateway, late, client, kind, saw>>

\* The access runs out, or the Pod refused a request or could not be reached.
Invalidate ==
    /\ connected /\ connected' = FALSE
    /\ UNCHANGED <<async, gateway, late, start, request, generation, pending, replaced, fresh, asked,
                   lock, place, reply, podLocal>>

-----------------------------------------------------------------------------
PodStep(c) ==
    \/ Begin(c) \/ Acquire(c) \/ Look(c) \/ Decide(c) \/ DecideSync(c) \/ Post(c)
    \/ Settle(c) \/ PollPod(c)

Gateway ==
    \/ Terminate \/ Submit \/ Created \/ Completed \/ Cancelled
    \/ \E x \in Live : Ends(x)
    \/ \E r \in late : Arrive(r)

PodNext == Gateway \/ Invalidate \/ \E c \in PodCalls : PodStep(c) \/ Fail(c)

PodSpec == PodInit /\ [][PodNext]_podVars

-----------------------------------------------------------------------------
\* "Delivery retries join the same allocation" (witness-gateway/PODS.md:355): an
\* entry's turn ends whatever Pod is there, so that none may be in the queue while
\* the miner's Pod is allocated, as long as no Pod was asked to be replaced; over
\* lost replies, requests that arrive after they were given up, cancelled calls
\* and the calls that resume them (async_pods.py:332-380, pods.py:160-200).
RetriesJoin ==
    asked = {} => ~(Pending /\ \E x \in Live \ {entry.id} : pods[x].phase = "allocated")

\* "After cancellation or an unresolved readiness wait, the next witness operation
\* resumes the allocation" (witness-client/README.md:182): then no entry would be in
\* the queue beside an allocated Pod but for the one that is to be replaced.  It does
\* not hold: a call that finds a retirement forgets the request that replaces it
\* (async_pods.py:399-405), which may still be on its way.
ReplacementResumes ==
    \A x \in Live \ {entry.id} : Pending /\ pods[x].phase = "allocated" => x \in asked

\* No operation is given an allocation after its replacement was asked for,
\* whichever call asked and whether it was interrupted (async_pods.py:344-362,
\* 399-406; witness-client/README.md:165-187).
ReplacementIsNew ==
    [][\A c \in PodCalls : place'[c] = "done" /\ place[c] # "done" => given'[c] \notin asked]_podVars
=============================================================================
