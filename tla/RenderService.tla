--------------------------- MODULE RenderService ---------------------------
(***************************************************************************)
(* The render service (render-service-js): requests are validated by a pool *)
(* of worker threads and rendered in slots that share one browser.  Node    *)
(* runs a callback to its end, so a step is what happens between two waits: *)
(* a message or exit of a worker, a timer, an answer of the browser.        *)
(***************************************************************************)
EXTENDS Naturals, Sequences, FiniteSets

CONSTANTS Requests, Workers, Slots, MaxFailures, None

ASSUME RenderServiceAssumption ==
    /\ IsFiniteSet(Requests) /\ Slots \in Nat \ {0} /\ MaxFailures \in Nat
    /\ None \notin Requests

VARIABLES
    phase,      \* where each request's handler is
    reply,      \* what the service answers
    cancelled,  \* requests whose connection is closed
    worker,     \* live, killed (terminated), failed (error event), replacing, lost
    serving,    \* the request in each worker's _pending
    available,  \* idle workers
    waiting,    \* requests that wait for a worker
    free,       \* slots that are free
    queue,      \* requests that wait for a slot
    browser,    \* how many browsers were launched; the last one is the browser
    connected,  \* it is connected
    launching,  \* requests that wait for ensureBrowser, the abandoned included
    launch,     \* a launch is in progress
    attempt,    \* renderings of the request that have begun
    using,      \* the browser that its attempt uses
    contexts,   \* open contexts: the request and its browser
    failures

pool == <<worker, serving, available, waiting>>
slots == <<free, queue>>
chrome == <<browser, connected, launching, launch>>
attempts == <<attempt, using, contexts>>
serviceVars == <<phase, reply, cancelled, pool, slots, chrome, attempts, failures>>

Waits == {"none", "waiting", "validating", "queued", "slot", "launch", "context",
          "drawn", "broken"}
Replies == {"none", "png", "rejection", "unavailable", "error"}

ServiceTypeOK ==
    /\ phase \in [Requests -> Waits \cup {"done"}]
    /\ reply \in [Requests -> Replies]
    /\ cancelled \subseteq Requests
    /\ worker \in [Workers -> {"live", "killed", "failed", "replacing", "lost"}]
    /\ serving \in [Workers -> Requests \cup {None}]
    /\ available \subseteq Workers
    /\ waiting \in Seq(Requests) /\ queue \in Seq(Requests)
    /\ free \in 0..Slots
    /\ browser \in Nat /\ connected \in BOOLEAN /\ launch \in BOOLEAN
    /\ launching \subseteq Requests
    /\ attempt \in [Requests -> 0..2] /\ using \in [Requests -> Nat]
    /\ contexts \subseteq [request : Requests, browser : Nat]
    /\ failures \in 0..MaxFailures

ServiceInit ==
    /\ phase = [r \in Requests |-> "none"]
    /\ reply = [r \in Requests |-> "none"]
    /\ cancelled = {}
    /\ worker = [w \in Workers |-> "live"]
    /\ serving = [w \in Workers |-> None]
    /\ available = Workers
    /\ waiting = <<>> /\ queue = <<>>
    /\ free = Slots
    /\ browser = 1 /\ connected = TRUE
    /\ launching = {} /\ launch = FALSE
    /\ attempt = [r \in Requests |-> 0]
    /\ using = [r \in Requests |-> 0]
    /\ contexts = {}
    /\ failures = 0

Failure == failures < MaxFailures /\ failures' = failures + 1
Members(s) == {s[i] : i \in DOMAIN s}

-----------------------------------------------------------------------------
(***************************************************************************)
(* Workers.                                                                 *)
(***************************************************************************)
\* What a request's handler becomes when its validation ends with v.
Validated(ph, r, v) ==
    [ph EXCEPT ![r] = IF v # "passed" THEN "done" ELSE IF free > 0 THEN "slot" ELSE "queued"]

\* The caller goes on: to an answer, or to a slot.
SettleRequest(r, v, ph) ==
    /\ phase' = Validated(ph, r, v)
    /\ reply' = IF v = "passed" THEN reply ELSE [reply EXCEPT ![r] = v]
    /\ free' = IF v = "passed" /\ free > 0 THEN free - 1 ELSE free
    /\ queue' = IF v = "passed" /\ free = 0 THEN Append(queue, r) ELSE queue

Usable(st) == {w \in Workers : st[w] \in {"live", "killed"}}
Replacing(st) == {w \in Workers : st[w] = "replacing"}

\* A worker without a request serves the first one that waits.
ReleaseWorker(w) ==
    IF waiting = <<>>
    THEN /\ available' = available \cup {w}
         /\ serving' = [serving EXCEPT ![w] = None]
         /\ UNCHANGED waiting
    ELSE /\ serving' = [serving EXCEPT ![w] = Head(waiting)]
         /\ waiting' = Tail(waiting)
         /\ UNCHANGED available

\* Handlers of the requests once w is free again.
Served(ph) == IF waiting = <<>> THEN ph ELSE [ph EXCEPT ![Head(waiting)] = "validating"]

\* POST /render: the source is read and checked statically, then a worker asked for.
Arrive(r) ==
    /\ phase[r] = "none"
    /\ \/ /\ \E a \in {"rejection", "error"} : reply' = [reply EXCEPT ![r] = a]
          /\ phase' = [phase EXCEPT ![r] = "done"]
          /\ UNCHANGED pool
       \/ /\ Usable(worker) \cup Replacing(worker) = {}
          /\ reply' = [reply EXCEPT ![r] = "unavailable"]
          /\ phase' = [phase EXCEPT ![r] = "done"]
          /\ UNCHANGED pool
       \/ /\ \E w \in available :
               /\ available' = available \ {w}
               /\ serving' = [serving EXCEPT ![w] = r]
          /\ phase' = [phase EXCEPT ![r] = "validating"]
          /\ UNCHANGED <<reply, worker, waiting>>
       \/ /\ available = {} /\ Usable(worker) \cup Replacing(worker) # {}
          /\ waiting' = Append(waiting, r)
          /\ phase' = [phase EXCEPT ![r] = "waiting"]
          /\ UNCHANGED <<reply, worker, serving, available>>
    /\ UNCHANGED <<cancelled, slots, chrome, attempts, failures>>

\* The result of the request that the worker serves.
Result(w) ==
    /\ worker[w] = "live" /\ serving[w] # None
    /\ \E v \in {"passed", "rejection"} : SettleRequest(serving[w], v, Served(phase))
    /\ ReleaseWorker(w)
    /\ UNCHANGED <<cancelled, worker, chrome, attempts, failures>>

\* The request's timer: it is answered, and the worker ends without being
\* given another one.
Timeout(w) ==
    /\ worker[w] = "live" /\ serving[w] # None
    /\ SettleRequest(serving[w], "rejection", phase)
    /\ worker' = [worker EXCEPT ![w] = "killed"]
    /\ serving' = [serving EXCEPT ![w] = None]
    /\ UNCHANGED <<cancelled, available, waiting, chrome, attempts, failures>>

\* _retireWorker: its request is answered with v, it is not available again.
Retire(w, v) ==
    /\ available' = available \ {w}
    /\ serving' = [serving EXCEPT ![w] = None]
    /\ IF serving[w] # None THEN SettleRequest(serving[w], v, phase)
                            ELSE UNCHANGED <<phase, reply, slots>>

\* An error of the worker, its exhausted heap included, or of posting to it.
WorkerError(w) ==
    /\ worker[w] = "live" /\ Failure
    /\ \E v \in {"rejection", "unavailable"} : Retire(w, v)
    /\ worker' = [worker EXCEPT ![w] = "failed"]
    /\ UNCHANGED <<cancelled, waiting, chrome, attempts>>

\* Every exit is followed by a replacement.
Exit(w) ==
    /\ \/ worker[w] \in {"killed", "failed"} /\ UNCHANGED failures
       \/ worker[w] = "live" /\ Failure
    /\ Retire(w, "unavailable")
    /\ worker' = [worker EXCEPT ![w] = "replacing"]
    /\ UNCHANGED <<cancelled, waiting, chrome, attempts>>

Replaced(w) ==
    /\ worker[w] = "replacing"
    /\ worker' = [worker EXCEPT ![w] = "live"]
    /\ phase' = Served(phase)
    /\ ReleaseWorker(w)
    /\ UNCHANGED <<reply, cancelled, slots, chrome, attempts, failures>>

\* When the last replacement fails and nothing is left, nobody waits on.
ReplaceFails(w) ==
    LET left == [worker EXCEPT ![w] = "lost"]
        over == Usable(left) \cup Replacing(left) = {}
    IN /\ worker[w] = "replacing" /\ Failure
       /\ worker' = left
       /\ IF over
          THEN /\ phase' = [r \in Requests |-> IF r \in Members(waiting) THEN "done" ELSE phase[r]]
               /\ reply' = [r \in Requests |-> IF r \in Members(waiting) THEN "unavailable" ELSE reply[r]]
               /\ waiting' = <<>>
          ELSE UNCHANGED <<phase, reply, waiting>>
       /\ UNCHANGED <<cancelled, serving, available, slots, chrome, attempts>>

-----------------------------------------------------------------------------
(***************************************************************************)
(* Slots and the browser.                                                   *)
(***************************************************************************)
\* The slot is not given back (mutant).
FinishKeepsSlot(r, a) ==
    /\ phase' = [phase EXCEPT ![r] = "done"]
    /\ reply' = [reply EXCEPT ![r] = a]
    /\ attempt' = [attempt EXCEPT ![r] = 0] /\ using' = [using EXCEPT ![r] = 0]
    /\ UNCHANGED slots

\* The request ends with answer a, its attempts are over and its slot goes to the
\* next one.
FinishRender(r, a) ==
    /\ phase' = [q \in Requests |-> IF q = r THEN "done"
                    ELSE IF queue # <<>> /\ q = Head(queue) THEN "slot" ELSE phase[q]]
    /\ reply' = [reply EXCEPT ![r] = a]
    /\ attempt' = [attempt EXCEPT ![r] = 0] /\ using' = [using EXCEPT ![r] = 0]
    /\ IF queue = <<>> THEN free' = free + 1 /\ UNCHANGED queue
                       ELSE queue' = Tail(queue) /\ UNCHANGED free

\* An abandoned rendering leaves the browser alone (mutant).
TerminateNothing(b) == UNCHANGED connected

\* terminateBrowser: only the browser that is still in use is ended.
Terminate(b) == connected' = IF b = browser THEN FALSE ELSE connected

\* An attempt takes the browser there is, or waits for the one launch.
Begin(r) ==
    /\ phase[r] = "slot"
    /\ \/ /\ r \in cancelled /\ attempt[r] = 0
          /\ FinishRender(r, "error")
          /\ UNCHANGED <<chrome, contexts>>
       \/ /\ (r \notin cancelled \/ attempt[r] = 1) /\ connected
          /\ phase' = [phase EXCEPT ![r] = "context"]
          /\ attempt' = [attempt EXCEPT ![r] = @ + 1]
          /\ using' = [using EXCEPT ![r] = browser]
          /\ contexts' = contexts \cup {[request |-> r, browser |-> browser]}
          /\ UNCHANGED <<reply, slots, chrome>>
       \/ /\ (r \notin cancelled \/ attempt[r] = 1) /\ ~connected
          /\ phase' = [phase EXCEPT ![r] = "launch"]
          /\ attempt' = [attempt EXCEPT ![r] = @ + 1]
          /\ using' = [using EXCEPT ![r] = 0]
          /\ launching' = launching \cup {r}
          /\ launch' = TRUE
          /\ UNCHANGED <<reply, slots, browser, connected, contexts>>
    /\ UNCHANGED <<cancelled, pool, failures>>

\* Of those who wait for the launch, an attempt that is over goes no further.
Continue == {r \in launching : phase[r] = "launch"}

Launched ==
    /\ launch
    /\ launch' = FALSE /\ launching' = {}
    /\ browser' = browser + 1 /\ connected' = TRUE
    /\ phase' = [r \in Requests |-> IF r \in Continue THEN "context" ELSE phase[r]]
    /\ using' = [r \in Requests |-> IF r \in Continue THEN browser + 1 ELSE using[r]]
    /\ contexts' = [request : Continue, browser : {browser + 1}]   \* the others ended with theirs
    /\ UNCHANGED <<reply, cancelled, pool, slots, attempt, failures>>

LaunchFails ==
    /\ launch /\ Failure
    /\ launch' = FALSE /\ launching' = {}
    /\ phase' = [r \in Requests |-> IF r \in Continue THEN "broken" ELSE phase[r]]
    /\ UNCHANGED <<reply, cancelled, pool, slots, browser, connected, attempts>>

BrowserDies ==
    /\ connected /\ Failure
    /\ connected' = FALSE
    /\ UNCHANGED <<phase, reply, cancelled, pool, slots, browser, launching, launch, attempts>>

\* The page has drawn, or its script has thrown; the context is closed next.
Draw(r) ==
    /\ phase[r] = "context" /\ using[r] = browser /\ connected
    /\ \E a \in {"png", "error"} : reply' = [reply EXCEPT ![r] = a]
    /\ phase' = [phase EXCEPT ![r] = "drawn"]
    /\ UNCHANGED <<cancelled, pool, slots, chrome, attempts, failures>>

\* The browser of this attempt is no longer there.
Break(r) ==
    /\ phase[r] = "context" /\ ~(using[r] = browser /\ connected)
    /\ phase' = [phase EXCEPT ![r] = "broken"]
    /\ UNCHANGED <<reply, cancelled, pool, slots, chrome, attempts, failures>>

\* An attempt failed: the first is repeated if it is the browser that is at fault.
Catch(r) ==
    /\ phase[r] = "broken"
    /\ \/ /\ attempt[r] = 1 /\ ~connected
          /\ phase' = [phase EXCEPT ![r] = "slot"]
          /\ UNCHANGED <<reply, slots, chrome, attempt, using>>
       \/ /\ attempt[r] > 1 \/ connected
          /\ FinishRender(r, "error")
          /\ IF using[r] # 0 THEN Terminate(using[r]) ELSE UNCHANGED connected
          /\ UNCHANGED <<browser, launching, launch>>
    /\ UNCHANGED <<cancelled, pool, contexts, failures>>

\* Closing the context; when that fails the browser is ended with it.
Close(r) ==
    /\ phase[r] = "drawn"
    /\ \/ /\ contexts' = contexts \ {[request |-> r, browser |-> using[r]]}
          /\ UNCHANGED <<connected, failures>>
       \/ /\ Failure \/ (~(using[r] = browser /\ connected) /\ UNCHANGED failures)
          /\ Terminate(using[r])
          /\ UNCHANGED contexts
    /\ IF reply[r] = "error" /\ attempt[r] = 1 /\ ~connected   \* the browser died: again
       THEN /\ phase' = [phase EXCEPT ![r] = "slot"]
            /\ UNCHANGED <<reply, slots, attempt, using>>
       ELSE FinishRender(r, reply[r])
    /\ UNCHANGED <<cancelled, pool, browser, launching, launch>>

\* The rendering deadline, which both attempts share.  The abandoned attempt may
\* still wait for the browser; what it has opened ends with the browser.
Deadline(r) ==
    /\ phase[r] \in {"launch", "context", "drawn"}
    /\ FinishRender(r, "error")
    /\ IF using[r] # 0 THEN Terminate(using[r]) ELSE UNCHANGED connected
    /\ UNCHANGED <<cancelled, pool, browser, launching, launch, contexts, failures>>

ServiceNext ==
    \/ \E r \in Requests : Begin(r) \/ Draw(r) \/ Break(r) \/ Catch(r) \/ Close(r) \/ Deadline(r)
    \/ \E w \in Workers : \/ Result(w) \/ Timeout(w) \/ WorkerError(w) \/ Exit(w)
                          \/ Replaced(w) \/ ReplaceFails(w)
    \/ Launched \/ LaunchFails \/ BrowserDies

-----------------------------------------------------------------------------
\* "Each render gets a fresh BrowserContext": a context that is open in the
\* browser belongs to a rendering that holds a slot, whatever timed out or was
\* abandoned before it (render-pool.js:82-127, browser.js:54-58).
CleanBrowser ==
    \A c \in contexts : c.browser = browser /\ connected =>
        /\ phase[c.request] \in {"context", "drawn"}
        /\ using[c.request] = browser
=============================================================================
