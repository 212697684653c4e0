----------------------------- MODULE PodRender -----------------------------
(***************************************************************************)
(* Preview rendering in a witness Pod: the handler of POST /v1/render/grid   *)
(* (worker/witness_pod/direct.py), the cache of outcomes in R2 (renderer.py) *)
(* and the render service that runs in the same container.                  *)
(***************************************************************************)
EXTENDS RenderService

CONSTANTS
    KeyOf,          \* the cache key of each request: its source and options
    MaxRenders,     \* previews of a miner in a round
    LosesReplies    \* storing may succeed and be reported as failed

ASSUME PodRenderAssumption ==
    MaxRenders \in Nat /\ LosesReplies \in BOOLEAN

VARIABLES
    pod,            \* where the Pod's handler of the request is
    outcome,        \* what the miner is answered
    saved,          \* the outcomes the Pod knows to be saved
    stored          \* the outcomes that are saved

cache == <<saved, stored>>
renderVars == <<serviceVars, pod, outcome, cache>>

Key == {KeyOf[r] : r \in Requests}
Outcome == [key : Key, kind : {"png", "rejection"}]

RenderTypeOK ==
    /\ ServiceTypeOK
    /\ pod \in [Requests -> {"none", "lock", "held", "posted", "done"}]
    /\ outcome \in [Requests -> Replies \cup {"exhausted"}]
    /\ saved \subseteq Outcome /\ stored \subseteq Outcome

RenderInit ==
    /\ ServiceInit
    /\ pod = [r \in Requests |-> "none"]
    /\ outcome = [r \in Requests |-> "none"]
    /\ saved = {} /\ stored = {}

Kept(r, kind) == [key |-> KeyOf[r], kind |-> kind]
Full == Cardinality({o \in saved : o.kind = "png"}) >= MaxRenders

Answer(r, a) ==
    /\ pod' = [pod EXCEPT ![r] = "done"]
    /\ outcome' = [outcome EXCEPT ![r] = a]

\* The request is admitted and waits for the lock of its key.
Ask(r) ==
    /\ pod[r] = "none"
    /\ pod' = [pod EXCEPT ![r] = "lock"]
    /\ UNCHANGED <<serviceVars, outcome, cache>>

\* Identical requests do not wait for each other (mutant).
LockNothing(r) ==
    /\ pod[r] = "lock"
    /\ pod' = [pod EXCEPT ![r] = "held"]
    /\ UNCHANGED <<serviceVars, outcome, cache>>

Lock(r) ==
    /\ pod[r] = "lock"
    /\ \A q \in Requests : KeyOf[q] = KeyOf[r] => pod[q] \notin {"held", "posted"}
    /\ pod' = [pod EXCEPT ![r] = "held"]
    /\ UNCHANGED <<serviceVars, outcome, cache>>

\* RenderCache.get: the PNG is looked up before the rejection.
Lookup(r) ==
    /\ pod[r] = "held"
    /\ \/ \E kind \in {"png", "rejection"} :
              /\ Kept(r, kind) \in saved
              /\ kind = "rejection" => Kept(r, "png") \notin saved
              /\ Answer(r, kind)
              /\ UNCHANGED serviceVars
       \/ /\ Kept(r, "png") \notin saved /\ Kept(r, "rejection") \notin saved
          /\ Full
          /\ Answer(r, "exhausted")
          /\ UNCHANGED serviceVars
       \/ /\ Kept(r, "png") \notin saved /\ Kept(r, "rejection") \notin saved
          /\ ~Full
          /\ Arrive(r)
          /\ pod' = [pod EXCEPT ![r] = "posted"]
          /\ UNCHANGED outcome
    /\ UNCHANGED cache

\* The allowance is not looked at again (mutant).
SaveUnchecked(r) ==
    /\ pod[r] = "posted" /\ phase[r] = "done" /\ reply[r] \in {"png", "rejection"}
    /\ saved' = saved \cup {Kept(r, reply[r])}
    /\ stored' = stored \cup {Kept(r, reply[r])}
    /\ Answer(r, reply[r])
    /\ UNCHANGED serviceVars

\* The service has answered: an outcome is saved before it is passed on, unless
\* other requests have used up the allowance; an error is passed on.
Save(r) ==
    /\ pod[r] = "posted" /\ phase[r] = "done"
    /\ IF reply[r] \notin {"png", "rejection"}
       THEN Answer(r, reply[r]) /\ UNCHANGED cache
       ELSE \/ /\ reply[r] = "png" /\ Full
               /\ Answer(r, "exhausted")
               /\ UNCHANGED cache
            \/ /\ reply[r] = "rejection" \/ ~Full
               /\ saved' = saved \cup {Kept(r, reply[r])}
               /\ stored' = stored \cup {Kept(r, reply[r])}
               /\ Answer(r, reply[r])
    /\ UNCHANGED serviceVars

\* The upload fails.
SaveFails(r) ==
    /\ pod[r] = "posted" /\ phase[r] = "done" /\ reply[r] \in {"png", "rejection"}
    /\ reply[r] = "rejection" \/ ~Full
    /\ Failure
    /\ stored' \in {stored} \cup {stored \cup {Kept(r, reply[r])} : l \in {LosesReplies} \cap {TRUE}}
    /\ Answer(r, "error")
    /\ UNCHANGED <<phase, reply, cancelled, pool, slots, chrome, attempts, saved>>

\* The Pod's own timeout: it closes the connection, the service goes on.
GiveUp(r) ==
    /\ pod[r] = "posted" /\ phase[r] # "done"
    /\ Answer(r, "error")
    /\ cancelled' = cancelled \cup {r}
    /\ UNCHANGED <<phase, reply, pool, slots, chrome, attempts, failures, cache>>

\* The Pod starts again: the cache is restored from what is stored.
Restart ==
    /\ Failure
    /\ pod' = [r \in Requests |-> IF pod[r] = "none" THEN "none" ELSE "done"]
    /\ phase' = [r \in Requests |-> IF phase[r] = "none" THEN "none" ELSE "done"]
    /\ saved' = stored
    /\ worker' = [w \in Workers |-> "live"]
    /\ serving' = [w \in Workers |-> None]
    /\ available' = Workers
    /\ waiting' = <<>> /\ queue' = <<>> /\ free' = Slots
    /\ browser' = browser + 1 /\ connected' = TRUE
    /\ launching' = {} /\ launch' = FALSE /\ contexts' = {}
    /\ attempt' = [r \in Requests |-> 0] /\ using' = [r \in Requests |-> 0]
    /\ UNCHANGED <<reply, cancelled, outcome, stored>>

Handle(r) == Ask(r) \/ Lock(r) \/ Lookup(r) \/ Save(r) \/ SaveFails(r) \/ GiveUp(r)

RenderNext ==
    \/ \E r \in Requests : Handle(r)
    \/ Restart
    \/ ServiceNext /\ UNCHANGED <<pod, outcome, cache>>

RenderSpec == RenderInit /\ [][RenderNext]_renderVars

-----------------------------------------------------------------------------
(***************************************************************************)
(* Fairness: Node and the event loop run what is ready, timers fire, and a   *)
(* process that ends or starts is reported.  Nothing is assumed of a miner's *)
(* code: neither that its validation answers nor that its page draws.  The   *)
(* Pod's own timeout is not assumed either.                                  *)
(***************************************************************************)
Internal(A) == A /\ UNCHANGED <<pod, outcome, cache>>

FairRenderSpec ==
    /\ RenderSpec
    /\ \A r \in Requests :
          /\ WF_renderVars(Lock(r)) /\ WF_renderVars(Lookup(r)) /\ WF_renderVars(Save(r))
          /\ WF_renderVars(Internal(Begin(r) \/ Break(r) \/ Catch(r) \/ Close(r)))
          /\ WF_renderVars(Internal(Deadline(r)))
    /\ \A w \in Workers :
          /\ WF_renderVars(Internal(Timeout(w))) /\ WF_renderVars(Internal(Exit(w)))
          /\ WF_renderVars(Internal(Replaced(w)))
    /\ WF_renderVars(Internal(Launched))

-----------------------------------------------------------------------------
\* "Outcomes are uploaded before responding and reused for identical requests"
\* (worker/README.md:63): two requests with one key are never answered with
\* different outcomes, though an identical request may still be in the service
\* when its lock was given up (direct.py:316-358, renderer.py:50-79).
AnswersAgree ==
    \A q, r \in Requests :
        /\ KeyOf[q] = KeyOf[r]
        /\ {outcome[q], outcome[r]} \subseteq {"png", "rejection"}
        => outcome[q] = outcome[r]

\* "Each miner gets 10,000 new successful previews per round": requests that were
\* let through together do not exceed it (direct.py:333, renderer.py:66-79).
WithinAllowance == Cardinality({o \in stored : o.kind = "png"}) <= MaxRenders

\* A request that is admitted is answered: a worker that exits, a result after
\* its timer, a browser that dies or an abandoned rendering leaves no request
\* waiting and no slot or lock taken (validation-pool.js:101-207,
\* render-pool.js:56-127).
Answered == \A r \in Requests : (pod[r] # "none") ~> (pod[r] = "done")
=============================================================================
