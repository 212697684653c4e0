------------------------------- MODULE Calls --------------------------------
(***************************************************************************)
(* One logical model call in the worker Pods of a miner: its record and its *)
(* ledger entry, changed by compare-and-swap (records.py, budget.py), the   *)
(* captures that a Pod runs for it (pod.py, worker.py) and the requests     *)
(* that read, start and interrupt it (direct.py).  Every access to the      *)
(* store is a step of its own.  What is saved durably is a variable; what a *)
(* thread or a handler has read is in job and handler.                      *)
(***************************************************************************)
EXTENDS Naturals, FiniteSets

CONSTANTS Pods,           \* in the order they are selected: 1..n
          Exchanges,      \* the attempts of the call: 1..n
          Handlers,       \* requests being served at one time
          MaxFaults       \* bound on crashes, lost Pods and uncertain writes

ASSUME CallsAssumption ==
    /\ IsFiniteSet(Pods) /\ Pods = 1..Cardinality(Pods) /\ 1 \in Pods
    /\ IsFiniteSet(Exchanges) /\ Exchanges = 1..Cardinality(Exchanges) /\ 1 \in Exchanges
    /\ MaxFaults \in Nat

VARIABLES
    call,        \* the CallRecord's current attempt
    lateCall,    \* an unconfirmed write of it, which may still be applied
    charge,      \* the ledger's possible dispatch, as a set
    lateCharge,  \* an unconfirmed write of it
    manifest,    \* how each attempt's durable manifest ends: "none", "good", "bad"
    selected,    \* the Pod the selection record names
    gone,        \* Pods lost together with their spool
    spool,       \* each Pod's directory of each attempt
    job,         \* the Pod's capture or recovery of it
    handler,     \* what each request is doing, and for which copy of the record
    sent,        \* history: requests released to the provider
    undispatched, \* history: attempts recorded as failed and not dispatched
    faults

record == <<call, lateCall, undispatched>>
ledger == <<charge, lateCharge>>
vars == <<record, ledger, manifest, selected, gone, spool, job, handler, sent, faults>>

\* A capture capability is drawn by assign for one Pod and one attempt, and
\* that pair stands for it.
Call == [exchange : Exchanges, pod : Pods \cup {0}, authorized : BOOLEAN,
         phase : {"reserved", "assigned", "capturing", "issued", "failed"},
         not_dispatched : BOOLEAN]

NewCall(x) == [exchange |-> x, pod |-> 0, authorized |-> FALSE,
               phase |-> "reserved", not_dispatched |-> FALSE]

Charge == [exchange : Exchanges, settled : BOOLEAN]

\* none: no directory; pending: pending-claim is in it; open: it is not;
\* good, bad: the whole response is, usable or not.
Spools == {"none", "pending", "open", "good", "bad"}

Working == {"claim", "capture", "verify", "permit", "reserve", "authorize", "check", "release", "sent",
            "save", "finish", "settle", "issue", "fail", "unsent", "drop", "reject",
            "rejectUnsent", "recover", "reclaim", "clean"}

TypeOK ==
    /\ call \in Call
    /\ lateCall \subseteq Call
    /\ charge \subseteq Charge /\ Cardinality(charge) <= 1
    /\ lateCharge \subseteq Exchanges
    /\ manifest \in [Exchanges -> {"none", "good", "bad"}]
    /\ selected \in Pods
    /\ gone \subseteq Pods
    /\ spool \in [Pods -> [Exchanges -> Spools]]
    /\ job \in [Pods -> [Exchanges -> Working \cup {"idle"}]]
    /\ handler \in [Handlers -> [at : {"idle", "view", "forget", "check", "assign", "settle",
                                       "issue", "drop", "reject", "interrupt", "interrupted"},
                                 pod : Pods, seen : Call]]
    /\ sent \in [Exchanges -> Nat]
    /\ undispatched \subseteq Exchanges
    /\ faults \in 0..MaxFaults

Idle == [at |-> "idle", pod |-> 1, seen |-> NewCall(1)]

Init ==
    /\ call = NewCall(1)
    /\ lateCall = {} /\ lateCharge = {}
    /\ charge = {}
    /\ manifest = [x \in Exchanges |-> "none"]
    /\ selected = 1
    /\ gone = {}
    /\ spool = [p \in Pods |-> [x \in Exchanges |-> "none"]]
    /\ job = [p \in Pods |-> [x \in Exchanges |-> "idle"]]
    /\ handler = [h \in Handlers |-> Idle]
    /\ sent = [x \in Exchanges |-> 0]
    /\ undispatched = {}
    /\ faults = 0

-----------------------------------------------------------------------------
(***************************************************************************)
(* The store.  _change and the ledger's loops read again until their write  *)
(* is accepted, and every write has a revision of its own: an accepted one  *)
(* is the end of those unconfirmed before it.                               *)
(***************************************************************************)
SaveCall(c) ==
    /\ call' = c
    /\ lateCall' = {}
    /\ undispatched' = IF c.phase = "failed" /\ c.not_dispatched
                       THEN undispatched \cup {c.exchange} ELSE undispatched

SaveCharge(C) == charge' = C /\ lateCharge' = {}

\* WriteUncertain: the write was applied, or it may be later.
UncertainCall(c) ==
    /\ faults < MaxFaults
    /\ faults' = faults + 1
    /\ \/ SaveCall(c)
       \/ lateCall' = lateCall \cup {c} /\ UNCHANGED <<call, undispatched>>

UncertainCharge(x) ==
    /\ faults < MaxFaults
    /\ faults' = faults + 1
    /\ \/ SaveCharge({[exchange |-> x, settled |-> FALSE]})
       \/ lateCharge' = lateCharge \cup {x} /\ UNCHANGED charge

LateWrite ==
    /\ \/ (\E c \in lateCall : SaveCall(c)) /\ UNCHANGED ledger
       \/ (\E x \in lateCharge : SaveCharge({[exchange |-> x, settled |-> FALSE]}))
          /\ UNCHANGED record
    /\ UNCHANGED <<manifest, selected, gone, spool, job, handler, sent, faults>>

\* The ledger drops its charge whatever attempt it is of (mutant).
DiscardAny(x) == SaveCharge({})

\* The ledger drops this attempt's charges and leaves another attempt's alone.
Discard(x) ==
    IF \E c \in charge : c.exchange # x THEN UNCHANGED ledger
                                        ELSE SaveCharge({})

\* The charge of this attempt is possible, or settled already with this usage.
MaySettle(x) == \E c \in charge : c.exchange = x

Settled(x) == {[exchange |-> x, settled |-> TRUE]}

\* A result of the attempt may be turned into an error (mutant).
MayFailIssued(x, p) ==
    call.exchange = x /\ call.phase \in {"capturing", "issued"} /\ call.pod = p

\* Another attempt, or a result, is never turned into an error.
MayFail(x, p) == call.exchange = x /\ call.phase = "capturing" /\ call.pod = p

Failed(undisp) == [call EXCEPT !.phase = "failed",
                               !.not_dispatched = undisp /\ ~call.authorized]

MayIssue(x, p) == MayFail(x, p) /\ call.authorized

Issued == [call EXCEPT !.phase = "issued"]

\* A captured outcome is finished from durable evidence alone.
Recoverable(c) == c.phase = "capturing" /\ c.authorized /\ manifest[c.exchange] # "none"

-----------------------------------------------------------------------------
(***************************************************************************)
(* A capture of attempt x in Pod p.                                         *)
(***************************************************************************)
At(p, x, s) == job[p][x] = s /\ p \notin gone
Go(p, x, s) == job' = [job EXCEPT ![p][x] = s]
Put(p, x, s) == spool' = [spool EXCEPT ![p][x] = s]

MayClaim(x, p) == call.exchange = x /\ call.phase = "assigned" /\ call.pod = p

Claimed(x, p) == IF MayClaim(x, p) THEN [call EXCEPT !.phase = "capturing"] ELSE call

\* A miner connects to an attempt it found assigned here, perhaps some time
\* ago.  pending-claim is saved before the claim is tried.
Connect(p, x) ==
    /\ At(p, x, "idle")
    /\ call.exchange = x /\ call.pod = p
    /\ selected = p
    /\ Put(p, x, "pending")
    /\ Go(p, x, "claim")
    /\ UNCHANGED <<record, ledger, manifest, selected, gone, handler, sent, faults>>

Claim(p, x) ==
    /\ At(p, x, "claim")
    /\ \/ /\ SaveCall(Claimed(x, p))
          /\ Go(p, x, IF MayClaim(x, p) THEN "capture" ELSE "clean")
          /\ UNCHANGED faults
       \/ UncertainCall(Claimed(x, p)) /\ Go(p, x, "recover")
    /\ UNCHANGED <<ledger, manifest, selected, gone, spool, handler, sent>>

\* The claim is no longer pending before anything is sent to the provider.
OpenCapture(p, x) ==
    /\ At(p, x, "capture") /\ spool[p][x] = "pending"
    /\ Put(p, x, "open")
    /\ UNCHANGED <<record, ledger, manifest, selected, gone, job, handler, sent, faults>>

\* The TLS handshake, a probe and the request, of which nothing is billable yet.
Handshake(p, x) ==
    /\ At(p, x, "capture") /\ spool[p][x] = "open"
    /\ Go(p, x, "verify") \/ Go(p, x, "unsent")
    /\ UNCHANGED <<record, ledger, manifest, selected, gone, spool, handler, sent, faults>>

\* The verifier's process accepts the request that it has seen encrypted, rejects
\* it, or does not complete.
Verify(p, x) ==
    /\ At(p, x, "verify")
    /\ Go(p, x, "permit") \/ Go(p, x, "unsent")
    /\ UNCHANGED <<record, ledger, manifest, selected, gone, spool, handler, sent, faults>>

\* The Pod is asked whether the request may be released; the round's policy or
\* a drain may end the attempt here.
Permit(p, x) ==
    /\ At(p, x, "permit")
    /\ \/ selected = p /\ Go(p, x, "reserve")
       \/ Go(p, x, "unsent")
    /\ UNCHANGED <<record, ledger, manifest, selected, gone, spool, handler, sent, faults>>

Reserve(p, x) ==
    /\ At(p, x, "reserve")
    /\ \/ /\ charge = {}
          /\ \/ /\ SaveCharge({[exchange |-> x, settled |-> FALSE]})
                /\ Go(p, x, "authorize")
                /\ UNCHANGED faults
             \/ UncertainCharge(x) /\ Go(p, x, "fail")
       \/ charge # {} /\ Go(p, x, "fail") /\ UNCHANGED <<ledger, faults>>
       \/ Go(p, x, "unsent") /\ UNCHANGED <<ledger, faults>>
    /\ UNCHANGED <<record, manifest, selected, gone, spool, handler, sent>>

Authorize(p, x) ==
    /\ At(p, x, "authorize")
    /\ \/ /\ MayFail(x, p) /\ ~call.authorized
          /\ LET c == [call EXCEPT !.authorized = TRUE]
             IN \/ SaveCall(c) /\ Go(p, x, "check") /\ UNCHANGED faults
                \/ UncertainCall(c) /\ Go(p, x, "fail")
       \/ /\ ~MayFail(x, p) \/ call.authorized
          /\ Go(p, x, "fail")
          /\ UNCHANGED <<record, faults>>
    /\ UNCHANGED <<ledger, manifest, selected, gone, spool, handler, sent>>

CheckAgain(p, x) ==
    /\ At(p, x, "check")
    /\ \/ selected = p /\ Go(p, x, "release")
       \/ Go(p, x, "fail")
    /\ UNCHANGED <<record, ledger, manifest, selected, gone, spool, handler, sent, faults>>

Release(p, x) ==
    /\ At(p, x, "release")
    /\ \/ sent' = [sent EXCEPT ![x] = @ + 1] /\ Go(p, x, "sent")
       \/ Go(p, x, "fail") /\ UNCHANGED sent
    /\ UNCHANGED <<record, ledger, manifest, selected, gone, spool, handler, faults>>

\* The whole response is in the spool, or the capture failed.
Respond(p, x) ==
    /\ At(p, x, "sent")
    /\ \/ (\E r \in {"good", "bad"} : Put(p, x, r)) /\ Go(p, x, "save")
       \/ Go(p, x, "fail") /\ UNCHANGED spool
    /\ UNCHANGED <<record, ledger, manifest, selected, gone, handler, sent, faults>>

\* After a failure the whole response in the spool is verified and finished
\* here, or retained for the recovery.
Finishing(p, x) == Go(p, x, "finish") \/ Go(p, x, "recover")

\* relay's own manifest; without it the finalization saves one.
SaveManifest(p, x) ==
    /\ At(p, x, "save")
    /\ \/ manifest' = [manifest EXCEPT ![x] = spool[p][x]] /\ Go(p, x, "finish")
       \/ Finishing(p, x) /\ UNCHANGED manifest
    /\ UNCHANGED <<record, ledger, selected, gone, spool, handler, sent, faults>>

Over(x) == call.exchange # x \/ call.phase \in {"issued", "failed"}

\* _finalize with a captured outcome: a record that was replaced or ended is
\* left alone; a result is settled before it is issued, and an unusable one
\* loses its reservation before the attempt fails.
Finish(p, x) ==
    /\ At(p, x, "finish")
    /\ \/ Over(x) /\ Go(p, x, "clean") /\ UNCHANGED manifest
       \/ /\ ~Over(x) /\ spool[p][x] = "good"
          /\ manifest' = [manifest EXCEPT ![x] = "good"]
          /\ Go(p, x, "settle")
       \/ ~Over(x) /\ spool[p][x] = "bad" /\ Go(p, x, "drop") /\ UNCHANGED manifest
    /\ UNCHANGED <<record, ledger, selected, gone, spool, handler, sent, faults>>

Settle(p, x) ==
    /\ At(p, x, "settle")
    /\ \/ MaySettle(x) /\ SaveCharge(Settled(x)) /\ Go(p, x, "issue")
       \/ ~MaySettle(x) /\ Go(p, x, "recover") /\ UNCHANGED ledger
    /\ UNCHANGED <<record, manifest, selected, gone, spool, handler, sent, faults>>

Issue(p, x) ==
    /\ At(p, x, "issue")
    /\ \/ MayIssue(x, p) /\ SaveCall(Issued) /\ Go(p, x, "clean") /\ UNCHANGED faults
       \/ MayIssue(x, p) /\ UncertainCall(Issued) /\ Go(p, x, "recover")
       \/ ~MayIssue(x, p) /\ Go(p, x, "recover") /\ UNCHANGED <<record, faults>>
    /\ UNCHANGED <<ledger, manifest, selected, gone, spool, handler, sent>>

\* _finalize without an outcome.  What was possibly dispatched loses its
\* reservation before the attempt fails.
Fail(p, x) ==
    /\ At(p, x, "fail") \/ At(p, x, "unsent")
    /\ Go(p, x,
          IF call.exchange # x \/ call.phase = "issued" THEN "clean"
          ELSE IF Recoverable(call) /\ manifest[x] = "good" THEN "settle"
          ELSE IF job[p][x] = "fail" \/ call.authorized THEN "drop" ELSE "rejectUnsent")
    /\ UNCHANGED <<record, ledger, manifest, selected, gone, spool, handler, sent, faults>>

Drop(p, x) ==
    /\ At(p, x, "drop")
    /\ Discard(x)
    /\ Go(p, x, "reject")
    /\ UNCHANGED <<record, manifest, selected, gone, spool, handler, sent, faults>>

\* A failure recorded by somebody else may have the same name or another.
Reject(p, x) ==
    LET again == IF job[p][x] = "reject" THEN "fail" ELSE "unsent"
        c == IF MayFail(x, p) THEN Failed(job[p][x] = "rejectUnsent") ELSE call
    IN /\ At(p, x, "reject") \/ At(p, x, "rejectUnsent")
       /\ \/ /\ call.exchange # x \/ call.phase = "failed" \/ MayFail(x, p)
             /\ SaveCall(c)
             /\ Go(p, x, "clean")
             /\ UNCHANGED faults
          \/ MayFail(x, p) /\ UncertainCall(c) /\ Go(p, x, again)
          \/ /\ call.exchange = x /\ ~MayFail(x, p)
             /\ Go(p, x, again)
             /\ UNCHANGED <<record, faults>>
       /\ UNCHANGED <<ledger, manifest, selected, gone, spool, handler, sent>>

Clean(p, x) ==
    /\ At(p, x, "clean")
    /\ Put(p, x, "none")
    /\ Go(p, x, "idle")
    /\ UNCHANGED <<record, ledger, manifest, selected, gone, handler, sent, faults>>

\* From the record, the evidence and the spool, without a provider request.
\* The attempt of another allocation is not this Pod's to recover: it waits.
Recover(p, x) ==
    /\ At(p, x, "recover")
    /\ call.exchange = x => call.pod = p
    /\ Go(p, x,
          CASE Over(x) -> "clean"
            [] ~Over(x) /\ Recoverable(call) ->
                 IF manifest[x] = "good" THEN "settle" ELSE "drop"
            [] ~Over(x) /\ call.phase = "assigned" ->
                 IF spool[p][x] = "pending" THEN "reclaim" ELSE "idle"
            [] ~Over(x) /\ call.phase = "capturing" /\ ~Recoverable(call) ->
                 IF call.authorized /\ spool[p][x] \in {"good", "bad"} THEN "finish"
                 ELSE IF spool[p][x] = "pending" THEN "unsent" ELSE "fail")
    /\ UNCHANGED <<record, ledger, manifest, selected, gone, spool, handler, sent, faults>>

Reclaim(p, x) ==
    /\ At(p, x, "reclaim")
    /\ \/ /\ SaveCall(Claimed(x, p))
          /\ Go(p, x, IF MayClaim(x, p) THEN "unsent" ELSE "recover")
          /\ UNCHANGED faults
       \/ UncertainCall(Claimed(x, p)) /\ Go(p, x, "recover")
    /\ UNCHANGED <<ledger, manifest, selected, gone, spool, handler, sent>>

\* The process ends and starts again: each directory left is recovered.
Crash(p) ==
    /\ faults < MaxFaults /\ p \notin gone
    /\ faults' = faults + 1
    /\ job' = [job EXCEPT ![p] =
                 [x \in Exchanges |-> IF spool[p][x] = "none" THEN "idle" ELSE "recover"]]
    /\ handler' = [h \in Handlers |-> IF handler[h].pod = p THEN Idle ELSE handler[h]]
    /\ UNCHANGED <<record, ledger, manifest, selected, gone, spool, sent>>

\* The Pod is lost with its spool; the last one stays.
Lose(p) ==
    /\ faults < MaxFaults /\ p \notin gone /\ p + 1 \in Pods
    /\ faults' = faults + 1
    /\ gone' = gone \cup {p}
    /\ spool' = [spool EXCEPT ![p] = [x \in Exchanges |-> "none"]]
    /\ job' = [job EXCEPT ![p] = [x \in Exchanges |-> "idle"]]
    /\ handler' = [h \in Handlers |-> IF handler[h].pod = p THEN Idle ELSE handler[h]]
    /\ UNCHANGED <<record, ledger, manifest, selected, sent>>

\* The gateway or the revivor selects the next Pod (see Fencing).
Select ==
    /\ selected + 1 \in Pods
    /\ selected' = selected + 1
    /\ UNCHANGED <<record, ledger, manifest, gone, spool, job, handler, sent, faults>>

-----------------------------------------------------------------------------
(***************************************************************************)
(* Requests.  seen is the record as it was when it was read.                *)
(***************************************************************************)
Serving(h, s) == handler[h].at = s
To(h, s) == handler' = [handler EXCEPT ![h].at = s]
End(h) == handler' = [handler EXCEPT ![h] = Idle]

\* POST /v1/calls, or GET of an attempt.  A view of a call that is not being
\* captured changes nothing and is left out.
Start(h, p) ==
    /\ Serving(h, "idle") /\ p \notin gone
    /\ \E s \in {"view", "forget", "check"} :
         /\ s = "forget" => call.phase = "failed"
         /\ s = "check" => call.phase \in {"reserved", "assigned"}
         /\ s = "view" => call.phase = "capturing"
         /\ handler' = [handler EXCEPT ![h] = [at |-> s, pod |-> p, seen |-> call]]
    /\ UNCHANGED <<record, ledger, manifest, selected, gone, spool, job, sent, faults>>

Forget(h) ==
    /\ Serving(h, "forget")
    /\ Discard(handler[h].seen.exchange)
    /\ To(h, "check")
    /\ UNCHANGED <<record, manifest, selected, gone, spool, job, sent, faults>>

\* The Pod's selection and the round's policy.
Check(h) ==
    /\ Serving(h, "check")
    /\ \/ selected = handler[h].pod /\ To(h, "assign")
       \/ End(h)
    /\ UNCHANGED <<record, ledger, manifest, selected, gone, spool, job, sent, faults>>

\* The failed attempt that was seen is replaced, once for all who saw it, and
\* an attempt that nobody has claimed moves to this Pod.
Assigned(h) ==
    LET seen == handler[h].seen
        c == IF seen.phase = "failed" /\ call.phase = "failed" /\ call.exchange = seen.exchange
             THEN NewCall(call.exchange + 1) ELSE call
    IN IF c.phase \in {"reserved", "assigned"}
       THEN [c EXCEPT !.phase = "assigned", !.pod = handler[h].pod] ELSE c

Assign(h) ==
    /\ Serving(h, "assign")
    /\ Assigned(h).exchange \in Exchanges
    /\ \/ /\ SaveCall(Assigned(h))
          /\ IF call'.phase = "capturing"
             THEN handler' = [handler EXCEPT ![h].at = "view", ![h].seen = call']
             ELSE End(h)
          /\ UNCHANGED faults
       \/ UncertainCall(Assigned(h)) /\ End(h)
    /\ UNCHANGED <<ledger, manifest, selected, gone, spool, job, sent>>

\* Only the Pod's own captures are interrupted (mutant).
InterruptsOwn(c, p) ==
    /\ c.phase = "capturing" /\ selected = p /\ c.pod = p
    /\ c.authorized /\ job[p][c.exchange] = "idle"

\* A capture whose Pod was replaced, or whose deadline has passed with no
\* capture active here, is interrupted if there is no outcome to recover.
MayInterrupt(c, p) ==
    /\ c.phase = "capturing" /\ selected = p
    /\ c.pod # p \/ (c.authorized /\ job[p][c.exchange] = "idle")

View(h) ==
    LET seen == handler[h].seen
    IN /\ Serving(h, "view")
       /\ \/ Recoverable(seen) /\ To(h, IF manifest[seen.exchange] = "good" THEN "settle" ELSE "drop")
          \/ ~Recoverable(seen) /\ MayInterrupt(seen, handler[h].pod) /\ To(h, "interrupt")
          \/ ~Recoverable(seen) /\ (seen.pod = handler[h].pod \/ ~MayInterrupt(seen, handler[h].pod)) /\ End(h)
       /\ UNCHANGED <<record, ledger, manifest, selected, gone, spool, job, sent, faults>>

HandlerSettle(h) ==
    LET x == handler[h].seen.exchange
    IN /\ Serving(h, "settle")
       /\ \/ MaySettle(x) /\ SaveCharge(Settled(x)) /\ To(h, "issue")
          \/ ~MaySettle(x) /\ End(h) /\ UNCHANGED ledger
       /\ UNCHANGED <<record, manifest, selected, gone, spool, job, sent, faults>>

HandlerIssue(h) ==
    LET seen == handler[h].seen
    IN /\ Serving(h, "issue")
       /\ End(h)
       /\ \/ MayIssue(seen.exchange, seen.pod) /\ SaveCall(Issued) /\ UNCHANGED faults
          \/ MayIssue(seen.exchange, seen.pod) /\ UncertainCall(Issued)
          \/ ~MayIssue(seen.exchange, seen.pod) /\ UNCHANGED <<record, faults>>
       /\ UNCHANGED <<ledger, manifest, selected, gone, spool, job, sent>>

\* Before an unusable outcome is recorded, and after an interruption is.
HandlerDrop(h) ==
    /\ Serving(h, "drop") \/ Serving(h, "interrupted")
    /\ Discard(handler[h].seen.exchange)
    /\ IF handler[h].at = "drop" THEN To(h, "reject") ELSE End(h)
    /\ UNCHANGED <<record, manifest, selected, gone, spool, job, sent, faults>>

HandlerReject(h) ==
    LET seen == handler[h].seen
        done == IF handler[h].at = "reject" THEN End(h) ELSE To(h, "interrupted")
    IN /\ Serving(h, "reject") \/ Serving(h, "interrupt")
       /\ \/ MayFail(seen.exchange, seen.pod) /\ SaveCall(Failed(FALSE)) /\ done /\ UNCHANGED faults
          \/ MayFail(seen.exchange, seen.pod) /\ UncertainCall(Failed(FALSE)) /\ End(h)
          \/ call.exchange # seen.exchange /\ SaveCall(call) /\ done /\ UNCHANGED faults
          \/ /\ call.exchange = seen.exchange /\ ~MayFail(seen.exchange, seen.pod)
             /\ \/ End(h) /\ UNCHANGED record
                \/ call.phase = "failed" /\ SaveCall(call) /\ done
             /\ UNCHANGED faults
       /\ UNCHANGED <<ledger, manifest, selected, gone, spool, job, sent>>

-----------------------------------------------------------------------------
Capture(p, x) ==
    \/ Claim(p, x) \/ OpenCapture(p, x) \/ Handshake(p, x) \/ Verify(p, x) \/ Permit(p, x) \/ Reserve(p, x)
    \/ Authorize(p, x) \/ CheckAgain(p, x) \/ Release(p, x) \/ Respond(p, x)
    \/ SaveManifest(p, x) \/ Finish(p, x) \/ Settle(p, x) \/ Issue(p, x)
    \/ Fail(p, x) \/ Drop(p, x) \/ Reject(p, x) \/ Clean(p, x)
    \/ Recover(p, x) \/ Reclaim(p, x)

Serve(h) ==
    \/ Forget(h) \/ Check(h) \/ Assign(h) \/ View(h) \/ HandlerSettle(h)
    \/ HandlerIssue(h) \/ HandlerDrop(h) \/ HandlerReject(h)

Next ==
    \/ \E p \in Pods, x \in Exchanges : Connect(p, x) \/ Capture(p, x)
    \/ \E h \in Handlers : Serve(h) \/ \E p \in Pods : Start(h, p)
    \/ \E p \in Pods : Crash(p) \/ Lose(p)
    \/ LateWrite \/ Select

Spec == Init /\ [][Next]_vars

\* The threads of a Pod that is there go on, requests are served, callers poll
\* the selected Pod, and a lost Pod is replaced.
Poll(h) == Start(h, selected) /\ handler'[h].at = "view"

FairSpec ==
    /\ Spec
    /\ \A p \in Pods : WF_vars(\E x \in Exchanges : Capture(p, x))
    /\ WF_vars(\E h \in Handlers : Serve(h))
    /\ SF_vars(\E h \in Handlers : Poll(h))
    /\ WF_vars(selected \in gone /\ Select)

-----------------------------------------------------------------------------
\* The record's promise to the caller: at most one request per attempt over
\* crashes, uncertain writes and replaced Pods; none, now or later, for an
\* attempt that was recorded as not dispatched, which callers repeat on their
\* own; results final (PODS.md "CAS state allows only one claim and
\* authorization"; records.py:171-243).
Promise == INSTANCE Attempts WITH
    attempt <- call.exchange,
    state <- IF call.phase \in {"issued", "failed"} THEN call.phase ELSE "open"
KeepsAttempts == Promise!Spec

\* A result is paid for: while it is the call's result the ledger has its
\* attempt's settled charge, whoever discards or settles late
\* (budget.py:130-190, recovery.py:67-82).
IssuedIsSettled == call.phase = "issued" => charge = Settled(call.exchange)

\* "Closing a failed attempt clears its dispatch reservation" (PODS.md:251-252):
\* a replaced attempt's charge is gone unless its capture still runs.
ReservationCleared ==
    \A c \in charge : c.exchange # call.exchange =>
        \E p \in Pods : job[p][c.exchange] # "idle"

\* A claimed attempt ends: with its Pod's own recovery after a crash, and by the
\* next Pod's interruption when its Pod is gone (PODS.md "Closing a failed
\* attempt"; direct.py:149-168, pod.py:302-367).
AttemptEnds == call.phase = "capturing" ~> call.phase # "capturing"
=============================================================================
