------------------------------- MODULE Client -------------------------------
(***************************************************************************)
(* Calls of responses.create() in the witness SDK (client.py, and            *)
(* async_client.py, which is the same with await): what a call does with the *)
(* snapshots it reads while it starts, captures, joins and repeats attempts. *)
(* The worker Pods are abstracted by one record per logical call, the view   *)
(* that their requests give of what Calls describes.                         *)
(***************************************************************************)
EXTENDS Naturals, FiniteSets

CONSTANTS
    Callers,        \* calls of create()
    KeyOf,          \* the logical call that each one makes
    Clients,        \* client objects
    Assignments,    \* which client each call may be made with
    Exchanges,      \* attempts of a logical call: 1..n
    Slots,          \* parallel_calls of a client
    Preparations    \* parallel_preparations of a client

ASSUME ClientAssumption ==
    /\ IsFiniteSet(Callers) /\ IsFiniteSet(Exchanges)
    /\ Exchanges = 1..Cardinality(Exchanges) /\ 1 \in Exchanges
    /\ Assignments \subseteq [Callers -> Clients]
    /\ Slots \in Nat \ {0} /\ Preparations \in Nat \ {0}

Keys == {KeyOf[c] : c \in Callers}

VARIABLES
    call,        \* the current attempt of each logical call, at the witness
    clientOf,    \* the client that each create() is a call of
    at,          \* where each create() is
    seen,        \* the snapshot that it goes by
    attempted,   \* it has opened a tunnel for that attempt
    retries,
    tunnel,      \* none, open, claimed (a capture runs on it), authorized
    slotted,     \* calls that hold a capture slot
    prepared,    \* calls that hold a preparation slot
    slots, preparations,     \* those free in each client
    outcome,
    paid         \* history: attempts whose request was released for this create(),
                 \* or that it was shown as dispatched

held == <<slotted, prepared, slots, preparations>>
local == <<attempted, retries>>
vars == <<call, clientOf, at, seen, local, tunnel, held, outcome, paid>>

Call == [exchange : Exchanges, authorized : BOOLEAN, not_dispatched : BOOLEAN,
         phase : {"reserved", "assigned", "capturing", "issued", "rejected", "failed"}]

NewCall(x) == [exchange |-> x, authorized |-> FALSE, not_dispatched |-> FALSE,
               phase |-> "assigned"]

TypeOK ==
    /\ call \in [Keys -> Call] /\ seen \in [Callers -> Call]
    /\ at \in [Callers -> {"key", "start", "slot", "prepare", "loop", "tunnel", "poll",
                           "restart", "done"}]
    /\ clientOf \in Assignments
    /\ attempted \in [Callers -> BOOLEAN]
    /\ retries \in [Callers -> 0..2]
    /\ tunnel \in [Callers -> {"none", "open", "claimed", "authorized"}]
    /\ slotted \subseteq Callers /\ prepared \subseteq Callers
    /\ slots \in [Clients -> 0..Slots] /\ preparations \in [Clients -> 0..Preparations]
    /\ outcome \in [Callers -> {"none", "response", "error"}]
    /\ paid \in [Callers -> SUBSET Exchanges]

Init ==
    /\ call = [k \in Keys |-> [NewCall(1) EXCEPT !.phase = "reserved"]]
    /\ seen = [c \in Callers |-> NewCall(1)]
    /\ at = [c \in Callers |-> "key"]
    /\ clientOf \in Assignments
    /\ attempted = [c \in Callers |-> FALSE]
    /\ retries = [c \in Callers |-> 0]
    /\ tunnel = [c \in Callers |-> "none"]
    /\ slotted = {} /\ prepared = {}
    /\ slots = [i \in Clients |-> Slots] /\ preparations = [i \in Clients |-> Preparations]
    /\ outcome = [c \in Callers |-> "none"]
    /\ paid = [c \in Callers |-> {}]

-----------------------------------------------------------------------------
(***************************************************************************)
(* What a snapshot says.                                                    *)
(***************************************************************************)
\* The record of a provider's error is shown as issued.
Issued(s) == s.phase \in {"issued", "rejected"}

\* Every failed attempt is repeated (mutant).
AnyFailed(s) == s.phase = "failed"

Undispatched(s) == s.phase = "failed" /\ s.not_dispatched /\ ~s.authorized

NeedsCapture(s) == ~Issued(s) /\ (s.phase # "failed" \/ Undispatched(s))

\* For the history: a request to the provider may have been released.
Dispatched(s) == s.authorized \/ Issued(s) \/ (s.phase = "failed" /\ ~s.not_dispatched)

See(c, s) ==
    /\ seen' = [seen EXCEPT ![c] = s]
    /\ paid' = [paid EXCEPT ![c] = @ \cup {x \in {s.exchange} : Dispatched(s)}]

Go(c, where) == at' = [at EXCEPT ![c] = where]

\* A call that ends while it prepares keeps its preparation slot (mutant).
DoneKeepsPreparation(c, o) ==
    /\ Go(c, "done")
    /\ outcome' = [outcome EXCEPT ![c] = o]
    /\ tunnel' = [tunnel EXCEPT ![c] = "none"]
    /\ slots' = [slots EXCEPT ![clientOf[c]] = IF c \in slotted THEN @ + 1 ELSE @]
    /\ slotted' = slotted \ {c} /\ prepared' = prepared \ {c}
    /\ UNCHANGED <<call, clientOf, paid, preparations>>
    /\ seen' = [seen EXCEPT ![c] = NewCall(1)]
    /\ attempted' = [attempted EXCEPT ![c] = FALSE] /\ retries' = [retries EXCEPT ![c] = 0]

\* The call returns or raises: everything it entered is left.
Done(c, o) ==
    /\ Go(c, "done")
    /\ outcome' = [outcome EXCEPT ![c] = o]
    /\ tunnel' = [tunnel EXCEPT ![c] = "none"]
    /\ slots' = [slots EXCEPT ![clientOf[c]] = IF c \in slotted THEN @ + 1 ELSE @]
    /\ preparations' = [preparations EXCEPT ![clientOf[c]] = IF c \in prepared THEN @ + 1 ELSE @]
    /\ slotted' = slotted \ {c} /\ prepared' = prepared \ {c}
    /\ UNCHANGED <<call, clientOf, paid>>
    /\ seen' = [seen EXCEPT ![c] = NewCall(1)]
    /\ attempted' = [attempted EXCEPT ![c] = FALSE] /\ retries' = [retries EXCEPT ![c] = 0]

\* The preparation slot is kept for the attempt that follows (mutant).
KeepPrepared(c) == UNCHANGED held

\* preparation.close(), which may have been called before.
Unprepare(c) ==
    /\ preparations' = [preparations EXCEPT ![clientOf[c]] = IF c \in prepared THEN @ + 1 ELSE @]
    /\ prepared' = prepared \ {c}
    /\ UNCHANGED <<slotted, slots>>

-----------------------------------------------------------------------------
(***************************************************************************)
(* A call of create().                                                      *)
(***************************************************************************)
\* Calls for one key take turns within a client.
Resolve(c) ==
    /\ at[c] = "key"
    /\ \A d \in Callers \ {c} :
          KeyOf[d] = KeyOf[c] /\ clientOf[d] = clientOf[c] => at[d] \in {"key", "done"}
    /\ Go(c, "start")
    /\ UNCHANGED <<call, clientOf, seen, local, tunnel, held, outcome, paid>>

\* POST /v1/calls at the witness: a failed attempt is replaced, unless the
\* caller names another one as the failed attempt it knows.
Started(s, expected) ==
    IF s.phase \in {"failed", "rejected"} /\ expected \in {0, s.exchange} THEN NewCall(s.exchange + 1)
    ELSE IF s.phase = "reserved" THEN NewCall(s.exchange) ELSE s

Expected(c) == IF at[c] = "restart" /\ seen[c].phase = "failed" THEN seen[c].exchange ELSE 0

\* The first start, or one that repeats an undispatched attempt; a reply may be
\* lost, and the request is sent again.
Start(c) ==
    LET s == Started(call[KeyOf[c]], Expected(c))
    IN /\ at[c] \in {"start", "restart"}
       /\ s.exchange \in Exchanges
       /\ call' = [call EXCEPT ![KeyOf[c]] = s]
       /\ \/ UNCHANGED <<at, seen, attempted, held, paid>>
          \/ /\ See(c, s)
             /\ attempted' = [attempted EXCEPT ![c] = FALSE]
             /\ IF at[c] = "start" THEN Go(c, "slot") /\ UNCHANGED held
                                   ELSE Go(c, "prepare") /\ Unprepare(c)
       /\ UNCHANGED <<clientOf, retries, tunnel, outcome>>

\* A capture slot is taken by the first snapshot, which may be out of date by then.
TakeSlot(c) ==
    /\ at[c] = "slot"
    /\ \/ /\ NeedsCapture(seen[c]) /\ slots[clientOf[c]] > 0
          /\ slots' = [slots EXCEPT ![clientOf[c]] = @ - 1]
          /\ slotted' = slotted \cup {c}
       \/ ~NeedsCapture(seen[c]) /\ UNCHANGED <<slots, slotted>>
    /\ Go(c, "prepare")
    /\ UNCHANGED <<call, clientOf, seen, local, tunnel, prepared, preparations, outcome, paid>>

Prepare(c) ==
    /\ at[c] = "prepare"
    /\ \/ /\ seen[c].phase = "assigned" /\ preparations[clientOf[c]] > 0
          /\ preparations' = [preparations EXCEPT ![clientOf[c]] = @ - 1]
          /\ prepared' = prepared \cup {c}
       \/ seen[c].phase # "assigned" /\ UNCHANGED <<preparations, prepared>>
    /\ Go(c, "loop")
    /\ UNCHANGED <<call, clientOf, seen, local, tunnel, slotted, slots, outcome, paid>>

\* The evidence of a result is downloaded and compared with the call.
Recorded(c) == \E o \in {"response", "error"} : Done(c, o)

\* The loop ends on a result, on a failure after dispatch and after two retries.
Stop(c) ==
    /\ at[c] = "loop"
    /\ \/ Issued(seen[c]) /\ Recorded(c)
       \/ seen[c].phase = "failed" /\ (~Undispatched(seen[c]) \/ retries[c] = 2) /\ Done(c, "error")

\* Another attempt: for one that never began, or one whose tunnel did not reach
\* the worker.
Again(c) ==
    /\ at[c] = "loop"
    /\ \/ Undispatched(seen[c]) /\ retries[c] < 2
          /\ retries' = [retries EXCEPT ![c] = @ + 1]
       \/ seen[c].phase = "assigned" /\ attempted[c] /\ UNCHANGED retries
    /\ Go(c, "restart")
    /\ UNCHANGED <<call, clientOf, seen, attempted, tunnel, held, outcome, paid>>

Attempt(c) ==
    /\ at[c] = "loop" /\ seen[c].phase = "assigned" /\ ~attempted[c]
    /\ attempted' = [attempted EXCEPT ![c] = TRUE]
    /\ tunnel' = [tunnel EXCEPT ![c] = "open"]
    /\ Go(c, "tunnel")
    /\ UNCHANGED <<call, clientOf, seen, retries, held, outcome, paid>>

\* The worker has verified the proof and is about to release the request: the
\* slot is for others from here on.
Authorized(c) ==
    /\ tunnel[c] = "authorized" /\ c \in prepared
    /\ Unprepare(c)
    /\ UNCHANGED <<call, clientOf, at, seen, local, tunnel, outcome, paid>>

\* The exchange is over or broken; what became of it is read next.
TunnelEnds(c) ==
    /\ at[c] = "tunnel"
    /\ tunnel' = [tunnel EXCEPT ![c] = "none"]
    /\ Go(c, "poll")
    /\ UNCHANGED <<call, clientOf, seen, local, held, outcome, paid>>

\* GET of an attempt that was tried or is joined; it is not found once it has been
\* replaced.
Poll(c) ==
    /\ at[c] = "poll" \/ (at[c] = "loop" /\ seen[c].phase = "capturing")
    /\ \/ /\ call[KeyOf[c]].exchange = seen[c].exchange
          /\ See(c, call[KeyOf[c]])
          /\ Go(c, "loop")
          /\ UNCHANGED <<call, clientOf, local, tunnel, held, outcome>>
       \/ call[KeyOf[c]].exchange # seen[c].exchange /\ Done(c, "error")

\* A request or a check raises: the wait window, which is checked before every
\* request, is over, or the error is not transient.
Raise(c) ==
    /\ \/ at[c] \in {"start", "restart", "poll"}
       \/ at[c] = "loop" /\ ~Issued(seen[c])
       \/ at[c] = "tunnel"
    /\ Done(c, "error")

\* The task of an async call is cancelled, at any of its awaits.
Cancel(c) == at[c] \notin {"loop", "done"} /\ Done(c, "error")

-----------------------------------------------------------------------------
(***************************************************************************)
(* The witness (see Calls).                                                 *)
(***************************************************************************)
Running(k) == {c \in Callers : KeyOf[c] = k /\ tunnel[c] \in {"claimed", "authorized"}
                               /\ seen[c].exchange = call[k].exchange}

\* The worker claims the attempt for the first tunnel.
Claim(c) ==
    LET k == KeyOf[c]
    IN /\ tunnel[c] = "open"
       /\ call[k].phase = "assigned" /\ call[k].exchange = seen[c].exchange
       /\ call' = [call EXCEPT ![k].phase = "capturing"]
       /\ tunnel' = [tunnel EXCEPT ![c] = "claimed"]
       /\ UNCHANGED <<clientOf, at, seen, local, held, outcome, paid>>

Authorize(c) ==
    LET k == KeyOf[c]
    IN /\ tunnel[c] = "claimed" /\ c \in Running(k) /\ call[k].phase = "capturing"
       /\ call' = [call EXCEPT ![k].authorized = TRUE]
       /\ tunnel' = [tunnel EXCEPT ![c] = "authorized"]
       /\ paid' = [paid EXCEPT ![c] = @ \cup {seen[c].exchange}]
       /\ UNCHANGED <<clientOf, at, seen, local, held, outcome>>

\* The capture ends; only one that was not authorized is reported as undispatched.
End(k) ==
    /\ call[k].phase = "capturing"
    /\ \/ call[k].authorized /\ \E p \in {"issued", "rejected"} : call' = [call EXCEPT ![k].phase = p]
       \/ \E u \in BOOLEAN : call' = [call EXCEPT ![k].phase = "failed",
                                      ![k].not_dispatched = u /\ ~call[k].authorized]
    /\ UNCHANGED <<clientOf, at, seen, local, tunnel, held, outcome, paid>>

-----------------------------------------------------------------------------
Step(c) ==
    \/ Resolve(c) \/ Start(c) \/ TakeSlot(c) \/ Prepare(c) \/ Stop(c) \/ Again(c)
    \/ Attempt(c) \/ Authorized(c) \/ TunnelEnds(c) \/ Poll(c)

Next ==
    \/ \E c \in Callers : \/ Step(c) \/ Raise(c) \/ Cancel(c)
                          \/ Claim(c) \/ Authorize(c)
    \/ \E k \in Keys : End(k)

Spec == Init /\ [][Next]_vars

\* Threads and tasks go on, and the wait window ends, however often a call goes
\* round its loop.  Nothing is assumed of the witness: neither that it claims an
\* attempt nor that it ends one.
FairSpec ==
    /\ Spec
    /\ \A c \in Callers : WF_vars(Step(c)) /\ SF_vars(Raise(c))

-----------------------------------------------------------------------------
\* "The SDK does not automatically repeat a paid request after a provider or
\* capture failure" (witness-client/README.md:117): one create() has at most one
\* attempt dispatched, its own or one that it joined and saw dispatched, over lost
\* replies, stale snapshots and other clients (client.py:474-560).
PaysOnce == \A c \in Callers : Cardinality(paid[c]) <= 1

\* "Both client concurrency limits apply": a connection on which the request is
\* not yet authorized is within the limit of preparations, every repeated attempt
\* included, and failure or cancellation gives all capacity back
\* (client.py:462-472, 516-519, 553; witness-client/README.md:361).
Bounded ==
    /\ \A c \in Callers : tunnel[c] \in {"open", "claimed"} => c \in prepared /\ c \in slotted
    /\ \A i \in Clients :
          /\ slots[i] + Cardinality({c \in slotted : clientOf[c] = i}) = Slots
          /\ preparations[i] + Cardinality({c \in prepared : clientOf[c] = i}) = Preparations
    /\ \A c \in Callers : at[c] \in {"key", "done"} => c \notin slotted \cup prepared

\* Calls that wait for each other's key, capture slot and preparation slot do not
\* wait for ever, whatever the witness does (client.py:436-519).
CreatesEnd == \A c \in Callers : <>(at[c] = "done")
=============================================================================
