---------------------------- MODULE ClientProofs ----------------------------
(***************************************************************************)
(* A create() has at most one attempt dispatched, for any number of calls, *)
(* clients and attempts.                                                   *)
(*                                                                         *)
(* Its invariant relates three views of an attempt: the witness's record,  *)
(* the snapshot a call goes by, which may be old, and what the call has    *)
(* paid for.  An attempt that may have been dispatched stays so until it   *)
(* is replaced, and a snapshot that a call acts on to repeat its attempt   *)
(* shows that it was never dispatched.                                     *)
(*                                                                         *)
(* The second half is about the Pod that the calls of a client share: a    *)
(* start that is made again, or late, finds the queue and the inventory as *)
(* the call that made it saw them, and a Pod that was asked to be replaced *)
(* is the one that is being replaced or is gone for good.                  *)
(***************************************************************************)
EXTENDS Client, PodClient, FiniteSetTheorems, SequenceTheorems, TLAPS

\* An attempt that has not begun was not authorized.
Sound(s) == s.phase \in {"reserved", "assigned"} => ~s.authorized

Points == {"key", "start", "slot", "prepare", "loop", "tunnel", "poll", "restart", "done"}

Types ==
    /\ call \in [Keys -> Call] /\ seen \in [Callers -> Call]
    /\ at \in [Callers -> Points]
    /\ attempted \in [Callers -> BOOLEAN]
    /\ tunnel \in [Callers -> {"none", "open", "claimed", "authorized"}]
    /\ paid \in [Callers -> SUBSET Exchanges]
    /\ \A k \in Keys : Sound(call[k])
    /\ \A c \in Callers : Sound(seen[c])

\* What a call knows of its attempt.
Follows(c) ==
    /\ seen[c].exchange <= call[KeyOf[c]].exchange
    /\ tunnel[c] # "none" => at[c] = "tunnel"
    /\ at[c] = "restart" => ~Dispatched(seen[c])

\* What it has paid for.
PaidFor(c) ==
    /\ at[c] \in {"key", "start", "restart"} => paid[c] = {}
    /\ at[c] \in {"slot", "prepare", "loop"} /\ paid[c] # {} => Dispatched(seen[c])
    /\ at[c] # "done" /\ paid[c] # {} =>
          /\ paid[c] = {seen[c].exchange}
          /\ Dispatched(call[KeyOf[c]]) \/ seen[c].exchange < call[KeyOf[c]].exchange
    /\ \E x \in Exchanges : paid[c] \subseteq {x}

Inductive == Types /\ \A c \in Callers : Follows(c) /\ PaidFor(c)

-----------------------------------------------------------------------------
(* How the witness's records change.                                       *)

\* An attempt is replaced by a later one, and once dispatched stays so.
Grows(k) ==
    /\ call[k].exchange <= call'[k].exchange
    /\ call'[k].exchange = call[k].exchange /\ Dispatched(call[k]) => Dispatched(call'[k])

LEMMA ExchangesAreNat == /\ Exchanges \subseteq Nat
                         /\ \A s \in Call : s.exchange \in Nat
<1>1. Exchanges \subseteq Nat
  BY ClientAssumption, FS_CardinalityType
<1> QED BY <1>1 DEF Call

LEMMA KeysOfCallers == \A c \in Callers : KeyOf[c] \in Keys
BY DEF Keys

\* A call that takes no part in a step keeps what it knows.
LEMMA OthersKeep ==
  ASSUME Types, NEW d \in Callers, Follows(d), PaidFor(d),
         call' \in [Keys -> Call], Grows(KeyOf[d]),
         at'[d] = at[d], seen'[d] = seen[d], tunnel'[d] = tunnel[d], paid'[d] = paid[d]
  PROVE Follows(d)' /\ PaidFor(d)'
<1> DEFINE k == KeyOf[d]
<1>1. /\ call[k].exchange \in Nat /\ call'[k].exchange \in Nat /\ seen[d].exchange \in Nat
  BY ExchangesAreNat, KeysOfCallers DEF Types
<1>2. Follows(d)'
  BY <1>1 DEF Follows, Grows
<1>3. PaidFor(d)'
  BY <1>1 DEF PaidFor, Grows, Follows
<1> QED BY <1>2, <1>3

\* POST /v1/calls (records.py).
LEMMA StartedGrows ==
  ASSUME NEW s \in Call, Sound(s), NEW expected
  PROVE LET t == Started(s, expected)
        IN t.exchange \in Exchanges =>
             /\ t \in Call /\ Sound(t)
             /\ s.exchange <= t.exchange
             /\ t.exchange = s.exchange /\ Dispatched(s) => Dispatched(t)
<1> DEFINE t == Started(s, expected)
<1>1. s.exchange \in Nat
  BY ExchangesAreNat
<1>2. CASE s.phase \in {"failed", "rejected"} /\ expected \in {0, s.exchange}
  <2>1. t = NewCall(s.exchange + 1)
    BY <1>2 DEF Started
  <2> QED BY <1>1, <2>1 DEF NewCall, Call, Sound
<1>3. CASE s.phase = "reserved"
  <2>1. t = NewCall(s.exchange) /\ ~Dispatched(s)
    BY <1>3 DEF Started, Dispatched, Issued, Sound
  <2> QED BY <1>1, <2>1 DEF NewCall, Call, Sound
<1>4. CASE /\ ~(s.phase \in {"failed", "rejected"} /\ expected \in {0, s.exchange})
           /\ s.phase # "reserved"
  <2>1. t = s
    BY <1>4 DEF Started
  <2> QED BY <1>1, <2>1
<1> QED BY <1>2, <1>3, <1>4

-----------------------------------------------------------------------------
(* The steps of a create() (client.py).                                    *)

\* Inductive, for a step of one call.
Keeps(c) == Types' /\ Follows(c)' /\ PaidFor(c)' /\ \A k \in Keys : Grows(k)
Alone(c) == \A d \in Callers \ {c} :
              /\ at'[d] = at[d] /\ seen'[d] = seen[d]
              /\ tunnel'[d] = tunnel[d] /\ paid'[d] = paid[d]

LEMMA CallsStand ==
  ASSUME Types, UNCHANGED call
  PROVE \A k \in Keys : Grows(k)
<1>1. \A k \in Keys : call[k].exchange \in Nat
  BY ExchangesAreNat DEF Types
<1> QED BY <1>1 DEF Grows

\* A call that is over (Done) has paid for what it had paid for.
LEMMA DoneKeeps ==
  ASSUME Inductive, NEW c \in Callers, NEW o, Done(c, o)
  PROVE Keeps(c) /\ Alone(c)
<1>1. call[KeyOf[c]].exchange \in Exchanges /\ KeyOf[c] \in Keys
  BY KeysOfCallers DEF Inductive, Types, Call
<1>2. NewCall(1) \in Call /\ Sound(NewCall(1)) /\ 1 <= call[KeyOf[c]].exchange
  BY <1>1, ClientAssumption, FS_CardinalityType DEF NewCall, Call, Sound
<1>3. Types'
  BY <1>2 DEF Inductive, Types, Done, Go, Points
<1>4. at'[c] = "done" /\ seen'[c] = NewCall(1) /\ tunnel'[c] = "none" /\ paid' = paid /\ call' = call
  BY DEF Done, Go, Inductive, Types
<1>5. NewCall(1).exchange = 1
  BY DEF NewCall
<1>6. Follows(c)' /\ PaidFor(c)'
  BY <1>2, <1>4, <1>5 DEF Follows, PaidFor, Inductive
<1>7. \A k \in Keys : Grows(k)
  BY <1>4, CallsStand DEF Inductive
<1>8. Alone(c)
  BY DEF Alone, Done, Go, Inductive, Types
<1> QED BY <1>3, <1>6, <1>7, <1>8 DEF Keeps

\* Steps that touch neither the snapshot nor the payments, nor the witness.
LEMMA MoveKeeps ==
  ASSUME Inductive, NEW c \in Callers,
         \/ Resolve(c) \/ TakeSlot(c) \/ Prepare(c) \/ Again(c)
         \/ Attempt(c) \/ Authorized(c) \/ TunnelEnds(c)
  PROVE Keeps(c) /\ Alone(c)
<1>1. UNCHANGED <<call, seen, paid>>
  BY DEF Resolve, TakeSlot, Prepare, Again, Attempt, Authorized, TunnelEnds, held, local
<1>2. \A k \in Keys : Grows(k)
  BY <1>1, CallsStand DEF Inductive
<1>3. Types' /\ Alone(c)
  BY <1>1 DEF Resolve, TakeSlot, Prepare, Again, Attempt, Authorized, TunnelEnds, held, local,
              Go, Inductive, Types, Points, Alone
<1>4. at'[c] # "key" /\ (at'[c] = "tunnel" \/ tunnel'[c] = "none")
  BY DEF Resolve, TakeSlot, Prepare, Again, Attempt, Authorized, TunnelEnds, held, local,
         Go, Inductive, Types, Follows
<1>5. Sound(seen[c])
  BY DEF Inductive, Types
<1>6. Follows(c) /\ PaidFor(c) /\ Types
  BY DEF Inductive
<1>7. Follows(c)'
  BY <1>1, <1>3, <1>4, <1>5, <1>6
     DEF Follows, Resolve, TakeSlot, Prepare, Again, Attempt, Authorized, TunnelEnds, held, local,
         Go, Types, Sound, Undispatched, Dispatched, Issued
<1>8. PaidFor(c)'
  BY <1>1, <1>3, <1>4, <1>5, <1>6
     DEF PaidFor, Resolve, TakeSlot, Prepare, Again, Attempt, Authorized, TunnelEnds, held, local,
         Go, Types, Sound, Undispatched, Dispatched, Issued
<1> QED BY <1>2, <1>3, <1>7, <1>8 DEF Keeps

\* A start is sent, and its reply taken or lost.
LEMMA StartKeeps ==
  ASSUME Inductive, NEW c \in Callers, Start(c)
  PROVE Keeps(c) /\ Alone(c)
<1> DEFINE k == KeyOf[c]
           s == Started(call[k], Expected(c))
<1>1. k \in Keys /\ call[k] \in Call /\ Sound(call[k])
  BY KeysOfCallers DEF Inductive, Types
<1>2. /\ at[c] \in {"start", "restart"}
      /\ s.exchange \in Exchanges
      /\ call' = [call EXCEPT ![k] = s]
      /\ tunnel' = tunnel
  BY DEF Start
<1>3. /\ s \in Call /\ Sound(s) /\ call[k].exchange <= s.exchange
      /\ s.exchange = call[k].exchange /\ Dispatched(call[k]) => Dispatched(s)
  BY <1>1, <1>2, StartedGrows
<1>4. \/ UNCHANGED <<at, seen, attempted, paid>>
      \/ /\ See(c, s)
         /\ attempted' = [attempted EXCEPT ![c] = FALSE]
         /\ IF at[c] = "start" THEN Go(c, "slot") ELSE Go(c, "prepare")
  BY DEF Start, held
<1>5. \A j \in Keys : call[j] \in Call /\ call[j].exchange \in Nat /\ Sound(call[j])
  BY ExchangesAreNat DEF Inductive, Types
<1>6. paid[c] = {} /\ tunnel[c] = "none"
  BY <1>2, KeysOfCallers DEF Inductive, PaidFor, Follows
<1> HIDE DEF s
<1>7. call'[k] = s /\ \A j \in Keys \ {k} : call'[j] = call[j]
  BY <1>1, <1>2 DEF Inductive, Types
<1>8. \A j \in Keys : Grows(j)
  BY <1>3, <1>5, <1>7 DEF Grows
<1>9. Types'
  <2>1. call' \in [Keys -> Call] /\ \A j \in Keys : Sound(call'[j])
    BY <1>1, <1>2, <1>3, <1>5, <1>7 DEF Inductive, Types
  <2>2. /\ seen' \in [Callers -> Call] /\ \A d \in Callers : Sound(seen'[d])
        /\ paid' \in [Callers -> SUBSET Exchanges]
    BY <1>2, <1>3, <1>4 DEF Inductive, Types, See
  <2>3. at' \in [Callers -> Points] /\ attempted' \in [Callers -> BOOLEAN]
    BY <1>4 DEF Inductive, Types, Go, Points
  <2> QED BY <1>2, <2>1, <2>2, <2>3 DEF Inductive, Types
<1>10. Alone(c)
  BY <1>2, <1>4 DEF Alone, Inductive, Types, See, Go
<1>11. CASE UNCHANGED <<at, seen, attempted, paid>>
  <2>1. Follows(c) /\ PaidFor(c) /\ Types
    BY DEF Inductive
  <2> QED BY <1>1, <1>2, <1>3, <1>5, <1>6, <1>8, <1>9, <1>10, <1>11, <2>1, OthersKeep
          DEF Keeps, Types
<1>12. CASE /\ See(c, s)
            /\ IF at[c] = "start" THEN Go(c, "slot") ELSE Go(c, "prepare")
  <2>1. seen'[c] = s /\ at'[c] \in {"slot", "prepare"}
    BY <1>12 DEF See, Go, Inductive, Types
  <2>2. paid'[c] = {x \in {s.exchange} : Dispatched(s)}
    BY <1>6, <1>12 DEF See, Inductive, Types
  <2>3. s.exchange \in Nat
    BY <1>3, ExchangesAreNat
  <2>4. Follows(c)'
    BY <1>2, <1>6, <1>7, <2>1, <2>3 DEF Follows
  <2>5. PaidFor(c)'
    BY <1>2, <1>7, <2>1, <2>2, <2>3 DEF PaidFor
  <2> QED BY <1>8, <1>9, <1>10, <2>4, <2>5 DEF Keeps
<1> QED BY <1>4, <1>11, <1>12

\* What became of the attempt is read.
LEMMA PollKeeps ==
  ASSUME Inductive, NEW c \in Callers, Poll(c)
  PROVE Keeps(c) /\ Alone(c)
<1> DEFINE s == call[KeyOf[c]]
<1>1. s \in Call /\ Sound(s) /\ s.exchange \in Nat /\ s.exchange \in Exchanges
  BY KeysOfCallers, ExchangesAreNat DEF Inductive, Types, Call
<1>2. CASE /\ s.exchange = seen[c].exchange
           /\ See(c, s) /\ Go(c, "loop")
           /\ UNCHANGED <<call, clientOf, local, tunnel, held, outcome>>
  <2>1. seen'[c] = s /\ at'[c] = "loop" /\ call' = call /\ tunnel' = tunnel
    BY <1>2 DEF See, Go, Inductive, Types
  <2>2. paid'[c] = paid[c] \cup {x \in {s.exchange} : Dispatched(s)}
    BY <1>2 DEF See, Inductive, Types
  <2>3. at[c] \in {"poll", "loop"} /\ tunnel[c] = "none"
    BY DEF Poll, Inductive, Follows
  <2>4. paid[c] # {} => paid[c] = {s.exchange} /\ Dispatched(s)
    BY <1>1, <1>2, <2>3 DEF Inductive, PaidFor
  <2>5. Types' /\ Alone(c)
    BY <1>1, <1>2 DEF Inductive, Types, See, Go, Points, Alone, local
  <2>6. Follows(c)'
    BY <1>1, <2>1, <2>3 DEF Follows
  <2>7. PaidFor(c)'
    <3> HIDE DEF s
    <3>1. paid'[c] = {} \/ (paid'[c] = {s.exchange} /\ Dispatched(s))
      BY <2>2, <2>4
    <3>2. call'[KeyOf[c]] = s
      BY <2>1 DEF s
    <3> QED BY <1>1, <2>1, <3>1, <3>2 DEF PaidFor
  <2> QED BY <2>1, <2>5, <2>6, <2>7, CallsStand DEF Keeps, Inductive
<1>3. CASE Done(c, "error")
  BY <1>3, DoneKeeps
<1> QED BY <1>2, <1>3 DEF Poll

LEMMA OverKeeps ==
  ASSUME Inductive, NEW c \in Callers, Stop(c) \/ Raise(c) \/ Cancel(c)
  PROVE Keeps(c) /\ Alone(c)
<1>1. \E o : Done(c, o)
  BY DEF Stop, Raise, Cancel, Recorded
<1> QED BY <1>1, DoneKeeps

-----------------------------------------------------------------------------
(* The steps of the witness.                                               *)

\* The worker claims the attempt, and releases its request.
LEMMA WorkerKeeps ==
  ASSUME Inductive, NEW c \in Callers, Claim(c) \/ Authorize(c)
  PROVE Keeps(c) /\ Alone(c)
<1> DEFINE k == KeyOf[c]
<1>1. /\ k \in Keys /\ call[k] \in Call /\ Sound(call[k])
      /\ call[k].exchange \in Nat /\ seen[c] \in Call /\ seen[c].exchange \in Exchanges
  BY KeysOfCallers, ExchangesAreNat DEF Inductive, Types, Call
<1>2. /\ seen' = seen /\ at' = at /\ attempted' = attempted /\ call[k].exchange = seen[c].exchange
      /\ tunnel[c] # "none"
  BY DEF Claim, Authorize, Running, local
<1>3. at[c] = "tunnel"
  BY <1>2 DEF Inductive, Follows
<1>4. /\ call'[k] \in Call /\ Sound(call'[k]) /\ call'[k].exchange = call[k].exchange
      /\ Dispatched(call[k]) => Dispatched(call'[k])
      /\ Authorize(c) => Dispatched(call'[k])
      /\ \A j \in Keys \ {k} : call'[j] = call[j]
      /\ call' \in [Keys -> Call]
  <2>1. CASE Claim(c)
    <3> DEFINE t == [call[k] EXCEPT !.phase = "capturing"]
    <3>1. t \in Call /\ Sound(t) /\ t.exchange = call[k].exchange
      BY <1>1 DEF Call, Sound
    <3>2. ~Dispatched(call[k])
      BY <1>1, <2>1 DEF Claim, Dispatched, Issued, Sound
    <3>3. call' = [call EXCEPT ![k] = t]
      BY <2>1 DEF Claim
    <3>4. ~Authorize(c)
      BY <2>1 DEF Claim, Authorize
    <3> HIDE DEF t
    <3> QED BY <1>1, <3>1, <3>2, <3>3, <3>4 DEF Inductive, Types
  <2>2. CASE Authorize(c)
    <3> DEFINE t == [call[k] EXCEPT !.authorized = TRUE]
    <3>1. t \in Call /\ Sound(t) /\ t.exchange = call[k].exchange /\ Dispatched(t)
      BY <1>1, <2>2 DEF Authorize, Call, Sound, Dispatched
    <3>2. call' = [call EXCEPT ![k] = t]
      BY <2>2 DEF Authorize
    <3> HIDE DEF t
    <3> QED BY <1>1, <3>1, <3>2 DEF Inductive, Types
  <2> QED BY <2>1, <2>2
<1>5. \A j \in Keys : call[j].exchange \in Nat
  BY ExchangesAreNat DEF Inductive, Types
<1>6. \A j \in Keys : Grows(j)
  BY <1>1, <1>4, <1>5 DEF Grows
<1>7. /\ paid' \in [Callers -> SUBSET Exchanges]
      /\ Claim(c) => paid' = paid
      /\ Authorize(c) => paid'[c] = paid[c] \cup {seen[c].exchange}
  BY <1>1 DEF Claim, Authorize, Inductive, Types
<1>8. Types'
  BY <1>2, <1>4, <1>7 DEF Claim, Authorize, Inductive, Types
<1>9. Alone(c)
  BY <1>2 DEF Alone, Claim, Authorize, Inductive, Types
<1>10. Follows(c)'
  BY <1>1, <1>2, <1>3, <1>4 DEF Inductive, Follows
<1>11. PaidFor(c)'
  BY <1>1, <1>2, <1>3, <1>4, <1>7 DEF Inductive, PaidFor
<1> QED BY <1>6, <1>8, <1>9, <1>10, <1>11 DEF Keeps

\* A capture ends.
LEMMA EndKeeps ==
  ASSUME Inductive, NEW k \in Keys, End(k)
  PROVE Types' /\ \A j \in Keys : Grows(j)
<1>1. call[k] \in Call /\ Sound(call[k])
  BY DEF Inductive, Types
<1>2. /\ call'[k] \in Call /\ Sound(call'[k]) /\ call'[k].exchange = call[k].exchange
      /\ Dispatched(call[k]) => Dispatched(call'[k])
      /\ \A j \in Keys \ {k} : call'[j] = call[j]
      /\ call' \in [Keys -> Call]
  BY <1>1 DEF End, Inductive, Types, Call, Sound, Dispatched, Issued
<1>3. \A j \in Keys : call[j].exchange \in Nat
  BY ExchangesAreNat DEF Inductive, Types
<1>4. \A j \in Keys : Grows(j)
  BY <1>2, <1>3 DEF Grows
<1>5. Types'
  BY <1>2 DEF End, local, Inductive, Types
<1> QED BY <1>4, <1>5

-----------------------------------------------------------------------------
(* The invariant.                                                          *)

LEMMA InitInductive == Init => Inductive
<1> SUFFICES ASSUME Init PROVE Inductive
  OBVIOUS
<1>1. 1 \in Exchanges
  BY ClientAssumption
<1>2. NewCall(1) \in Call /\ Sound(NewCall(1)) /\ NewCall(1).exchange = 1
  BY <1>1 DEF NewCall, Call, Sound
<1> DEFINE r == [NewCall(1) EXCEPT !.phase = "reserved"]
<1>3. r \in Call /\ Sound(r) /\ r.exchange = 1
  BY <1>1 DEF NewCall, Call, Sound
<1> HIDE DEF r
<1>4. call = [k \in Keys |-> r]
  BY DEF Init, r
<1>5. Types
  BY <1>2, <1>3, <1>4 DEF Init, Types, Points
<1>6. \A c \in Callers : Follows(c) /\ PaidFor(c)
  BY <1>1, <1>2, <1>3, <1>4, KeysOfCallers DEF Init, Follows, PaidFor
<1> QED BY <1>5, <1>6 DEF Inductive

LEMMA StepKeeps ==
  ASSUME Inductive, NEW c \in Callers, Keeps(c), Alone(c)
  PROVE Inductive'
<1>1. ASSUME NEW d \in Callers \ {c}
      PROVE Follows(d)' /\ PaidFor(d)'
  BY <1>1, OthersKeep, KeysOfCallers DEF Inductive, Keeps, Alone, Types
<1> QED BY <1>1 DEF Inductive, Keeps

LEMMA NextKeeps ==
  ASSUME Inductive, [Next]_vars
  PROVE Inductive'
<1>1. ASSUME NEW c \in Callers, Step(c) \/ Raise(c) \/ Cancel(c) \/ Claim(c) \/ Authorize(c)
      PROVE Inductive'
  <2>1. Keeps(c) /\ Alone(c)
    BY <1>1, MoveKeeps, StartKeeps, PollKeeps, OverKeeps, WorkerKeeps DEF Step
  <2> QED BY <2>1, StepKeeps
<1>2. ASSUME NEW k \in Keys, End(k)
      PROVE Inductive'
  <2>1. UNCHANGED <<at, seen, tunnel, paid>>
    BY <1>2 DEF End
  <2>2. Types' /\ \A j \in Keys : Grows(j)
    BY <1>2, EndKeeps
  <2>3. ASSUME NEW d \in Callers
        PROVE Follows(d)' /\ PaidFor(d)'
    BY <2>1, <2>2, OthersKeep, KeysOfCallers DEF Inductive, Types
  <2> QED BY <2>2, <2>3 DEF Inductive
<1>3. CASE UNCHANGED vars
  BY <1>3 DEF vars, local, Inductive, Types, Follows, PaidFor
<1> QED BY <1>1, <1>2, <1>3 DEF Next

\* "The SDK does not automatically repeat a paid request after a provider or
\* capture failure" (witness-client/README.md:117), for any number of calls,
\* clients and attempts.
THEOREM CreatesPayOnce == Spec => []PaysOnce
<1>1. Inductive => PaysOnce
  <2> SUFFICES ASSUME Inductive, NEW c \in Callers
               PROVE Cardinality(paid[c]) <= 1
    BY DEF PaysOnce
  <2>1. PICK x \in Exchanges : paid[c] \subseteq {x}
    BY DEF Inductive, PaidFor
  <2>2. paid[c] = {} \/ paid[c] = {x}
    BY <2>1
  <2>3. Cardinality({}) = 0 /\ Cardinality({x}) = 1
    BY FS_EmptySet, FS_Singleton
  <2> QED BY <2>2, <2>3
<1>2. Inductive /\ [Next]_vars => Inductive'
  BY NextKeeps
<1> QED BY InitInductive, <1>1, <1>2, PTL DEF Spec

-----------------------------------------------------------------------------
(* The client's capacity.                                                  *)

\* An attempt that began, and one that needs no capture any more, stay so.
Begun(s) == s.phase \notin {"reserved", "assigned"}

Ages(k) ==
    call'[k].exchange = call[k].exchange =>
        /\ Begun(call[k]) => Begun(call'[k])
        /\ NeedsCapture(call'[k]) => NeedsCapture(call[k])

\* What a call holds where it is, and what it needs for going on.
Holds(c) ==
    /\ seen[c].exchange = call[KeyOf[c]].exchange =>
          /\ Begun(seen[c]) => Begun(call[KeyOf[c]])
          /\ NeedsCapture(call[KeyOf[c]]) => NeedsCapture(seen[c])
    /\ at[c] \in {"key", "start", "slot", "done"} => c \notin slotted
    /\ at[c] \in {"key", "start", "slot", "prepare", "done"} => c \notin prepared
    /\ at[c] \in {"prepare", "loop", "tunnel", "poll", "restart"} /\ NeedsCapture(seen[c])
          => c \in slotted
    /\ at[c] = "restart" => c \in slotted
    /\ at[c] = "loop" /\ seen[c].phase = "assigned" /\ ~attempted[c] => c \in prepared
    /\ at[c] \in {"tunnel", "poll"} => attempted[c]
    /\ tunnel[c] \in {"open", "claimed"} => c \in prepared /\ c \in slotted

\* Those of a client that hold something.
Of(S, i) == {c \in S : clientOf[c] = i}

HeldTypes ==
    /\ slotted \subseteq Callers /\ prepared \subseteq Callers
    /\ clientOf \in [Callers -> Clients]
    /\ slots \in [Clients -> Nat] /\ preparations \in [Clients -> Nat]

Counted ==
    \A i \in Clients : /\ slots[i] + Cardinality(Of(slotted, i)) = Slots
                       /\ preparations[i] + Cardinality(Of(prepared, i)) = Preparations

Capacity == HeldTypes /\ Counted /\ \A c \in Callers : Holds(c)

LEMMA OfAdd ==
  ASSUME NEW S \in SUBSET Callers, NEW c \in Callers, c \notin S, NEW i
  PROVE /\ Cardinality(Of(S, i)) \in Nat
        /\ Cardinality(Of(S \cup {c}, i)) =
             IF clientOf[c] = i THEN Cardinality(Of(S, i)) + 1 ELSE Cardinality(Of(S, i))
<1>1. IsFiniteSet(Of(S, i)) /\ Cardinality(Of(S, i)) \in Nat
  BY ClientAssumption, FS_Subset, FS_CardinalityType DEF Of
<1>2. Of(S \cup {c}, i) = IF clientOf[c] = i THEN Of(S, i) \cup {c} ELSE Of(S, i)
  BY DEF Of
<1>3. c \notin Of(S, i)
  BY DEF Of
<1> QED BY <1>1, <1>2, <1>3, FS_AddElement

LEMMA OfRemove ==
  ASSUME NEW S \in SUBSET Callers, NEW c \in S, NEW i
  PROVE /\ Cardinality(Of(S, i)) \in Nat
        /\ Cardinality(Of(S \ {c}, i)) =
             IF clientOf[c] = i THEN Cardinality(Of(S, i)) - 1 ELSE Cardinality(Of(S, i))
<1>1. IsFiniteSet(Of(S, i)) /\ Cardinality(Of(S, i)) \in Nat
  BY ClientAssumption, FS_Subset, FS_CardinalityType DEF Of
<1>2. Of(S \ {c}, i) = IF clientOf[c] = i THEN Of(S, i) \ {c} ELSE Of(S, i)
  BY DEF Of
<1>3. clientOf[c] = i => c \in Of(S, i)
  BY DEF Of
<1>4. clientOf[c] = i => Cardinality(Of(S, i) \ {c}) = Cardinality(Of(S, i)) - 1
  BY <1>1, <1>3, FS_RemoveElement
<1> QED BY <1>1, <1>2, <1>4

\* A slot is taken, or given back if it was held: f counts the free ones of n,
\* S the calls that hold one.
Take(S, f, c, T, g) ==
    c \notin S /\ f[clientOf[c]] > 0 /\ T = S \cup {c} /\ g = [f EXCEPT ![clientOf[c]] = @ - 1]

Give(S, f, c, T, g) ==
    T = S \ {c} /\ g = [f EXCEPT ![clientOf[c]] = IF c \in S THEN @ + 1 ELSE @]

Moved(S, f, c, T, g) ==
    Take(S, f, c, T, g) \/ Give(S, f, c, T, g) \/ (T = S /\ g = f)

Balanced(S, f, n) ==
    /\ S \in SUBSET Callers /\ f \in [Clients -> Nat]
    /\ \A i \in Clients : f[i] + Cardinality(Of(S, i)) = n

SameFor(S, T, c) == \A d \in Callers \ {c} : d \in T <=> d \in S

LEMMA SlotsCounted ==
  ASSUME clientOf \in [Callers -> Clients], NEW c \in Callers, NEW n \in Nat,
         NEW S, NEW T, NEW f, NEW g, Balanced(S, f, n), Moved(S, f, c, T, g)
  PROVE Balanced(T, g, n) /\ SameFor(S, T, c)
<1> USE DEF Balanced, SameFor, Moved
<1>1. CASE Take(S, f, c, T, g)
  <2>1. ASSUME NEW i \in Clients
        PROVE g[i] + Cardinality(Of(T, i)) = n
    <3>1. /\ Cardinality(Of(S, i)) \in Nat
          /\ Cardinality(Of(T, i)) =
               IF clientOf[c] = i THEN Cardinality(Of(S, i)) + 1 ELSE Cardinality(Of(S, i))
      BY <1>1, OfAdd DEF Take
    <3>2. g[i] = IF clientOf[c] = i THEN f[i] - 1 ELSE f[i]
      BY <1>1 DEF Take
    <3> QED BY <3>1, <3>2
  <2> QED BY <1>1, <2>1 DEF Take
<1>2. CASE Give(S, f, c, T, g) /\ c \in S
  <2>1. ASSUME NEW i \in Clients
        PROVE g[i] + Cardinality(Of(T, i)) = n
    <3>1. /\ Cardinality(Of(S, i)) \in Nat
          /\ Cardinality(Of(T, i)) =
               IF clientOf[c] = i THEN Cardinality(Of(S, i)) - 1 ELSE Cardinality(Of(S, i))
      BY <1>2, OfRemove DEF Give
    <3>2. g[i] = IF clientOf[c] = i THEN f[i] + 1 ELSE f[i]
      BY <1>2 DEF Give
    <3> QED BY <3>1, <3>2
  <2> QED BY <1>2, <2>1 DEF Give
<1>3. CASE Give(S, f, c, T, g) /\ c \notin S
  <2>1. T = S /\ g = f
    BY <1>3 DEF Give
  <2> QED BY <2>1
<1>4. CASE T = S /\ g = f
  BY <1>4
<1> QED BY <1>1, <1>2, <1>3, <1>4

\* What a step of a call does to the client's slots.
Moves(c) ==
    /\ clientOf' = clientOf
    /\ Moved(slotted, slots, c, slotted', slots')
    /\ Moved(prepared, preparations, c, prepared', preparations')

LEMMA MovesCount ==
  ASSUME Capacity, NEW c \in Callers, Moves(c)
  PROVE HeldTypes' /\ Counted' /\ SameFor(slotted, slotted', c) /\ SameFor(prepared, prepared', c)
<1>1. clientOf \in [Callers -> Clients] /\ Slots \in Nat /\ Preparations \in Nat
  BY ClientAssumption DEF Capacity, HeldTypes
<1>2. Balanced(slotted, slots, Slots) /\ Balanced(prepared, preparations, Preparations)
  BY DEF Capacity, HeldTypes, Counted, Balanced
<1>3. Balanced(slotted', slots', Slots) /\ SameFor(slotted, slotted', c)
  BY <1>1, <1>2, SlotsCounted DEF Moves
<1>4. Balanced(prepared', preparations', Preparations) /\ SameFor(prepared, prepared', c)
  BY <1>1, <1>2, SlotsCounted DEF Moves
<1>5. clientOf' = clientOf
  BY DEF Moves
<1> QED BY <1>1, <1>3, <1>4, <1>5 DEF HeldTypes, Counted, Balanced, Of

\* Each step moves at most one slot of each kind, and its own.
LEMMA StepMoves ==
  ASSUME Capacity, Inductive, NEW c \in Callers,
         Step(c) \/ Raise(c) \/ Cancel(c) \/ Claim(c) \/ Authorize(c)
  PROVE Moves(c)
<1>1. Holds(c) /\ at[c] \in Points
  BY DEF Capacity, Inductive, Types
<1>2. ASSUME UNCHANGED <<clientOf, held>>
      PROVE Moves(c)
  BY <1>2 DEF Moves, Moved, held
<1>3. ASSUME UNCHANGED clientOf, Unprepare(c)
      PROVE Moves(c)
  BY <1>3 DEF Moves, Moved, Give, Unprepare
<1>4. ASSUME NEW o, Done(c, o)
      PROVE Moves(c)
  BY <1>4 DEF Moves, Moved, Give, Done
<1>5. CASE Resolve(c) \/ Again(c) \/ Attempt(c) \/ TunnelEnds(c) \/ Claim(c) \/ Authorize(c)
  BY <1>2, <1>5 DEF Resolve, Again, Attempt, TunnelEnds, Claim, Authorize
<1>6. CASE Start(c) \/ Authorized(c)
  BY <1>2, <1>3, <1>6 DEF Start, Authorized
<1>7. CASE TakeSlot(c)
  <2>1. c \notin slotted
    BY <1>1, <1>7 DEF TakeSlot, Holds
  <2> QED BY <1>7, <2>1 DEF TakeSlot, Moves, Moved, Take
<1>8. CASE Prepare(c)
  <2>1. c \notin prepared
    BY <1>1, <1>8 DEF Prepare, Holds
  <2> QED BY <1>8, <2>1 DEF Prepare, Moves, Moved, Take
<1>9. CASE Stop(c) \/ Raise(c) \/ Cancel(c) \/ Poll(c)
  BY <1>2, <1>4, <1>9 DEF Stop, Recorded, Raise, Cancel, Poll
<1> QED BY <1>5, <1>6, <1>7, <1>8, <1>9 DEF Step

\* What the witness does to an attempt.
LEMMA StartedAges ==
  ASSUME NEW s \in Call, NEW expected
  PROVE LET t == Started(s, expected)
        IN t.exchange = s.exchange => /\ Begun(s) => Begun(t)
                                      /\ NeedsCapture(t) => NeedsCapture(s)
<1> DEFINE t == Started(s, expected)
<1>1. s.exchange \in Nat
  BY ExchangesAreNat
<1>2. CASE s.phase \in {"failed", "rejected"} /\ expected \in {0, s.exchange}
  <2>1. t.exchange = s.exchange + 1
    BY <1>2 DEF Started, NewCall
  <2> QED BY <1>1, <2>1
<1>3. CASE s.phase = "reserved"
  BY <1>3 DEF Begun, NeedsCapture, Issued
<1>4. CASE /\ ~(s.phase \in {"failed", "rejected"} /\ expected \in {0, s.exchange})
           /\ s.phase # "reserved"
  <2>1. t = s
    BY <1>4 DEF Started
  <2> QED BY <2>1
<1> QED BY <1>2, <1>3, <1>4

LEMMA WitnessAges ==
  ASSUME Types, NEW k \in Keys,
         \/ UNCHANGED call
         \/ \E c \in Callers : Start(c) \/ Claim(c) \/ Authorize(c)
         \/ \E j \in Keys : End(j)
  PROVE Ages(k)
<1>1. call[k] \in Call /\ Sound(call[k])
  BY DEF Types
<1>2. CASE call'[k] = call[k]
  BY <1>2 DEF Ages
<1>3. CASE call'[k] # call[k] /\ UNCHANGED call
  BY <1>3
<1>4. ASSUME NEW c \in Callers, Start(c), call'[k] # call[k]
      PROVE Ages(k)
  <2>1. k = KeyOf[c] /\ call'[k] = Started(call[k], Expected(c))
    BY <1>4 DEF Start, Types
  <2> QED BY <1>1, <2>1, StartedAges DEF Ages
<1>5. ASSUME NEW c \in Callers, Claim(c), call'[k] # call[k]
      PROVE Ages(k)
  <2>1. call[k].phase = "assigned"
    BY <1>5 DEF Claim, Types
  <2> QED BY <2>1 DEF Ages, Begun, NeedsCapture, Issued
<1>6. ASSUME NEW c \in Callers, Authorize(c), call'[k] # call[k]
      PROVE Ages(k)
  <2>1. call[k].phase = "capturing" /\ call'[k] = [call[k] EXCEPT !.authorized = TRUE]
    BY <1>6 DEF Authorize, Types
  <2> QED BY <1>1, <2>1 DEF Ages, Begun, NeedsCapture, Issued, Call
<1>7. ASSUME NEW j \in Keys, End(j), call'[k] # call[k]
      PROVE Ages(k)
  <2>1. call[k].phase = "capturing" /\ j = k
    BY <1>7 DEF End, Types
  <2>2. Begun(call'[k])
    BY <1>1, <1>7, <2>1 DEF End, Types, Call, Begun
  <2> QED BY <2>1, <2>2 DEF Ages, Begun, NeedsCapture, Issued
<1> QED BY <1>2, <1>3, <1>4, <1>5, <1>6, <1>7

LEMMA OthersHold ==
  ASSUME Types, NEW d \in Callers, Follows(d), Holds(d), Ages(KeyOf[d]), Grows(KeyOf[d]),
         call' \in [Keys -> Call],
         at'[d] = at[d], seen'[d] = seen[d], tunnel'[d] = tunnel[d], attempted'[d] = attempted[d],
         d \in slotted' <=> d \in slotted, d \in prepared' <=> d \in prepared
  PROVE Holds(d)'
<1> DEFINE k == KeyOf[d]
<1>1. call[k].exchange \in Nat /\ call'[k].exchange \in Nat /\ seen[d].exchange \in Nat
  BY ExchangesAreNat, KeysOfCallers DEF Types
<1>2. seen'[d].exchange = call'[k].exchange => call'[k].exchange = call[k].exchange
  BY <1>1 DEF Follows, Grows
<1> QED BY <1>1, <1>2 DEF Holds, Ages, Begun, NeedsCapture, Issued, Undispatched

-----------------------------------------------------------------------------
(* A step of a call and what the call holds after it.                      *)

LEMMA DoneHolds ==
  ASSUME Inductive, Capacity, NEW c \in Callers, NEW o, Done(c, o)
  PROVE Holds(c)'
<1>1. /\ at'[c] = "done" /\ seen'[c] = NewCall(1) /\ tunnel'[c] = "none"
      /\ slotted' = slotted \ {c} /\ prepared' = prepared \ {c} /\ call' = call
  BY DEF Done, Go, Inductive, Types
<1>2. ~Begun(NewCall(1)) /\ NeedsCapture(NewCall(1))
  BY DEF NewCall, Begun, NeedsCapture, Issued, Undispatched
<1> QED BY <1>1, <1>2 DEF Holds

LEMMA ResolveHolds ==
  ASSUME Inductive, Capacity, NEW c \in Callers, Resolve(c)
  PROVE Holds(c)'
<1>1. Holds(c) /\ Types
  BY DEF Capacity, Inductive
<1> QED BY <1>1 DEF Resolve, Holds, Go, Types, held, local

LEMMA StartHolds ==
  ASSUME Inductive, Capacity, NEW c \in Callers, Start(c)
  PROVE Holds(c)'
<1> DEFINE k == KeyOf[c]
           s == Started(call[k], Expected(c))
<1>1. Holds(c) /\ Follows(c) /\ Types
  BY DEF Capacity, Inductive
<1>2. k \in Keys /\ call' = [call EXCEPT ![k] = s] /\ tunnel' = tunnel
      /\ at[c] \in {"start", "restart"} /\ tunnel[c] = "none" /\ s.exchange \in Exchanges
  BY <1>1, KeysOfCallers DEF Start, Follows
<1>3. Grows(k) /\ Ages(k) /\ call' \in [Keys -> Call]
  <2>1. Keeps(c)
    BY StartKeeps
  <2> QED BY <1>1, <1>2, <2>1, WitnessAges DEF Keeps, Types
<1>4. CASE UNCHANGED <<at, seen, attempted, held, paid>>
  BY <1>1, <1>2, <1>3, <1>4, OthersHold DEF held
<1>5. CASE /\ See(c, s)
           /\ attempted' = [attempted EXCEPT ![c] = FALSE]
           /\ IF at[c] = "start" THEN Go(c, "slot") /\ UNCHANGED held
                                 ELSE Go(c, "prepare") /\ Unprepare(c)
  <2> HIDE DEF s
  <2>1. seen'[c] = s /\ call'[k] = s
    BY <1>1, <1>2, <1>5 DEF See, Types
  <2>2. CASE at[c] = "start"
    <3>1. at'[c] = "slot" /\ c \notin slotted' /\ c \notin prepared'
      BY <1>1, <1>5, <2>2 DEF Go, held, Holds, Types
    <3> QED BY <1>2, <2>1, <3>1 DEF Holds
  <2>3. CASE at[c] = "restart"
    <3>1. at'[c] = "prepare" /\ c \in slotted' /\ c \notin prepared'
      BY <1>1, <1>5, <2>3 DEF Go, Unprepare, Holds, Types
    <3> QED BY <1>2, <2>1, <3>1 DEF Holds
  <2> QED BY <1>2, <2>2, <2>3
<1> QED BY <1>4, <1>5 DEF Start

LEMMA TakeSlotHolds ==
  ASSUME Inductive, Capacity, NEW c \in Callers, TakeSlot(c)
  PROVE Holds(c)'
<1>1. Holds(c) /\ Follows(c) /\ Types
  BY DEF Capacity, Inductive
<1>2. /\ at[c] = "slot" /\ at'[c] = "prepare" /\ seen' = seen /\ call' = call
      /\ tunnel' = tunnel /\ prepared' = prepared /\ attempted' = attempted
      /\ NeedsCapture(seen[c]) => c \in slotted'
  BY <1>1 DEF TakeSlot, Go, Types, local
<1>3. tunnel[c] = "none" /\ c \notin prepared
  BY <1>1, <1>2 DEF Follows, Holds
<1> QED BY <1>1, <1>2, <1>3 DEF Holds, Begun, NeedsCapture, Issued, Undispatched

LEMMA PrepareHolds ==
  ASSUME Inductive, Capacity, NEW c \in Callers, Prepare(c)
  PROVE Holds(c)'
<1>1. Holds(c) /\ Follows(c) /\ Types
  BY DEF Capacity, Inductive
<1>2. /\ at[c] = "prepare" /\ at'[c] = "loop" /\ seen' = seen /\ call' = call
      /\ tunnel' = tunnel /\ slotted' = slotted /\ attempted' = attempted
      /\ seen[c].phase = "assigned" => c \in prepared'
  BY <1>1 DEF Prepare, Go, Types, local
<1>3. tunnel[c] = "none"
  BY <1>1, <1>2 DEF Follows
<1> QED BY <1>1, <1>2, <1>3 DEF Holds, Begun, NeedsCapture, Issued, Undispatched

LEMMA AgainHolds ==
  ASSUME Inductive, Capacity, NEW c \in Callers, Again(c)
  PROVE Holds(c)'
<1>1. Holds(c) /\ Follows(c) /\ Types
  BY DEF Capacity, Inductive
<1>2. /\ at[c] = "loop" /\ at'[c] = "restart" /\ seen' = seen /\ call' = call
      /\ tunnel' = tunnel /\ slotted' = slotted /\ prepared' = prepared /\ attempted' = attempted
  BY <1>1 DEF Again, Go, Types, held
<1>3. NeedsCapture(seen[c])
  BY DEF Again, NeedsCapture, Issued, Undispatched
<1>4. tunnel[c] = "none" /\ c \in slotted
  BY <1>1, <1>2, <1>3 DEF Follows, Holds
<1> QED BY <1>1, <1>2, <1>4 DEF Holds, Begun, NeedsCapture, Issued, Undispatched

LEMMA AttemptHolds ==
  ASSUME Inductive, Capacity, NEW c \in Callers, Attempt(c)
  PROVE Holds(c)'
<1>1. Holds(c) /\ Types
  BY DEF Capacity, Inductive
<1>2. /\ at[c] = "loop" /\ at'[c] = "tunnel" /\ seen' = seen /\ call' = call
      /\ slotted' = slotted /\ prepared' = prepared /\ attempted'[c]
      /\ seen[c].phase = "assigned" /\ ~attempted[c]
  BY <1>1 DEF Attempt, Go, Types, held
<1>3. NeedsCapture(seen[c])
  BY <1>2 DEF NeedsCapture, Issued
<1> QED BY <1>1, <1>2, <1>3 DEF Holds, Begun, NeedsCapture, Issued, Undispatched

LEMMA TunnelHolds ==
  ASSUME Inductive, Capacity, NEW c \in Callers, Authorized(c) \/ TunnelEnds(c)
  PROVE Holds(c)'
<1>1. Holds(c) /\ Follows(c) /\ Types
  BY DEF Capacity, Inductive
<1>2. seen' = seen /\ call' = call /\ attempted' = attempted /\ at[c] = "tunnel"
  BY <1>1 DEF Authorized, TunnelEnds, Follows, local
<1>3. CASE Authorized(c)
  <2>1. at' = at /\ tunnel' = tunnel /\ tunnel[c] = "authorized" /\ slotted' = slotted
    BY <1>3 DEF Authorized, Unprepare
  <2> QED BY <1>1, <1>2, <2>1 DEF Holds, Begun, NeedsCapture, Issued, Undispatched
<1>4. CASE TunnelEnds(c)
  <2>1. at'[c] = "poll" /\ tunnel'[c] = "none" /\ slotted' = slotted /\ prepared' = prepared
    BY <1>1, <1>4 DEF TunnelEnds, Go, Types, held
  <2> QED BY <1>1, <1>2, <2>1 DEF Holds, Begun, NeedsCapture, Issued, Undispatched
<1> QED BY <1>3, <1>4

LEMMA PollHolds ==
  ASSUME Inductive, Capacity, NEW c \in Callers, Poll(c)
  PROVE Holds(c)'
<1> DEFINE s == call[KeyOf[c]]
<1>1. Holds(c) /\ Follows(c) /\ Types
  BY DEF Capacity, Inductive
<1>2. CASE /\ s.exchange = seen[c].exchange
           /\ See(c, s) /\ Go(c, "loop")
           /\ UNCHANGED <<call, clientOf, local, tunnel, held, outcome>>
  <2>1. /\ seen'[c] = s /\ at'[c] = "loop" /\ call' = call /\ tunnel' = tunnel
        /\ slotted' = slotted /\ prepared' = prepared /\ attempted' = attempted
    BY <1>1, <1>2 DEF See, Go, Types, local, held
  <2>2. at[c] = "poll" \/ (at[c] = "loop" /\ seen[c].phase = "capturing")
    BY DEF Poll
  <2>3. tunnel[c] = "none" /\ (NeedsCapture(s) => c \in slotted)
    BY <1>1, <1>2, <2>2 DEF Follows, Holds
  <2>4. s.phase = "assigned" => attempted[c]
    BY <1>1, <1>2, <2>2 DEF Holds, Begun
  <2> HIDE DEF s
  <2>5. call'[KeyOf[c]] = s
    BY <2>1 DEF s
  <2> QED BY <2>1, <2>3, <2>4, <2>5 DEF Holds
<1>3. CASE Done(c, "error")
  BY <1>3, DoneHolds
<1> QED BY <1>2, <1>3 DEF Poll

LEMMA WorkerHolds ==
  ASSUME Inductive, Capacity, NEW c \in Callers, Claim(c) \/ Authorize(c)
  PROVE Holds(c)'
<1> DEFINE k == KeyOf[c]
<1>1. Holds(c) /\ Follows(c) /\ Types /\ k \in Keys
  BY KeysOfCallers DEF Capacity, Inductive
<1>2. Ages(k) /\ Grows(k) /\ call' \in [Keys -> Call]
  BY <1>1, WitnessAges, WorkerKeeps DEF Keeps, Types
<1>3. /\ seen' = seen /\ at' = at /\ attempted' = attempted
      /\ slotted' = slotted /\ prepared' = prepared
      /\ tunnel[c] \in {"open", "claimed"} /\ tunnel'[c] \in {"claimed", "authorized"}
  BY <1>1 DEF Claim, Authorize, local, held, Types
<1>4. call[k].exchange = seen[c].exchange
  BY DEF Claim, Authorize, Running
<1> QED BY <1>1, <1>2, <1>3, <1>4 DEF Holds, Ages, Begun, NeedsCapture, Issued, Undispatched

-----------------------------------------------------------------------------

LEMMA InitCapacity == Init => Capacity
<1> SUFFICES ASSUME Init PROVE Capacity
  OBVIOUS
<1>1. \A i \in Clients : Of({}, i) = {}
  BY DEF Of
<1>2. Slots \in Nat /\ Preparations \in Nat /\ Cardinality({}) = 0
  BY ClientAssumption, FS_EmptySet
<1>3. HeldTypes
  BY <1>2, ClientAssumption DEF Init, HeldTypes
<1>4. Counted
  BY <1>1, <1>2, SMTT(30) DEF Init, Counted
<1>5. \A c \in Callers : Holds(c)
  BY KeysOfCallers DEF Init, Holds, NewCall, Begun, NeedsCapture, Issued
<1> QED BY <1>3, <1>4, <1>5 DEF Capacity

LEMMA CapacityKept ==
  ASSUME Inductive, Capacity, [Next]_vars
  PROVE Capacity'
<1>1. ASSUME NEW c \in Callers, Step(c) \/ Raise(c) \/ Cancel(c) \/ Claim(c) \/ Authorize(c)
      PROVE Capacity'
  <2>1. Keeps(c) /\ Alone(c)
    BY <1>1, MoveKeeps, StartKeeps, PollKeeps, OverKeeps, WorkerKeeps DEF Step
  <2>2. /\ HeldTypes' /\ Counted'
        /\ SameFor(slotted, slotted', c) /\ SameFor(prepared, prepared', c)
    BY <1>1, StepMoves, MovesCount
  <2>3. Stop(c) \/ Raise(c) \/ Cancel(c) => \E o : Done(c, o)
    BY DEF Stop, Raise, Cancel, Recorded
  <2>4. Holds(c)'
    BY <1>1, <2>3, DoneHolds, ResolveHolds, StartHolds, TakeSlotHolds, PrepareHolds, AgainHolds,
       AttemptHolds, TunnelHolds, PollHolds, WorkerHolds DEF Step
  <2>5. \A d \in Callers \ {c} : attempted'[d] = attempted[d]
    BY <1>1, <2>3 DEF Step, Resolve, Start, TakeSlot, Prepare, Stop, Again, Attempt, Authorized,
       TunnelEnds, Poll, Claim, Authorize, Done, local, Inductive, Types
  <2>6. \A k \in Keys : Ages(k)
    <3>1. \/ UNCHANGED call
          \/ Start(c) \/ Claim(c) \/ Authorize(c)
      BY <1>1, <2>3 DEF Step, Resolve, TakeSlot, Prepare, Again, Attempt, Authorized,
         TunnelEnds, Poll, Done
    <3> QED BY <3>1, WitnessAges DEF Inductive
  <2>7. ASSUME NEW d \in Callers \ {c}
        PROVE Holds(d)'
    <3>1. Follows(d) /\ Holds(d) /\ Types /\ KeyOf[d] \in Keys
      BY KeysOfCallers DEF Inductive, Capacity
    <3>2. /\ d \in slotted' <=> d \in slotted
          /\ d \in prepared' <=> d \in prepared
      BY <2>2 DEF SameFor
    <3>3. call' \in [Keys -> Call] /\ Grows(KeyOf[d])
      BY <2>1, <3>1 DEF Keeps, Types
    <3> QED BY <2>1, <2>5, <2>6, <3>1, <3>2, <3>3, OthersHold DEF Alone
  <2> QED BY <2>2, <2>4, <2>7 DEF Capacity
<1>2. ASSUME NEW k \in Keys, End(k)
      PROVE Capacity'
  <2>1. UNCHANGED <<at, seen, tunnel, attempted, held, clientOf>>
    BY <1>2 DEF End, local
  <2>2. HeldTypes' /\ Counted'
    BY <2>1 DEF Capacity, HeldTypes, Counted, Of, held
  <2>3. Types' /\ \A j \in Keys : Grows(j) /\ Ages(j)
    BY <1>2, EndKeeps, WitnessAges DEF Inductive
  <2>4. ASSUME NEW d \in Callers
        PROVE Holds(d)'
    <3>1. Follows(d) /\ Holds(d) /\ Types /\ KeyOf[d] \in Keys
      BY KeysOfCallers DEF Inductive, Capacity
    <3> QED BY <2>1, <2>3, <3>1, OthersHold DEF held, Types
  <2> QED BY <2>2, <2>4 DEF Capacity
<1>3. CASE UNCHANGED vars
  BY <1>3 DEF vars, local, held, Capacity, HeldTypes, Counted, Of, Holds, Begun, NeedsCapture,
          Issued, Undispatched
<1> QED BY <1>1, <1>2, <1>3 DEF Next

\* "Both client concurrency limits apply" (witness-client/README.md:361), for
\* any number of calls and slots, and every call gives back what it took.
THEOREM LimitsHold == Spec => []Bounded
<1>1. Inductive /\ Capacity => Bounded
  <2> SUFFICES ASSUME Inductive, Capacity PROVE Bounded
    OBVIOUS
  <2>1. \A c \in Callers : Holds(c)
    BY DEF Capacity
  <2>2. Counted
    BY DEF Capacity
  <2> QED BY <2>1, <2>2 DEF Bounded, Holds, Counted, Of
<1>2. Inductive /\ [Next]_vars => Inductive'
  BY NextKeeps
<1>3. Inductive /\ Capacity /\ [Next]_vars => Capacity'
  BY CapacityKept
<1> QED BY InitInductive, InitCapacity, <1>1, <1>2, <1>3, PTL DEF Spec

\* What else a call keeps.
RestTypes ==
    /\ clientOf \in Assignments
    /\ retries \in [Callers -> 0..2]
    /\ outcome \in [Callers -> {"none", "response", "error"}]

LEMMA RestTypesKept == RestTypes /\ [Next]_vars => RestTypes'
<1> SUFFICES ASSUME RestTypes, [Next]_vars PROVE RestTypes'
  OBVIOUS
<1> USE DEF RestTypes
<1>1. ASSUME NEW c \in Callers, NEW o \in {"response", "error"}, Done(c, o) PROVE RestTypes'
  BY <1>1 DEF Done
<1>2. CASE UNCHANGED <<clientOf, retries, outcome>>
  BY <1>2
<1>3. ASSUME NEW c \in Callers, Again(c) PROVE RestTypes'
  BY <1>3 DEF Again
<1>4. ASSUME NEW c \in Callers,
             Step(c) \/ Raise(c) \/ Cancel(c) \/ Claim(c) \/ Authorize(c)
      PROVE RestTypes'
  <2>1. CASE Stop(c) \/ Raise(c) \/ Cancel(c) \/ Poll(c)
    BY <1>1, <1>2, <2>1 DEF Stop, Recorded, Raise, Cancel, Poll, local
  <2>2. CASE Resolve(c) \/ Start(c) \/ TakeSlot(c) \/ Prepare(c) \/ Attempt(c) \/ Authorized(c)
             \/ TunnelEnds(c) \/ Claim(c) \/ Authorize(c)
    BY <1>2, <2>2 DEF Resolve, Start, TakeSlot, Prepare, Attempt, Authorized, TunnelEnds, Claim,
       Authorize, local
  <2> QED BY <1>3, <1>4, <2>1, <2>2 DEF Step
<1>5. CASE UNCHANGED vars \/ \E k \in Keys : End(k)
  BY <1>2, <1>5 DEF vars, local, End
<1> QED BY <1>4, <1>5 DEF Next

\* A create() and the record behind it keep their types, and no more slots are free
\* than the client has (client.py:199-200).
THEOREM CreateType == Spec => []TypeOK
<1>1. Init => RestTypes
  BY DEF Init, RestTypes
<1>2. Inductive /\ Capacity /\ RestTypes => TypeOK
  <2> SUFFICES ASSUME Inductive, Capacity, RestTypes PROVE TypeOK
    OBVIOUS
  <2>1. ASSUME NEW i \in Clients
        PROVE slots[i] \in 0..Slots /\ preparations[i] \in 0..Preparations
    <3>1. /\ slots[i] + Cardinality(Of(slotted, i)) = Slots
          /\ preparations[i] + Cardinality(Of(prepared, i)) = Preparations
          /\ slots[i] \in Nat /\ preparations[i] \in Nat
      BY DEF Capacity, Counted, HeldTypes
    <3>2. Cardinality(Of(slotted, i)) \in Nat /\ Cardinality(Of(prepared, i)) \in Nat
      BY ClientAssumption, FS_Subset, FS_CardinalityType DEF Of, Capacity, HeldTypes
    <3> QED BY <3>1, <3>2, ClientAssumption
  <2> QED BY <2>1 DEF TypeOK, Inductive, Types, Points, Capacity, HeldTypes, RestTypes
<1> QED BY InitInductive, InitCapacity, <1>1, <1>2, NextKeeps, CapacityKept, RestTypesKept, PTL DEF Spec

-----------------------------------------------------------------------------
(***************************************************************************)
(* The Pod of a client (PodClient): types and the inductive invariant.     *)
(***************************************************************************)
Ids == Seq(Nat)
StartIds == Ids \ {NoStart}
Inside == {"look", "decide", "post", "settle", "poll"}
There == {"waiting", "allocated", "retiring"}
Sessions == [id : Ids, replaces : Ids, phase : There \cup {"none", "gone"}]
Requests == [id : StartIds, replaces : Ids]
Stays == DOMAIN known \cup {NoStart}

\* What came of an entry, and an entry that brings no Pod.
Made == {"allocated", "rejected"}
Quiet == {"none", "rejected"}

\* A start that is over for the queue: no Pod comes from it any more.
Past(x) == x \in DOMAIN known /\ (x # entry.id \/ entry.phase \in Made)

\* The Pods that the gateway shows as the miner's.
InView == Live \cup {x \in {entry.id} : entry.phase = "allocated"}

QueueTypes ==
    /\ entry \in [id : Ids, replaces : Ids, phase : {"none", "queued", "creating"} \cup Made]
    /\ known \in [DOMAIN known -> DOMAIN known] /\ DOMAIN known \subseteq StartIds
    /\ pods \in [Live -> [phase : {"allocated", "retiring"}, replaces : Ids]]
    /\ last \in Stays
    /\ Pending => entry.id \in DOMAIN known
    /\ Pending <=> entry.phase # "none"

\* The queue has one turn at a time, and a turn ends with one Pod.
OnePod ==
    /\ \A x \in InView : Past(x)
    /\ \A x, y \in InView : x = y
    /\ entry.phase \in {"creating", "rejected"} => Live = {}

Queue == QueueTypes /\ OnePod

ClientTypes ==
    /\ late \subseteq Requests
    /\ start \in Stays
    /\ request \in Requests \cup {NoRequest}
    /\ fresh \in Nat
    /\ lock = {} \/ \E c \in PodCalls : lock = {c}
    /\ place \in [PodCalls -> Inside \cup {"idle", "lock", "done"}]
    /\ reply \in [PodCalls -> Sessions]
    /\ retiring \in [PodCalls -> Ids]
    /\ given \in [PodCalls -> Ids]
    /\ NoStart \notin asked

\* The lock is held by the call that is inside, and no other knows of a session.
Held(c) ==
    /\ place[c] \in Inside <=> lock = {c}
    /\ place[c] \notin Inside => reply[c] = NoSession
    /\ place[c] = "post" => request # NoRequest
    /\ place[c] = "poll" => reply[c].phase \in There
    /\ place[c] \notin {"settle", "poll"} => retiring[c] = NoStart
    /\ reply[c].phase \in There => reply[c].id \in DOMAIN known

\* A Pod that was asked to be replaced is the one being replaced, or gone for good.
Shown(c) ==
    reply[c].phase = "allocated" =>
       /\ Past(reply[c].id)
       /\ reply[c].id \in asked => reply[c].id = replaced
       /\ \A x \in asked : x = reply[c].id \/ x \notin InView

Marked ==
    /\ \A x \in asked : Past(x) /\ (x = replaced \/ x \notin InView)
    /\ connected => start \notin asked

Replaced == Marked /\ \A c \in PodCalls : Shown(c)

New == request # NoRequest /\ request.id \notin DOMAIN known
Empty == entry.phase \in Quiet /\ Live = {}

\* The start that a request would make finds the queue and the inventory empty.
Finds(c) ==
    LET none == reply[c].phase \notin There
    IN /\ place[c] = "decide" /\ none /\ (request = NoRequest \/ reply[c].id = request.id) => Empty
       /\ place[c] = "decide" /\ none => reply[c].id \in Stays
       /\ place[c] = "decide" /\ ~none => ~New
       /\ place[c] \in {"settle", "poll"} => ~New
       /\ place[c] = "settle" /\ retiring[c] # NoStart /\ none => Empty

Waits ==
    /\ New => Empty
    /\ Pending => Live \subseteq {entry.id}
    /\ \A r \in late : r.id \in DOMAIN known \/ r = request

Joins == Waits /\ \A c \in PodCalls : Finds(c)

PodInv ==
    /\ Queue /\ ClientTypes
    /\ \A c \in PodCalls : Held(c)
    /\ Replaced
    /\ asked = {} => Joins

-----------------------------------------------------------------------------
\* Start ids.
LEMMA IdsMade ==
  /\ NoStart \in Ids
  /\ \A n \in Nat : <<n>> \in StartIds
  /\ \A x \in Ids : Append(x, 0) \in StartIds
<1>1. NoStart \in Ids
  BY DEF NoStart, Ids
<1>2. ASSUME NEW n \in Nat PROVE <<n>> \in StartIds
  BY DEF NoStart, Ids, StartIds
<1>3. ASSUME NEW x \in Ids PROVE Append(x, 0) \in StartIds
  BY AppendProperties, EmptySeq, <1>3 DEF NoStart, Ids, StartIds
<1> QED BY <1>1, <1>2, <1>3

LEMMA RequestsMade ==
  ASSUME NEW STATE x, x \in Ids, fresh \in Nat
  PROVE  Intent(x) \in Requests /\ Fresh(x) \in Requests /\ NoRequest \notin Requests
         /\ NoSession \in Sessions
BY IdsMade DEF Intent, Fresh, Requests, NoRequest, NoSession, Sessions, StartIds

\* What a request adds to the queue.
Grown ==
    /\ DOMAIN known \subseteq DOMAIN known'
    /\ \A x : Past(x) => Past(x)' /\ (x \notin InView => x \notin InView')

LEMMA EnqueueKeeps ==
  ASSUME Queue, NEW STATE r, r \in Requests, Enqueue(r)
  PROVE  /\ Queue' /\ Grown /\ r.id \in DOMAIN known'
         /\ r.id \in DOMAIN known => DOMAIN known' = DOMAIN known
         /\ Live' = Live
         /\ r.id \in DOMAIN known \/ Pending => entry' = entry
<1> USE DEF Queue, Grown, Live, Pending, InView, Made
<1>0. r.id \in StartIds /\ r.replaces \in Ids
  BY DEF Requests
<1>1. CASE Pending
  <2>1. known' = [x \in DOMAIN known \cup {r.id} |-> IF x \in DOMAIN known THEN known[x] ELSE entry.id]
    BY <1>1 DEF Enqueue, Added
  <2>2. UNCHANGED <<entry, pods, last>>
    BY <1>1 DEF Enqueue
  <2>3. QueueTypes'
    BY <1>0, <2>1, <2>2, <1>1 DEF QueueTypes, Stays
  <2> QED BY <1>0, <2>1, <2>2, <2>3 DEF OnePod, Past
<1>2. CASE ~Pending /\ r.id \in DOMAIN known
  <2>1. UNCHANGED <<entry, known, pods, last>>
    BY <1>2 DEF Enqueue
  <2> QED BY <2>1, <1>2 DEF OnePod, Past, QueueTypes, Stays
<1>3. CASE ~Pending /\ r.id \notin DOMAIN known
  <2>1. known' = [x \in DOMAIN known \cup {r.id} |-> IF x \in DOMAIN known THEN known[x] ELSE r.id]
    BY <1>3 DEF Enqueue, Added
  <2>2. UNCHANGED <<pods, last>> /\ entry' = [id |-> r.id, replaces |-> r.replaces, phase |-> "queued"]
    BY <1>3 DEF Enqueue
  <2>3. QueueTypes'
    BY <1>0, <2>1, <2>2, <1>3 DEF QueueTypes, Stays, StartIds
  <2>4. DOMAIN known' = DOMAIN known \cup {r.id} /\ entry'.id = r.id /\ entry.id = NoStart /\ r.id # NoStart
    BY <1>0, <2>1, <2>2, <1>3 DEF StartIds
  <2>5. \A x : Past(x) => Past(x)'
    BY <2>4, <1>3 DEF Past
  <2>6. OnePod'
    BY <2>2, <2>5 DEF OnePod
  <2> QED BY <2>2, <2>3, <2>4, <2>5, <2>6, <1>3
<1> QED BY <1>1, <1>2, <1>3

-----------------------------------------------------------------------------
(***************************************************************************)
(* The gateway's steps.                                                    *)
(***************************************************************************)
Apart == UNCHANGED <<async, client, lock, place, reply, podLocal>>

LEMMA ClientStands ==
  ASSUME PodInv, Grown, Apart, late' \subseteq late
  PROVE  ClientTypes' /\ (\A c \in PodCalls : Held(c)') /\ Replaced'
<1> USE DEF PodInv, Apart, client, podLocal
<1>1. ClientTypes'
  BY DEF ClientTypes, Grown, Stays, Requests
<1>2. ASSUME NEW c \in PodCalls PROVE Held(c)'
  <2>1. Held(c)
    OBVIOUS
  <2> QED BY <2>1 DEF Held, Grown
<1>3. Replaced'
  <2>1. \A x \in asked : Past(x)' /\ (x = replaced \/ x \notin InView')
    BY DEF Replaced, Marked, Grown
  <2>2. ASSUME NEW c \in PodCalls PROVE Shown(c)'
    <3>1. Shown(c)
      BY DEF Replaced, Marked
    <3>2. \A x \in asked : Past(x)
      BY DEF Replaced, Marked
    <3> QED BY <3>1, <3>2 DEF Shown, Grown
  <2> QED BY <2>1, <2>2 DEF Replaced, Marked
<1> QED BY <1>1, <1>2, <1>3

\* A step that takes away from the queue and the inventory.
LEMMA JoinsStand ==
  ASSUME Joins, Apart, late' \subseteq late, DOMAIN known' = DOMAIN known,
         Live' \subseteq Live, entry'.id \in {entry.id, NoStart},
         entry.phase \in Quiet => entry'.phase \in Quiet
  PROVE  Joins'
<1> USE DEF Apart, client, podLocal
<1>1. New' = New /\ (Empty => Empty') /\ Stays' = Stays
  BY DEF New, Empty, Stays
<1>2. ASSUME NEW c \in PodCalls PROVE Finds(c)'
  <2>1. Finds(c)
    BY DEF Joins
  <2> QED BY <1>1, <2>1 DEF Finds
<1> QED BY <1>1, <1>2 DEF Joins, Waits, Pending

LEMMA QueueStands ==
  ASSUME PodInv, Others, Queue', Grown, UNCHANGED known, Live' \subseteq Live,
         entry'.id \in {entry.id, NoStart}, entry.phase \in Quiet => entry'.phase \in Quiet
  PROVE  PodInv'
<1>1. Apart /\ late' = late
  BY DEF Others, Apart
<1>2. asked = {} => Joins'
  BY <1>1, JoinsStand DEF PodInv
<1> QED BY <1>1, <1>2, ClientStands DEF PodInv, Apart, client

LEMMA TerminateKeeps == PodInv /\ Terminate => PodInv'
<1> SUFFICES ASSUME PodInv, Terminate PROVE PodInv'
  OBVIOUS
<1>1. UNCHANGED <<entry, known, last>> /\ Live' \subseteq Live /\ QueueTypes'
  BY DEF Terminate, PodInv, Queue, QueueTypes, Live, Drop, Pending, Stays
<1>2. Queue' /\ Grown
  BY <1>1 DEF PodInv, Queue, OnePod, Past, InView, Grown
<1> QED BY <1>1, <1>2, QueueStands DEF Terminate

LEMMA SubmitKeeps == PodInv /\ Submit => PodInv'
<1> SUFFICES ASSUME PodInv, Submit PROVE PodInv'
  OBVIOUS
<1>1. /\ UNCHANGED <<pods, known>> /\ entry'.id = entry.id /\ QueueTypes'
      /\ entry.phase = "queued" /\ entry'.phase = "creating"
  BY DEF Submit, PodInv, Queue, QueueTypes, Live, Pending, Stays
<1>2. Queue' /\ Grown /\ Live' \subseteq Live
  BY <1>1 DEF PodInv, Queue, OnePod, Past, InView, Made, Grown, Live, Submit
<1> QED BY <1>1, <1>2, QueueStands DEF Submit, Quiet

\* An entry that leaves the queue.
LEMMA EntryLeaves ==
  ASSUME PodInv, Others, entry' = NoEntry, UNCHANGED <<pods, known, last>>
  PROVE  PodInv'
<1>1. NoStart \notin DOMAIN known /\ NoStart \in Ids
  BY IdsMade DEF PodInv, Queue, QueueTypes, StartIds
<1>2. QueueTypes'
  BY <1>1 DEF NoEntry, PodInv, Queue, QueueTypes, Live, Pending, Stays
<1>3. Queue' /\ Grown /\ Live' \subseteq Live
  BY <1>1, <1>2 DEF NoEntry, PodInv, Queue, OnePod, Past, InView, Made, Grown, Live
<1> QED BY <1>3, QueueStands DEF NoEntry, Quiet

LEMMA CancelledKeeps == PodInv /\ Cancelled => PodInv'
BY EntryLeaves DEF Cancelled

LEMMA CompletedKeeps == PodInv /\ Completed => PodInv'
BY EntryLeaves DEF Completed

LEMMA EndsKeeps == PodInv /\ (\E x \in Live : Ends(x)) => PodInv'
<1> SUFFICES ASSUME PodInv, NEW x \in Live, Ends(x) PROVE PodInv'
  OBVIOUS
<1>1. UNCHANGED <<entry, known, last>> /\ Live' \subseteq Live /\ QueueTypes'
  BY DEF Ends, PodInv, Queue, QueueTypes, Live, Drop, Pending, Stays
<1>2. Queue' /\ Grown
  BY <1>1 DEF PodInv, Queue, OnePod, Past, InView, Grown
<1> QED BY <1>1, <1>2, QueueStands DEF Ends

LEMMA CreatedKeeps == PodInv /\ Created => PodInv'
<1> SUFFICES ASSUME PodInv, Created PROVE PodInv'
  OBVIOUS
<1>0. /\ Pending /\ Live = {} /\ entry.id \in DOMAIN known /\ entry.phase = "creating"
      /\ UNCHANGED <<known, last>>
      /\ entry'.id = entry.id /\ entry'.replaces = entry.replaces
  BY DEF Created, PodInv, Queue, OnePod, QueueTypes
<1>1. /\ Live' \subseteq {entry.id} /\ entry'.phase \in Made
      /\ entry'.phase = "rejected" => Live' = {}
  BY <1>0 DEF Created, Added, Live, Made, PodInv, Queue, QueueTypes
<1>2. pods' \in [Live' -> [phase : {"allocated", "retiring"}, replaces : Ids]]
  <2>1. entry.replaces \in Ids
    BY DEF PodInv, Queue, QueueTypes
  <2>2. CASE UNCHANGED pods
    BY <2>2 DEF PodInv, Queue, QueueTypes, Live
  <2>3. CASE pods' = Added(pods, entry.id, [phase |-> "allocated", replaces |-> entry.replaces])
    BY <2>1, <2>3, <1>0 DEF Added, Live
  <2> QED BY <2>2, <2>3 DEF Created
<1>3. QueueTypes'
  <2>1. entry' \in [id : Ids, replaces : Ids, phase : {"none", "queued", "creating"} \cup Made]
    BY <1>1 DEF Created, PodInv, Queue, QueueTypes
  <2>2. entry'.phase # "none"
    BY <1>1 DEF Made
  <2> QED BY <1>0, <1>2, <2>1, <2>2 DEF PodInv, Queue, QueueTypes, Pending, Stays
<1>4. Queue' /\ Grown
  BY <1>0, <1>1, <1>3 DEF Queue, OnePod, Past, InView, Made, Grown
<1>5. Apart /\ late' = late
  BY DEF Created, Others, Apart
<1>6. asked = {} => Joins'
  <2> SUFFICES ASSUME asked = {} PROVE Joins'
    OBVIOUS
  <2>1. ~Empty /\ ~New /\ New' = New /\ Stays' = Stays
    BY <1>0, <1>5 DEF PodInv, Joins, Waits, Empty, Quiet, New, Apart, client, Stays
  <2>2. ASSUME NEW c \in PodCalls PROVE Finds(c)'
    <3>1. Finds(c)
      BY DEF PodInv, Joins
    <3> QED BY <2>1, <3>1, <1>5 DEF Finds, Apart, client, podLocal
  <2> QED BY <2>1, <2>2, <1>0, <1>1, <1>5 DEF PodInv, Joins, Waits, Apart, client
<1> QED BY <1>4, <1>5, <1>6, ClientStands DEF PodInv, Apart, client

\* A late request is one the queue knows, or joins what is there, or is the one
\* request that the client would make again.
LEMMA ArriveKeeps == PodInv /\ (\E r \in late : Arrive(r)) => PodInv'
<1> SUFFICES ASSUME PodInv, NEW r \in late, Arrive(r) PROVE PodInv'
  OBVIOUS
<1>0. r \in Requests /\ Enqueue(r) /\ Queue /\ Apart /\ late' \subseteq late
  BY DEF PodInv, ClientTypes, Arrive, Apart
<1>1. /\ Queue' /\ Grown /\ r.id \in DOMAIN known'
      /\ r.id \in DOMAIN known => DOMAIN known' = DOMAIN known
      /\ Live' = Live
      /\ r.id \in DOMAIN known \/ Pending => entry' = entry
  BY <1>0, EnqueueKeeps
<1>2. asked = {} => Joins'
  <2> SUFFICES ASSUME asked = {} PROVE Joins'
    OBVIOUS
  <2>0. Joins
    BY DEF PodInv
  <2>1. CASE r.id \in DOMAIN known
    BY <2>0, <2>1, <1>0, <1>1, JoinsStand
  <2>2. CASE r.id \notin DOMAIN known
    <3>1. r = request /\ request # NoRequest /\ New /\ Empty /\ ~New'
      BY <2>0, <2>2, <1>0, <1>1 DEF Joins, Waits, New, Requests, StartIds, NoRequest, Apart, client
    <3>2. ASSUME NEW c \in PodCalls PROVE Finds(c)'
      <4>1. Finds(c)
        BY <2>0 DEF Joins
      <4>2. request.id # NoStart /\ (NoRequest # request)
        BY <3>1, <1>0 DEF Requests, StartIds
      <4>3. UNCHANGED <<place, reply, request, retiring>>
        BY <1>0 DEF Apart, client, podLocal
      <4>4. Stays \subseteq Stays'
        BY <1>1 DEF Grown, Stays
      <4>5. place[c] = "decide" /\ reply[c].phase \notin There => reply[c].id # request.id
        BY <4>1, <4>2, <2>2, <3>1 DEF Finds, Stays
      <4>6. place[c] \notin {"settle", "poll"}
        BY <4>1, <3>1 DEF Finds
      <4> QED BY <4>1, <4>2, <4>3, <4>4, <4>5, <4>6, <3>1 DEF Finds
    <3>3. Live' = {}
      BY <1>1, <3>1 DEF Empty
    <3>4. \A q \in late' : q.id \in DOMAIN known' \/ q = request'
      BY <2>0, <1>0, <1>1 DEF Joins, Waits, Grown, Apart, client
    <3> QED BY <3>1, <3>2, <3>3, <3>4 DEF Joins, Waits
  <2> QED BY <2>1, <2>2
<1> QED BY <1>0, <1>1, <1>2, ClientStands DEF PodInv, Apart, client

-----------------------------------------------------------------------------
(***************************************************************************)
(* The client's steps.                                                     *)
(***************************************************************************)
Elsewhere(c) ==
    \A d \in PodCalls \ {c} :
       place'[d] = place[d] /\ reply'[d] = reply[d] /\ retiring'[d] = retiring[d]

\* A step of the call that is inside, or that comes inside, disturbs no other.
LEMMA InsideKeeps ==
  ASSUME PodInv, NEW c \in PodCalls, lock \subseteq {c}, lock' \subseteq {c}, Elsewhere(c),
         Queue', ClientTypes', Held(c)', Marked', Shown(c)', asked' = {} => Waits' /\ Finds(c)'
  PROVE  PodInv'
<1>1. ASSUME NEW d \in PodCalls \ {c}
      PROVE Held(d)' /\ Shown(d)' /\ Finds(d)'
  <2>1. Held(d) /\ lock # {d} /\ lock' # {d}
    BY DEF PodInv
  <2>2. place'[d] \notin Inside /\ reply'[d] = NoSession /\ retiring'[d] = NoStart
    BY <2>1 DEF Held, Elsewhere, Inside
  <2> QED BY <2>1, <2>2 DEF Held, Shown, Finds, NoSession, Inside, There
<1>2. \A d \in PodCalls : Held(d)' /\ Shown(d)' /\ (asked' = {} => Finds(d)')
  BY <1>1
<1> QED BY <1>2 DEF PodInv, Replaced, Joins

\* A call that is not inside moves.
LEMMA OutsideKeeps ==
  ASSUME PodInv, NEW c \in PodCalls, place[c] \notin Inside,
         UNCHANGED <<gateway, late, client, lock, reply, retiring>>, given' \in [PodCalls -> Ids],
         \E p \in {"idle", "lock", "done"} : place' = [place EXCEPT ![c] = p]
  PROVE  PodInv'
<1> USE DEF gateway, client
<1>1. Queue' /\ ClientTypes' /\ Marked' /\ (Waits => Waits')
  BY DEF PodInv, Queue, QueueTypes, OnePod, Past, ClientTypes, Replaced, Marked, Waits, New, Empty,
         Pending, Live, InView, Stays
<1>2. ASSUME NEW d \in PodCalls
      PROVE Held(d)' /\ Shown(d)' /\ (Finds(d) => Finds(d)')
  <2>1. Held(d) /\ Shown(d) /\ place \in [PodCalls -> Inside \cup {"idle", "lock", "done"}]
    BY DEF PodInv, Replaced, ClientTypes
  <2>2. place'[d] = place[d] \/ (place[d] \notin Inside /\ place'[d] \notin Inside)
    BY <2>1 DEF Inside
  <2> QED BY <2>1, <2>2 DEF Held, Shown, Finds, Past, Live, InView, Stays, New, Empty, Pending, Inside
<1> QED BY <1>1, <1>2 DEF PodInv, Replaced, Joins

LEMMA QueueSame ==
  ASSUME UNCHANGED gateway
  PROVE  /\ Queue => Queue'
         /\ DOMAIN known' = DOMAIN known /\ Live' = Live /\ Pending' = Pending /\ Empty' = Empty
         /\ InView' = InView /\ entry' = entry /\ Stays' = Stays /\ \A x : Past(x)' = Past(x)
BY DEF gateway, Queue, QueueTypes, OnePod, Live, Pending, Empty, Stays, Past, InView

LEMMA Holder ==
  ASSUME PodInv, NEW c \in PodCalls, place[c] \in Inside
  PROVE  lock = {c} /\ Held(c) /\ Shown(c) /\ (asked = {} => Waits /\ Finds(c))
         /\ reply[c] \in Sessions /\ reply[c].id \in Ids
BY DEF PodInv, Held, Replaced, Joins, ClientTypes, Sessions

\* What the gateway answers.
Answer(s) ==
    /\ s \in Sessions
    /\ s.phase \in There => s.id \in DOMAIN known /\ ~Empty
    /\ s.phase = "allocated" => s.id \in InView
    /\ s.id \in Stays

LEMMA CachedAnswers == Queue => Answer(Cached) /\ (Cached.phase \notin There => Empty)
<1> SUFFICES ASSUME Queue PROVE Answer(Cached) /\ (Cached.phase \notin There => Empty)
  OBVIOUS
<1> USE DEF Queue, QueueTypes, There, Sessions, Answer, Stays, Empty, Quiet, InView
<1>1. CASE Pending
  <2>1. Cached = Turn(entry)
    BY <1>1 DEF Cached
  <2> QED BY <1>1, <2>1, IdsMade DEF Turn, Gone, Made, OnePod, StartIds
<1>2. CASE ~Pending /\ Live # {}
  <2>1. PICK x \in Live : Cached = View(x)
    BY <1>2 DEF Cached
  <2>2. x \in DOMAIN known
    BY DEF OnePod, Past
  <2> QED BY <1>2, <2>1, <2>2 DEF View, StartIds, Live
<1>3. CASE ~Pending /\ Live = {}
  <2>1. Cached \in {Gone(last), NoSession}
    BY <1>3 DEF Cached
  <2> QED BY <1>3, <2>1, IdsMade DEF Gone, NoSession, StartIds
<1> QED BY <1>1, <1>2, <1>3

LEMMA SessionAnswers ==
  ASSUME Queue, NEW STATE x, x \in DOMAIN known
  PROVE  Answer(Session(x)) /\ Session(x).phase \in There \cup {"gone"}
<1> USE DEF Queue, QueueTypes, There, Sessions, Answer, Stays, Empty, Quiet, InView
<1>1. CASE Pending /\ entry.id = x
  <2>1. Session(x) = Turn(entry)
    BY <1>1 DEF Session
  <2> QED BY <1>1, <2>1, IdsMade DEF Turn, Gone, Made, StartIds
<1>2. CASE \E y \in Live : Session(x) = View(y)
  <2>1. PICK y \in Live : Session(x) = View(y)
    BY <1>2
  <2>2. y \in DOMAIN known
    BY DEF OnePod, Past
  <2> QED BY <2>1, <2>2 DEF View, StartIds, Live
<1>3. CASE Session(x) = Gone(known[x])
  <2>1. known[x] \in DOMAIN known
    OBVIOUS
  <2> QED BY <1>3, <2>1, IdsMade DEF Gone, StartIds
<1> QED BY <1>1, <1>2, <1>3 DEF Session

\* A Pod that is shown as assigned is in the inventory alone.
LEMMA AnswerShown ==
  ASSUME Queue, Marked, NEW STATE s, Answer(s), s.phase = "allocated"
  PROVE  Past(s.id) /\ (s.id \in asked => s.id = replaced) /\ \A x \in asked : x = s.id \/ x \notin InView
BY DEF Queue, OnePod, Marked, Answer

LEMMA BeginKeeps == ASSUME PodInv, NEW c \in PodCalls, Begin(c) PROVE PodInv'
<1>1. place[c] \notin Inside
  BY DEF Begin, Inside
<1>2. given' \in [PodCalls -> Ids] /\ place' = [place EXCEPT ![c] = "lock"]
  BY DEF Begin, GoTo, PodInv, ClientTypes
<1> QED BY <1>1, <1>2, OutsideKeeps DEF Begin

LEMMA InvalidateKeeps == PodInv /\ Invalidate => PodInv'
<1> SUFFICES ASSUME PodInv, Invalidate PROVE PodInv'
  OBVIOUS
<1> USE DEF Invalidate, gateway, podLocal
<1>1. Queue' /\ ClientTypes' /\ Marked' /\ (Waits => Waits')
  BY DEF PodInv, Queue, QueueTypes, OnePod, Past, ClientTypes, Replaced, Marked, Waits, New, Empty,
         Pending, Live, InView, Stays
<1>2. ASSUME NEW d \in PodCalls PROVE Held(d)' /\ Shown(d)' /\ (Finds(d) => Finds(d)')
  BY DEF PodInv, Replaced, Held, Shown, Finds, Past, Live, InView, Stays, New, Empty, Pending
<1> QED BY <1>1, <1>2 DEF PodInv, Replaced, Joins

\* The call is over: what it leaves.
LEMMA LeaveKeeps ==
  ASSUME PodInv, NEW c \in PodCalls, NEW STATE x, x \in Ids, Leave(c, x), lock \subseteq {c}
  PROVE  /\ place' \in [PodCalls -> Inside \cup {"idle", "lock", "done"}]
         /\ reply' \in [PodCalls -> Sessions] /\ retiring' \in [PodCalls -> Ids]
         /\ given' \in [PodCalls -> Ids] /\ lock' = {}
         /\ Elsewhere(c) /\ Held(c)' /\ Shown(c)' /\ (Waits' => Finds(c)')
<1>1. /\ place' \in [PodCalls -> Inside \cup {"idle", "lock", "done"}]
      /\ reply' \in [PodCalls -> Sessions] /\ retiring' \in [PodCalls -> Ids]
      /\ given' \in [PodCalls -> Ids] /\ lock' = {} /\ Elsewhere(c)
  BY RequestsMade, IdsMade DEF Leave, GoTo, Elsewhere, PodInv, ClientTypes
<1>2. place'[c] = "done" /\ reply'[c] = NoSession /\ retiring'[c] = NoStart
  BY DEF Leave, GoTo, PodInv, ClientTypes
<1> QED BY <1>1, <1>2 DEF Held, Shown, Finds, Inside, NoSession, There

LEMMA FailKeeps == ASSUME PodInv, NEW c \in PodCalls, Fail(c) PROVE PodInv'
<1>0. Leave(c, NoStart) /\ NoStart \in Ids /\ UNCHANGED gateway /\ UNCHANGED late /\ UNCHANGED client
  BY IdsMade DEF Fail
<1>1. CASE place[c] \notin Inside
  <2>1. lock # {c} /\ reply[c] = NoSession /\ retiring[c] = NoStart
    BY <1>1 DEF PodInv, Held, Inside
  <2>2. lock' = lock /\ reply' = reply /\ retiring' = retiring /\ given' \in [PodCalls -> Ids]
        /\ place' = [place EXCEPT ![c] = "done"]
    BY <2>1, <1>0 DEF Leave, GoTo, PodInv, ClientTypes
  <2> QED BY <1>0, <1>1, <2>2, OutsideKeeps
<1>2. CASE place[c] \in Inside
  <2>1. lock = {c} /\ (asked = {} => Waits)
    BY <1>2, Holder
  <2>2. /\ place' \in [PodCalls -> Inside \cup {"idle", "lock", "done"}]
        /\ reply' \in [PodCalls -> Sessions] /\ retiring' \in [PodCalls -> Ids]
        /\ given' \in [PodCalls -> Ids] /\ lock' = {}
        /\ Elsewhere(c) /\ Held(c)' /\ Shown(c)' /\ (Waits' => Finds(c)')
    BY <1>0, <2>1, LeaveKeeps
  <2>3. Queue' /\ Marked' /\ (Waits => Waits') /\ ClientTypes'
    BY <1>0, <2>2, QueueSame DEF PodInv, Replaced, Marked, Waits, New, ClientTypes, client, Requests
  <2> QED BY <1>0, <2>1, <2>2, <2>3, InsideKeeps DEF client
<1> QED BY <1>1, <1>2

LEMMA AcquireKeeps == ASSUME PodInv, NEW c \in PodCalls, Acquire(c) PROVE PodInv'
<1>0. place[c] = "lock" /\ lock = {} /\ UNCHANGED gateway /\ UNCHANGED late /\ UNCHANGED client
  BY DEF Acquire
<1>1. Queue' /\ Marked' /\ (Waits => Waits') /\ (asked = {} => Waits)
  BY <1>0, QueueSame DEF PodInv, Replaced, Marked, Waits, New, client, Joins
<1>2. reply[c] = NoSession /\ retiring[c] = NoStart /\ start \in Ids
  BY <1>0, IdsMade DEF PodInv, Held, Inside, ClientTypes, Stays, Queue, QueueTypes, StartIds
<1>3. CASE Leave(c, start)
  <2>2. /\ place' \in [PodCalls -> Inside \cup {"idle", "lock", "done"}]
        /\ reply' \in [PodCalls -> Sessions] /\ retiring' \in [PodCalls -> Ids]
        /\ given' \in [PodCalls -> Ids] /\ lock' = {}
        /\ Elsewhere(c) /\ Held(c)' /\ Shown(c)' /\ (Waits' => Finds(c)')
    BY <1>0, <1>2, <1>3, LeaveKeeps
  <2>3. ClientTypes'
    BY <1>0, <2>2, QueueSame DEF PodInv, ClientTypes, client, Requests
  <2> QED BY <1>0, <1>1, <2>2, <2>3, InsideKeeps DEF client
<1>4. CASE lock' = {c} /\ GoTo(c, "look") /\ UNCHANGED <<reply, retiring, given>>
  <2>1. ClientTypes' /\ Elsewhere(c) /\ place'[c] = "look"
    BY <1>0, <1>4, QueueSame DEF PodInv, ClientTypes, client, Requests, GoTo, Inside, Elsewhere
  <2>2. Held(c)' /\ Shown(c)' /\ Finds(c)'
    BY <1>2, <1>4, <2>1 DEF Held, Shown, Finds, Inside, There, NoSession
  <2> QED BY <1>0, <1>1, <1>4, <2>1, <2>2, InsideKeeps DEF client
<1> QED BY <1>3, <1>4 DEF Acquire

LEMMA LookKeeps == ASSUME PodInv, NEW c \in PodCalls, Look(c) PROVE PodInv'
<1>0. place[c] = "look" /\ place[c] \in Inside
      /\ UNCHANGED gateway /\ UNCHANGED late /\ UNCHANGED client /\ lock' = lock /\ UNCHANGED podLocal
  BY DEF Look, Inside
<1>1. lock = {c} /\ Held(c) /\ (asked = {} => Waits)
  BY <1>0, Holder
<1>2. Queue' /\ Marked' /\ (Waits => Waits')
  BY <1>0, QueueSame DEF PodInv, Replaced, Marked, Waits, New, client
<1>3. PICK s : Replies(c, s) /\ Answer(s) /\ (s.phase \notin There => Empty)
  <2>1. CASE kind[c] = "renew" /\ ~pending /\ start # NoStart /\ Session(start).phase # "gone"
    <3>1. start \in DOMAIN known
      BY <2>1 DEF PodInv, ClientTypes, Stays
    <3>2. Answer(Session(start)) /\ Session(start).phase \in There
      BY <2>1, <3>1, SessionAnswers DEF PodInv
    <3> QED BY <2>1, <3>2 DEF Look
  <2>2. CASE ~(kind[c] = "renew" /\ ~pending /\ start # NoStart /\ Session(start).phase # "gone")
    BY <2>2, CachedAnswers DEF PodInv, Look
  <2> QED BY <2>1, <2>2
<1>4. place' = [place EXCEPT ![c] = "decide"] /\ reply' = [reply EXCEPT ![c] = s] /\ s \in Sessions
  BY <1>3 DEF Look, GoTo, Replies, Answer
<1>5. ClientTypes' /\ Elsewhere(c) /\ place'[c] = "decide" /\ reply'[c] = s
  BY <1>0, <1>4, QueueSame DEF PodInv, ClientTypes, client, podLocal, Requests, Inside, Elsewhere
<1>6. Held(c)'
  BY <1>0, <1>1, <1>3, <1>5, QueueSame DEF Held, Inside, Answer, podLocal
<1>7. Shown(c)'
  BY <1>0, <1>3, <1>5, QueueSame, AnswerShown DEF Shown, PodInv, Replaced, client
<1>8. Waits => Finds(c)'
  BY <1>0, <1>3, <1>5, QueueSame DEF Finds, Waits, Answer, New, client
<1> QED BY <1>0, <1>1, <1>2, <1>5, <1>6, <1>7, <1>8, InsideKeeps DEF client

\* A request that is made because nothing is there: the one that was made before,
\* or a new one, which then finds the queue empty and leaves no other to arrive.
LEMMA AskWaits ==
  ASSUME PodInv, Waits, UNCHANGED gateway, UNCHANGED late,
         \/ request' = request
         \/ Empty /\ \A r \in late : r.id \in DOMAIN known
  PROVE  Waits'
BY QueueSame DEF Waits, New

LEMMA AskTypes ==
  ASSUME PodInv, NEW c \in PodCalls, NEW STATE r, r \in Requests, Ask(c, r)
  PROVE  /\ fresh' \in Nat /\ request' = r /\ r # NoRequest
         /\ place' \in [PodCalls -> Inside \cup {"idle", "lock", "done"}]
         /\ place'[c] = "post" /\ \A d \in PodCalls \ {c} : place'[d] = place[d]
BY RequestsMade DEF Ask, GoTo, PodInv, ClientTypes, Inside

LEMMA SameRequestWaits ==
  ASSUME PodInv, NEW c \in PodCalls, place[c] = "decide", reply[c].phase \notin There,
         NEW STATE new, new \in Requests, request' = SameRequest(reply[c], new),
         UNCHANGED gateway, UNCHANGED late
  PROVE  SameRequest(reply[c], new) \in Requests /\ (Waits /\ Finds(c) => Waits')
<1>1. CASE request = NoRequest \/ reply[c].id = request.id
  <2>1. SameRequest(reply[c], new) = new
    BY <1>1 DEF SameRequest
  <2>2. ASSUME Waits, Finds(c)
        PROVE Empty /\ \A r \in late : r.id \in DOMAIN known
    <3>1. Empty /\ reply[c].id \in Stays
      BY <1>1, <2>2 DEF Finds
    <3>2. \A r \in late : r \in Requests /\ r.id # NoStart /\ r # NoRequest
      BY RequestsMade DEF PodInv, ClientTypes, Requests, StartIds
    <3>3. \A r \in late : r.id \in DOMAIN known \/ r = request
      BY <2>2 DEF Waits
    <3> QED BY <1>1, <3>1, <3>2, <3>3 DEF Stays
  <2> QED BY <2>1, <2>2, AskWaits
<1>2. CASE ~(request = NoRequest \/ reply[c].id = request.id)
  <2>1. SameRequest(reply[c], new) = request
    BY <1>2 DEF SameRequest
  <2> QED BY <1>2, <2>1, AskWaits DEF PodInv, ClientTypes
<1> QED BY <1>1, <1>2

LEMMA DecideKeeps == ASSUME PodInv, NEW c \in PodCalls, Decide(c) PROVE PodInv'
<1> DEFINE s == reply[c]
           again == IF Replaces(c) THEN Intent(s.id) ELSE Fresh(s.id)
<1>0. place[c] = "decide" /\ place[c] \in Inside /\ async
      /\ UNCHANGED gateway /\ UNCHANGED late /\ UNCHANGED <<start, lock, reply, podLocal>>
  BY DEF Decide, Inside
<1>1. lock = {c} /\ Held(c) /\ Shown(c) /\ (asked = {} => Waits /\ Finds(c)) /\ s \in Sessions
      /\ s.id \in Ids
  BY <1>0, Holder
<1>2. Queue'
  BY <1>0, QueueSame DEF PodInv
<1>3. Intent(s.id) \in Requests /\ again \in Requests
  BY <1>1, RequestsMade DEF PodInv, ClientTypes
<1>4. CASE ToReplace(c, s)
  <2> DEFINE r == IF request.replaces # s.id THEN Intent(s.id) ELSE request
  <2>1. s.phase = "allocated" /\ Ask(c, r) /\ replaced' = s.id /\ asked' = asked \cup {s.id} /\ ~connected'
    BY <1>4 DEF Decide, ToReplace
  <2>2. s.phase \in There /\ s.id \in DOMAIN known /\ Past(s.id) /\ s.id # NoStart
    BY <1>1, <2>1 DEF Held, Shown, There, PodInv, Queue, QueueTypes, StartIds
  <2>3. r \in Requests
    BY <1>3, <2>2 DEF PodInv, ClientTypes, NoRequest
  <2> HIDE DEF r
  <2>4. /\ fresh' \in Nat /\ request' = r /\ r # NoRequest
        /\ place' \in [PodCalls -> Inside \cup {"idle", "lock", "done"}]
        /\ place'[c] = "post" /\ \A d \in PodCalls \ {c} : place'[d] = place[d]
    BY <2>1, <2>3, AskTypes
  <2>5. ClientTypes' /\ Elsewhere(c)
    BY <1>0, <2>1, <2>2, <2>3, <2>4, QueueSame DEF PodInv, ClientTypes, Elsewhere, podLocal
  <2>6. Held(c)'
    BY <1>0, <1>1, <2>4, QueueSame DEF Held, Inside, podLocal
  <2>7. Shown(c)' /\ Marked'
    BY <1>0, <1>1, <2>1, <2>2, QueueSame DEF Shown, Marked, PodInv, Replaced
  <2>8. asked' # {}
    BY <2>1
  <2> QED BY <1>0, <1>1, <1>2, <2>5, <2>6, <2>7, <2>8, InsideKeeps
<1>5. CASE ~ToReplace(c, s)
  <2>1. UNCHANGED <<replaced, asked>> /\ (connected' => connected)
    BY <1>5 DEF Decide
  <2>2. Marked' /\ Shown(c)'
    BY <1>0, <1>1, <2>1, QueueSame DEF Shown, Marked, PodInv, Replaced
  <2>3. CASE s.phase \in {"none", "gone"}
    <3>1. Ask(c, SameRequest(s, again)) /\ s.phase \notin There
      BY <1>5, <2>3 DEF Decide, There
    <3> HIDE DEF again
    <3>2. request' = SameRequest(s, again)
      BY <3>1 DEF Ask
    <3>3. SameRequest(s, again) \in Requests /\ (Waits /\ Finds(c) => Waits')
      BY <1>0, <1>3, <3>1, <3>2, SameRequestWaits
    <3>4. /\ fresh' \in Nat /\ request' # NoRequest
          /\ place' \in [PodCalls -> Inside \cup {"idle", "lock", "done"}]
          /\ place'[c] = "post" /\ \A d \in PodCalls \ {c} : place'[d] = place[d]
      BY <3>1, <3>3, AskTypes
    <3>5. ClientTypes' /\ Elsewhere(c)
      BY <1>0, <2>1, <3>2, <3>3, <3>4, QueueSame DEF PodInv, ClientTypes, Elsewhere, podLocal
    <3>6. Held(c)' /\ Finds(c)'
      BY <1>0, <1>1, <3>4, QueueSame DEF Held, Inside, podLocal, Finds
    <3> QED BY <1>0, <1>1, <1>2, <2>1, <2>2, <3>3, <3>5, <3>6, InsideKeeps
  <2>4. CASE s.phase \in There
    <3>1. GoTo(c, "settle") /\ UNCHANGED <<request, fresh>>
      BY <1>5, <2>4 DEF Decide, There
    <3>2. ClientTypes' /\ Elsewhere(c) /\ place'[c] = "settle"
      BY <1>0, <2>1, <3>1, QueueSame DEF PodInv, ClientTypes, Elsewhere, podLocal, GoTo, Inside
    <3>3. Held(c)'
      BY <1>0, <1>1, <3>2, QueueSame DEF Held, Inside, podLocal
    <3>4. Waits /\ Finds(c) => Waits' /\ Finds(c)'
      BY <1>0, <2>4, <3>1, <3>2, QueueSame, AskWaits DEF Finds, New
    <3> QED BY <1>0, <1>1, <1>2, <2>1, <2>2, <3>2, <3>3, <3>4, InsideKeeps
  <2> QED BY <1>1, <2>3, <2>4 DEF Sessions, There
<1> QED BY <1>4, <1>5

LEMMA DecideSyncKeeps == ASSUME PodInv, NEW c \in PodCalls, DecideSync(c) PROVE PodInv'
<1> DEFINE s == reply[c]
<1>0. place[c] = "decide" /\ place[c] \in Inside /\ UNCHANGED gateway /\ UNCHANGED late
      /\ UNCHANGED <<start, connected, generation, pending, replaced, asked, lock, reply, saw,
                     retiring, given>>
  BY DEF DecideSync, Inside
<1>1. lock = {c} /\ Held(c) /\ Shown(c) /\ (asked = {} => Waits /\ Finds(c)) /\ s \in Sessions
      /\ s.id \in Ids
  BY <1>0, Holder
<1>2. Queue' /\ Marked' /\ Shown(c)'
  BY <1>0, <1>1, QueueSame DEF PodInv, Shown, Marked, Replaced
<1>3. CASE s.phase = "retiring"
  <2>1. GoTo(c, "look") /\ request' = (IF request.id = s.id THEN NoRequest ELSE request)
        /\ UNCHANGED fresh
    BY <1>3 DEF DecideSync
  <2>2. ClientTypes' /\ Elsewhere(c) /\ place'[c] = "look"
    BY <1>0, <2>1, QueueSame DEF PodInv, ClientTypes, Elsewhere, GoTo, Inside
  <2>3. Held(c)' /\ Finds(c)'
    BY <1>0, <1>1, <2>2, QueueSame DEF Held, Inside, Finds
  <2>4. Waits /\ Finds(c) => Waits'
    <3> SUFFICES ASSUME Waits, Finds(c) PROVE Waits'
      OBVIOUS
    <3>1. ~New
      BY <1>0, <1>3 DEF Finds, There
    <3>2. \A r \in late : r.id \in DOMAIN known
      BY <3>1, RequestsMade DEF Waits, New, PodInv, ClientTypes
    <3> QED BY <1>0, <2>1, <3>1, <3>2, QueueSame DEF Waits, New
  <2> QED BY <1>0, <1>1, <1>2, <2>2, <2>3, <2>4, InsideKeeps
<1>4. CASE s.phase \in {"none", "gone"}
  <2> DEFINE new == Fresh(s.id)
  <2>1. Ask(c, SameRequest(s, new)) /\ s.phase \notin There /\ new \in Requests
    BY <1>1, <1>4, RequestsMade DEF DecideSync, There, PodInv, ClientTypes
  <2> HIDE DEF new
  <2>2. request' = SameRequest(s, new)
    BY <2>1 DEF Ask
  <2>3. SameRequest(s, new) \in Requests /\ (Waits /\ Finds(c) => Waits')
    BY <1>0, <2>1, <2>2, SameRequestWaits
  <2>4. /\ fresh' \in Nat /\ request' # NoRequest
        /\ place' \in [PodCalls -> Inside \cup {"idle", "lock", "done"}]
        /\ place'[c] = "post" /\ \A d \in PodCalls \ {c} : place'[d] = place[d]
    BY <2>1, <2>3, AskTypes
  <2>5. ClientTypes' /\ Elsewhere(c)
    BY <1>0, <2>2, <2>3, <2>4, QueueSame DEF PodInv, ClientTypes, Elsewhere
  <2>6. Held(c)' /\ Finds(c)'
    BY <1>0, <1>1, <2>4, QueueSame DEF Held, Inside, Finds
  <2> QED BY <1>0, <1>1, <1>2, <2>3, <2>5, <2>6, InsideKeeps
<1>5. CASE s.phase \in {"waiting", "allocated"}
  <2>1. GoTo(c, "settle") /\ UNCHANGED <<request, fresh>>
    BY <1>5 DEF DecideSync
  <2>2. ClientTypes' /\ Elsewhere(c) /\ place'[c] = "settle"
    BY <1>0, <2>1, QueueSame DEF PodInv, ClientTypes, Elsewhere, GoTo, Inside
  <2>3. Held(c)'
    BY <1>0, <1>1, <2>2, QueueSame DEF Held, Inside
  <2>4. Waits /\ Finds(c) => Waits' /\ Finds(c)'
    BY <1>0, <1>5, <2>1, <2>2, QueueSame, AskWaits DEF Finds, New, There
  <2> QED BY <1>0, <1>1, <1>2, <2>2, <2>3, <2>4, InsideKeeps
<1> QED BY <1>1, <1>3, <1>4, <1>5 DEF Sessions, There

LEMMA PollKeepsPod == ASSUME PodInv, NEW c \in PodCalls, PollPod(c) PROVE PodInv'
<1>0. place[c] = "poll" /\ place[c] \in Inside
      /\ UNCHANGED gateway /\ UNCHANGED late /\ UNCHANGED client /\ lock' = lock /\ UNCHANGED podLocal
  BY DEF PollPod, Inside
<1>1. lock = {c} /\ Held(c) /\ (asked = {} => Waits /\ Finds(c))
  BY <1>0, Holder
<1>2. Queue' /\ Marked' /\ (Waits => Waits')
  BY <1>0, QueueSame DEF PodInv, Replaced, Marked, Waits, New, client
<1>3. PICK s : Replies(c, s) /\ Answer(s) /\ (retiring[c] # NoStart /\ s.phase \notin There => Empty)
  <2>1. CASE retiring[c] # NoStart
    BY <2>1, CachedAnswers DEF PodInv, PollPod
  <2>2. CASE retiring[c] = NoStart
    <3>1. reply[c].id \in DOMAIN known
      BY <1>0, <1>1 DEF Held
    <3> QED BY <2>2, <3>1, SessionAnswers DEF PodInv, PollPod
  <2> QED BY <2>1, <2>2
<1>4. place' = [place EXCEPT ![c] = "settle"] /\ reply' = [reply EXCEPT ![c] = s] /\ s \in Sessions
  BY <1>3 DEF PollPod, GoTo, Replies, Answer
<1>5. ClientTypes' /\ Elsewhere(c) /\ place'[c] = "settle" /\ reply'[c] = s /\ retiring' = retiring
  BY <1>0, <1>4, QueueSame DEF PodInv, ClientTypes, client, podLocal, Requests, Inside, Elsewhere
<1>6. Held(c)'
  BY <1>0, <1>1, <1>3, <1>5, QueueSame DEF Held, Inside, Answer, podLocal
<1>7. Shown(c)'
  BY <1>0, <1>3, <1>5, QueueSame, AnswerShown DEF Shown, PodInv, Replaced, client
<1>8. Waits /\ Finds(c) => Finds(c)'
  BY <1>0, <1>3, <1>5, QueueSame DEF Finds, New, client
<1> QED BY <1>0, <1>1, <1>2, <1>5, <1>6, <1>7, <1>8, InsideKeeps DEF client

LEMMA PostKeeps == ASSUME PodInv, NEW c \in PodCalls, Post(c) PROVE PodInv'
<1>0. place[c] = "post" /\ place[c] \in Inside /\ UNCHANGED client /\ lock' = lock /\ UNCHANGED podLocal
  BY DEF Post, Inside
<1>1. lock = {c} /\ Held(c) /\ Shown(c) /\ (asked = {} => Waits /\ Finds(c)) /\ request \in Requests
      /\ Queue
  BY <1>0, Holder DEF Held, PodInv, ClientTypes
<1>2. CASE late' = late \cup {request} /\ UNCHANGED gateway /\ UNCHANGED <<reply, place>>
  <2>1. Queue' /\ Marked' /\ Shown(c)' /\ Elsewhere(c)
    BY <1>0, <1>1, <1>2, QueueSame DEF PodInv, Replaced, Marked, client, Shown, Elsewhere, podLocal
  <2>2. ClientTypes' /\ Held(c)'
    BY <1>0, <1>1, <1>2, QueueSame DEF PodInv, ClientTypes, client, podLocal, Held
  <2>3. Waits /\ Finds(c) => Waits' /\ Finds(c)'
    BY <1>0, <1>2, QueueSame DEF Waits, Finds, New, client, podLocal
  <2> QED BY <1>0, <1>1, <2>1, <2>2, <2>3, InsideKeeps DEF client
<1>3. CASE Enqueue(request) /\ UNCHANGED late
  <2>1. /\ Queue' /\ Grown /\ request.id \in DOMAIN known'
        /\ request.id \in DOMAIN known => DOMAIN known' = DOMAIN known
        /\ Live' = Live
        /\ request.id \in DOMAIN known \/ Pending => entry' = entry
    BY <1>1, <1>3, EnqueueKeeps
  <2>2. Marked'
    BY <1>0, <2>1 DEF PodInv, Replaced, Marked, Grown, client
  <2>3. Waits => Waits' /\ ~New'
    <3> SUFFICES ASSUME Waits PROVE Waits' /\ ~New'
      OBVIOUS
    <3>1. ~New'
      BY <1>0, <2>1 DEF New, client
    <3>2. Pending' => Live' \subseteq {entry'.id}
      <4>1. CASE request.id \in DOMAIN known
        BY <2>1, <4>1 DEF Waits, Pending
      <4>2. CASE request.id \notin DOMAIN known
        BY <1>1, <2>1, <4>2 DEF Waits, New, Empty, Requests, NoRequest, StartIds
      <4> QED BY <4>1, <4>2
    <3> QED BY <1>0, <1>3, <2>1, <3>1, <3>2 DEF Waits, Grown, client
  <2>4. CASE UNCHANGED <<reply, place>>
    <3>1. ClientTypes' /\ Held(c)' /\ Elsewhere(c)
      BY <1>0, <1>1, <1>3, <2>1, <2>4 DEF PodInv, ClientTypes, client, podLocal, Held, Grown, Stays, Elsewhere
    <3>2. Finds(c)' /\ Shown(c)'
      BY <1>0, <1>1, <2>1, <2>4 DEF Finds, Shown, PodInv, Replaced, Marked, Grown, client
    <3> QED BY <1>0, <1>1, <2>1, <2>2, <2>3, <3>1, <3>2, InsideKeeps DEF client
  <2>5. CASE Replies(c, StartReply(request)) /\ GoTo(c, "settle")
    <3>1. PICK s : /\ Replies(c, s) /\ s \in Sessions
                   /\ s.phase \in There => s.id \in DOMAIN known'
                   /\ s.phase = "allocated" => s.id \in InView'
      <4>1. CASE entry'.id # NoStart
        <5>1. StartReply(request) = Turn(entry') /\ Pending'
          BY <4>1 DEF StartReply, Pending
        <5>2. /\ Turn(entry') \in Sessions /\ Turn(entry').id \in DOMAIN known'
              /\ Turn(entry').phase = "allocated" => Turn(entry').id \in InView'
          BY <5>1, <2>1, IdsMade DEF Queue, QueueTypes, Turn, Gone, Made, Sessions, There, InView, StartIds
        <5> QED BY <2>5, <5>1, <5>2
      <4>2. CASE entry'.id = NoStart
        <5>1. request.id \in DOMAIN known
          BY <1>1, <1>3, <4>2 DEF Enqueue, Requests, StartIds, Pending
        <5>2. Answer(Session(request.id)) /\ StartReply(request) = Session(request.id)
          BY <1>1, <4>2, <5>1, SessionAnswers DEF StartReply
        <5>3. InView \subseteq InView'
          BY <1>1, <1>3, <2>1, <4>2, <5>1 DEF InView
        <5> QED BY <2>1, <2>5, <5>1, <5>2, <5>3 DEF Answer
      <4> QED BY <4>1, <4>2
    <3>2. place' = [place EXCEPT ![c] = "settle"] /\ reply' = [reply EXCEPT ![c] = s]
      BY <2>5, <3>1 DEF GoTo, Replies
    <3>3. ClientTypes' /\ Elsewhere(c) /\ place'[c] = "settle" /\ reply'[c] = s /\ retiring'[c] = NoStart
      BY <1>0, <1>1, <1>3, <2>1, <3>1, <3>2 DEF PodInv, ClientTypes, client, podLocal, Inside, Elsewhere,
         Grown, Stays, Held
    <3>4. Held(c)'
      BY <1>0, <1>1, <3>1, <3>3 DEF Held, Inside
    <3>5. Shown(c)'
      BY <1>0, <2>1, <2>2, <3>1, <3>3 DEF Shown, Queue, OnePod, Marked
    <3>6. ~New' => Finds(c)'
      BY <3>3 DEF Finds
    <3> QED BY <1>0, <1>1, <2>1, <2>2, <2>3, <3>3, <3>4, <3>5, <3>6, InsideKeeps DEF client
  <2> QED BY <1>3, <2>4, <2>5, <1>0 DEF Post
<1> QED BY <1>2, <1>3 DEF Post

LEMMA AcceptTypes ==
  ASSUME PodInv, NEW c \in PodCalls, place[c] \in Inside, reply[c].phase \in There, Accept(reply[c]),
         UNCHANGED gateway, UNCHANGED late
  PROVE  /\ request' \in Requests /\ reply[c].id \in DOMAIN known /\ reply[c].id \in StartIds
         /\ ~New' /\ (Waits /\ ~New => Waits')
<1>1. reply[c].id \in DOMAIN known /\ reply[c].id \in StartIds /\ reply[c].replaces \in Ids
  BY Holder DEF Held, PodInv, Queue, QueueTypes, Sessions
<1>2. request' \in Requests /\ ~New'
  BY <1>1, QueueSame DEF Accept, Requests, New
<1>3. ASSUME Waits, ~New PROVE Waits'
  <2>1. \A r \in late : r.id \in DOMAIN known /\ r # NoRequest
    BY <1>3 DEF Waits, New, PodInv, ClientTypes, Requests, NoRequest, StartIds
  <2> QED BY <1>2, <1>3, <2>1, QueueSame DEF Waits
<1> QED BY <1>1, <1>2, <1>3

LEMMA SettleKeeps == ASSUME PodInv, NEW c \in PodCalls, Settle(c) PROVE PodInv'
<1> DEFINE s == reply[c]
<1>0. place[c] = "settle" /\ place[c] \in Inside /\ UNCHANGED gateway /\ UNCHANGED late
      /\ UNCHANGED <<async, generation, asked, kind, saw>>
  BY DEF Settle, Inside
<1>1. lock = {c} /\ Held(c) /\ Shown(c) /\ (asked = {} => Waits /\ Finds(c)) /\ s \in Sessions
      /\ s.id \in Ids /\ retiring[c] \in Ids
  BY <1>0, Holder DEF PodInv, ClientTypes
<1>2. Queue' /\ Marked /\ (Finds(c) => ~New)
  BY <1>0, QueueSame DEF PodInv, Replaced, Finds
<1>3. CASE /\ Retired(c, s)
           /\ Ask(c, IF async THEN Intent(retiring[c]) ELSE Fresh(retiring[c]))
           /\ retiring' = [retiring EXCEPT ![c] = NoStart]
           /\ UNCHANGED <<start, connected, pending, replaced, lock, reply, given>>
  <2> DEFINE r == IF async THEN Intent(retiring[c]) ELSE Fresh(retiring[c])
  <2>1. r \in Requests
    BY <1>1, RequestsMade DEF PodInv, ClientTypes
  <2> HIDE DEF r
  <2>2. Ask(c, r)
    BY <1>3 DEF r
  <2>3. /\ fresh' \in Nat /\ request' = r /\ r # NoRequest
        /\ place' \in [PodCalls -> Inside \cup {"idle", "lock", "done"}]
        /\ place'[c] = "post" /\ \A d \in PodCalls \ {c} : place'[d] = place[d]
    BY <2>1, <2>2, AskTypes
  <2>4. ClientTypes' /\ Elsewhere(c) /\ retiring'[c] = NoStart
    BY <1>0, <1>3, <2>1, <2>3, IdsMade, QueueSame DEF PodInv, ClientTypes, Elsewhere
  <2>5. Held(c)' /\ Finds(c)' /\ Shown(c)' /\ Marked'
    BY <1>0, <1>1, <1>2, <1>3, <2>3, <2>4, QueueSame DEF Held, Inside, Finds, Shown, Marked
  <2>6. Waits /\ Finds(c) => Waits'
    <3> SUFFICES ASSUME Waits, Finds(c) PROVE Waits'
      OBVIOUS
    <3>1. s.phase \notin There /\ retiring[c] # NoStart
      BY <1>3 DEF Retired, There
    <3>2. Empty /\ ~New
      BY <1>0, <3>1 DEF Finds
    <3>3. \A q \in late : q.id \in DOMAIN known
      BY <3>2 DEF Waits, New, PodInv, ClientTypes, Requests, NoRequest, StartIds
    <3> QED BY <1>0, <3>2, <3>3, AskWaits
  <2> QED BY <1>0, <1>1, <1>2, <1>3, <2>4, <2>5, <2>6, InsideKeeps
<1>4. CASE Leave(c, NoStart) /\ UNCHANGED <<start, connected, request, pending, replaced, fresh>>
  <2>1. /\ place' \in [PodCalls -> Inside \cup {"idle", "lock", "done"}]
        /\ reply' \in [PodCalls -> Sessions] /\ retiring' \in [PodCalls -> Ids]
        /\ given' \in [PodCalls -> Ids] /\ lock' = {}
        /\ Elsewhere(c) /\ Held(c)' /\ Shown(c)' /\ (Waits' => Finds(c)')
    BY <1>1, <1>4, IdsMade, LeaveKeeps
  <2>2. ClientTypes' /\ Marked' /\ (Waits => Waits')
    BY <1>0, <1>2, <1>4, <2>1, QueueSame DEF PodInv, ClientTypes, Marked, Waits, New
  <2> QED BY <1>0, <1>1, <1>2, <2>1, <2>2, InsideKeeps
<1>5. CASE Attach(c, s)
  <2>1. s.phase = "allocated" /\ Accept(s) /\ start' = s.id /\ UNCHANGED fresh /\ s.phase \in There
    BY <1>5 DEF Attach, There
  <2>2. request' \in Requests /\ s.id \in DOMAIN known /\ s.id \in StartIds /\ (Waits /\ ~New => Waits')
    BY <1>0, <2>1, AcceptTypes
  <2>3. PICK y \in Ids : Leave(c, y)
    BY <1>1, <1>5, IdsMade DEF Attach
  <2>4. /\ place' \in [PodCalls -> Inside \cup {"idle", "lock", "done"}]
        /\ reply' \in [PodCalls -> Sessions] /\ retiring' \in [PodCalls -> Ids]
        /\ given' \in [PodCalls -> Ids] /\ lock' = {}
        /\ Elsewhere(c) /\ Held(c)' /\ Shown(c)' /\ (Waits' => Finds(c)')
    BY <1>1, <2>3, LeaveKeeps
  <2>5. ClientTypes'
    BY <1>0, <2>1, <2>2, <2>4, QueueSame DEF PodInv, ClientTypes, Stays
  <2>6. Marked'
    <3>1. CASE s.id = replaced
      BY <1>0, <1>2, <1>5, <3>1, QueueSame DEF Attach, Marked
    <3>2. CASE s.id # replaced
      <4>1. s.id \notin asked /\ \A x \in asked : x \notin InView
        BY <1>1, <2>1, <3>2 DEF Shown
      <4> QED BY <1>0, <1>2, <2>1, <4>1, QueueSame DEF Marked
    <3> QED BY <3>1, <3>2
  <2> QED BY <1>0, <1>1, <1>2, <2>2, <2>4, <2>5, <2>6, InsideKeeps
<1>6. CASE /\ s.phase \in There
           /\ retiring' = [retiring EXCEPT ![c] =
                 IF s.phase = "retiring" /\ (pending \/ ~async) THEN s.id
                 ELSE IF ~async /\ s.id # @ THEN NoStart ELSE @]
           /\ Accept(s) /\ GoTo(c, "poll")
           /\ UNCHANGED <<start, connected, pending, replaced, fresh, lock, reply, given>>
  <2>1. /\ request' \in Requests /\ s.id \in DOMAIN known /\ s.id \in StartIds
        /\ ~New' /\ (Waits /\ ~New => Waits')
    BY <1>0, <1>6, AcceptTypes
  <2>2. ClientTypes' /\ Elsewhere(c) /\ place'[c] = "poll"
    BY <1>0, <1>1, <1>6, <2>1, IdsMade, QueueSame DEF PodInv, ClientTypes, Elsewhere, GoTo, Inside
  <2>3. Held(c)' /\ Shown(c)' /\ Marked' /\ Finds(c)'
    BY <1>0, <1>1, <1>2, <1>6, <2>1, <2>2, QueueSame DEF Held, Inside, Shown, Marked, Finds
  <2> QED BY <1>0, <1>1, <1>2, <1>6, <2>1, <2>2, <2>3, InsideKeeps
<1> QED BY <1>3, <1>4, <1>5, <1>6 DEF Settle, There

LEMMA PodInitKeeps == PodInit => PodInv
<1> SUFFICES ASSUME PodInit PROVE PodInv
  OBVIOUS
<1> USE DEF PodInit
<1>1. Queue
  BY IdsMade DEF Queue, QueueTypes, OnePod, Live, InView, Pending, NoEntry, Stays
<1>2. ClientTypes
  BY IdsMade, RequestsMade DEF ClientTypes, Stays
<1>3. ASSUME NEW c \in PodCalls PROVE Held(c) /\ Shown(c) /\ Finds(c)
  BY DEF Held, Shown, Finds, Inside, There, NoSession
<1>4. Marked /\ Waits
  BY DEF Marked, Waits, New, Pending, NoEntry, Live
<1> QED BY <1>1, <1>2, <1>3, <1>4 DEF PodInv, Replaced, Joins

LEMMA PodNextKeeps == PodInv /\ [PodNext]_podVars => PodInv'
<1> SUFFICES ASSUME PodInv, [PodNext]_podVars PROVE PodInv'
  OBVIOUS
<1>1. CASE Gateway
  BY <1>1, TerminateKeeps, SubmitKeeps, CreatedKeeps, CompletedKeeps, CancelledKeeps, EndsKeeps,
     ArriveKeeps DEF Gateway
<1>2. ASSUME NEW c \in PodCalls, PodStep(c) \/ Fail(c)
      PROVE PodInv'
  BY <1>2, BeginKeeps, AcquireKeeps, LookKeeps, DecideKeeps, DecideSyncKeeps, PostKeeps, SettleKeeps,
     PollKeepsPod, FailKeeps DEF PodStep
<1>3. CASE UNCHANGED podVars
  <2>1. QueueTypes' /\ OnePod' /\ ClientTypes' /\ Marked' /\ (Waits => Waits')
    BY <1>3 DEF podVars, gateway, client, podLocal, PodInv, Queue, QueueTypes, OnePod, Past, ClientTypes,
       Replaced, Marked, Waits, New, Empty, Pending, Live, InView, Stays
  <2>2. ASSUME NEW d \in PodCalls PROVE Held(d)' /\ Shown(d)' /\ (Finds(d) => Finds(d)')
    BY <1>3 DEF podVars, gateway, client, podLocal, PodInv, Replaced, Held, Shown, Finds, Past, Live,
       InView, Stays, New, Empty, Pending
  <2> QED BY <1>3, <2>1, <2>2 DEF PodInv, Queue, Replaced, Joins, podVars, client
<1> QED BY <1>1, <1>2, <1>3, InvalidateKeeps DEF PodNext

\* The queue, the inventory, the shared client and its calls keep their types, and
\* the lock's holder is the one call that is inside (async_pods.py:299-431).
THEOREM PodType == PodSpec => []PodTypeOK
<1>1. PodInv => PodTypeOK
  <2> SUFFICES ASSUME PodInv PROVE PodTypeOK
    OBVIOUS
  <2>1. \A c \in PodCalls : (lock = {c}) = (place[c] \in Inside) /\ reply[c] \in Sessions
    BY DEF PodInv, Held, ClientTypes
  <2>2. {lock} \subseteq {{}} \cup {{c} : c \in PodCalls} /\ \A x \in Live : pods[x].phase \in There \ {"waiting"}
    BY DEF PodInv, ClientTypes, Queue, QueueTypes, Live, There
  <2> QED BY <2>1, <2>2 DEF PodTypeOK, Inside, Sessions, There
<1> QED BY <1>1, PodInitKeeps, PodNextKeeps, PTL DEF PodSpec

\* "Delivery retries join the same allocation" (witness-gateway/PODS.md:355): for
\* any number of calls, entries and late requests, and while no Pod was asked to be
\* replaced, none is in the queue while the miner's Pod is allocated
\* (async_pods.py:332-380, pods.py:160-200).
THEOREM StartsJoin == PodSpec => []RetriesJoin
<1>1. PodInv => RetriesJoin
  BY DEF PodInv, Joins, Waits, RetriesJoin
<1> QED BY <1>1, PodInitKeeps, PodNextKeeps, PTL DEF PodSpec

\* No call is given an allocation after its replacement was asked for, for any
\* number of calls that ask, are interrupted and are resumed
\* (async_pods.py:344-362, 399-406).
THEOREM ReplacedIsNotGiven == PodSpec => ReplacementIsNew
<1>1. ASSUME PodInv, [PodNext]_podVars, NEW c \in PodCalls, place'[c] = "done", place[c] # "done"
      PROVE given'[c] \notin asked
  <2>1. ASSUME NEW d \in PodCalls, NEW STATE x, Leave(d, x)
        PROVE d = c /\ given'[c] = x
    <3>1. \A b \in PodCalls : b # d => place'[b] = place[b]
      BY <2>1 DEF Leave, GoTo, PodInv, ClientTypes
    <3> QED BY <1>1, <2>1, <3>1 DEF Leave, PodInv, ClientTypes
  <2>2. NoStart \notin asked
    BY <1>1 DEF PodInv, ClientTypes
  <2>3. ASSUME NEW d \in PodCalls, NEW p, p # "done", GoTo(d, p)
        PROVE FALSE
    BY <1>1, <2>3 DEF GoTo, PodInv, ClientTypes
  <2>4. ASSUME NEW d \in PodCalls, PodStep(d) \/ Fail(d) PROVE given'[c] \notin asked
    <3>1. CASE Begin(d) \/ Look(d) \/ PollPod(d)
      BY <2>3, <3>1 DEF Begin, Look, PollPod
    <3>2. CASE Decide(d) \/ DecideSync(d)
      BY <2>3, <3>2 DEF Decide, DecideSync, Ask
    <3>3. CASE Post(d)
      BY <1>1, <2>3, <3>3 DEF Post
    <3>4. CASE Fail(d)
      BY <2>1, <2>2, <3>4 DEF Fail
    <3>5. CASE Acquire(d)
      BY <1>1, <2>1, <2>3, <3>5 DEF Acquire, PodInv, Replaced, Marked
    <3>6. CASE Settle(d)
      <4>1. CASE Attach(d, reply[d])
        <5>1. Shown(d)
          BY <1>1 DEF PodInv, Replaced
        <5> QED BY <2>1, <2>2, <4>1, <5>1 DEF Attach, Shown
      <4> QED BY <2>1, <2>2, <2>3, <3>6, <4>1 DEF Settle, Ask
    <3> QED BY <2>4, <3>1, <3>2, <3>3, <3>4, <3>5, <3>6 DEF PodStep
  <2>5. place' # place
    BY <1>1
  <2> QED BY <1>1, <2>4, <2>5 DEF PodNext, Gateway, Terminate, Submit, Created, Completed, Cancelled,
      Ends, Arrive, Others, Invalidate, podVars
<1>2. PodInv /\ [PodNext]_podVars =>
        [\A c \in PodCalls : place'[c] = "done" /\ place[c] # "done" => given'[c] \notin asked]_podVars
  BY <1>1
<1> QED BY <1>2, PodInitKeeps, PodNextKeeps, PTL DEF PodSpec, ReplacementIsNew
=============================================================================
