------------------------- MODULE AllocationProofs -------------------------
(***************************************************************************)
(* The gateway's admission for any number of miners, starts, rounds, Pods, *)
(* requests and faults: no create is sent twice and the fleet stays within *)
(* its limit.                                                              *)
(*                                                                         *)
(* What the gateway knows of a create that was sent is in its journal, and *)
(* the journal is three things: what is saved, what the running gateway    *)
(* has read, and every save that may still be applied.  The proof is that  *)
(* all these copies remember a create from before its POST until it is     *)
(* decided or forgotten for its age, whatever is saved, lost or late in    *)
(* between.                                                                *)
(***************************************************************************)
EXTENDS Allocation, FiniteSetTheorems, WellFoundedInduction, TLAPS

-----------------------------------------------------------------------------
(* The invariant.                                                          *)

\* The queues that are, or may become, what the gateway works with.
Copies == {journal, cache} \cup late

\* The creates sent in this round, and the one that is authorized to be sent.
Sent == {c \in Creates : posts[c] # 0 /\ c.round = inputs}
InHand == {c \in Creates : task = At("dispatch", c) /\ c.round = inputs}

\* Every entry is an attempt, and none is numbered before the queue got there.
Coherent(q) ==
  /\ q.pending \subseteq q.history
  /\ \A a \in q.history : a.seq <= q.sequence

\* The queue knows that the create was submitted, ...
Spent(q, c) ==
  /\ \E a \in AttemptOf(q, c) : a.submitted
  /\ \A e \in EntryOf(q, c) : e.submitted

\* ... has it in hand ...
Entered(q, c) == \E e \in EntryOf(q, c) : e.submitted

\* ... and counts it, in a later round too,
\* during the grace.
Recorded(q, c) == Entered(q, c) \/ c \in q.retained

\* A copy remembers what was sent, what may be sent and what is undecided, but
\* for what is overdue.
Faithful(q) ==
  /\ Coherent(q)
  /\ \A c \in Sent \cup InHand : Spent(q, c)
  /\ \A c \in InHand : Entered(q, c)
  /\ \A c \in flight \ overdue : Recorded(q, c)

Known == \A q \in Copies : Faithful(q)

\* Nothing is of a round that has not come.
Past ==
  /\ \A c \in Creates : posts[c] # 0 => c.round <= inputs
  /\ \A c \in Creates : task # Idle /\ task.create = c => c.round <= inputs

\* A create that was sent is not begun again, and one about to be was not sent.
Begun ==
  /\ \A c \in Sent : \A op \in OpOf(c) : Submitted(op)
  /\ \A c \in InHand : posts[c] = 0

\* An undecided create was sent, and nothing came of it yet.
Undecided ==
  /\ \A c \in pods \cup flight \cup finished : posts[c] # 0
  /\ flight \cap (pods \cup finished) = {}

\* The fleet that the gateway answers for, and the creates it must count.
Fleet == pods \ stray
Expected == flight \ overdue

\* There is room for the create that the worker has in hand.
HasRoom == Cardinality(Fleet) + Cardinality(Expected) < MaxPods

Room ==
  /\ WithinCapacity
  /\ task.at \in {"authorize", "dispatch"} => HasRoom

Memory == Known /\ Past /\ Begun /\ Undecided

IInv == TypeOK /\ OneCreate /\ Memory /\ Room

-----------------------------------------------------------------------------
(* What the queue's changes preserve.                                      *)

\* Nat is well ordered.
LEMMA Least ==
  ASSUME NEW T \in SUBSET Nat, T # {}
  PROVE \E x \in T : \A y \in T : x <= y
<1> DEFINE R == {p \in Nat \X Nat : p[1] < p[2]}
<1>1. IsWellFoundedOn(R, Nat)
  BY NatLessThanWellFounded DEF OpToRel
<1>2. PICK x \in T : \A y \in T : ~ (<<y, x>> \in R)
  <2> HIDE DEF R
  <2> QED BY <1>1, WFMin
<1>3. \A y \in T : ~(y < x)
  BY <1>2
<1> QED BY <1>2, <1>3

\* Among attempts with bounded numbers there is a latest.
LEMMA Latest ==
  ASSUME NEW S \in SUBSET Attempts, S # {}, NEW n \in Nat, \A a \in S : a.seq <= n
  PROVE \E a \in S : \A b \in S : b.seq <= a.seq
<1> DEFINE U == {m \in Nat : \A b \in S : b.seq <= m}
<1>1. PICK m \in U : \A y \in U : m <= y
  BY Least
<1>2. \A b \in S : b.seq \in Nat /\ b.seq <= m
  BY <1>1 DEF Attempts
<1>3. SUFFICES ASSUME \A a \in S : a.seq # m PROVE FALSE
  BY <1>2
<1>4. \A b \in S : b.seq <= m - 1
  BY <1>1, <1>2, <1>3
<1>5. m - 1 \in Nat
  BY <1>1, <1>2, <1>4
<1>6. m - 1 \in U
  BY <1>4, <1>5
<1>7. m <= m - 1
  BY <1>1, <1>6
<1> QED BY <1>1, <1>7

LEMMA QueueFields ==
  ASSUME NEW q \in Queues
  PROVE /\ q.pending \subseteq Entries
        /\ q.history \subseteq Attempts
        /\ q.last \in [Hotkeys -> Starts \union {NoStart}]
        /\ q.retained \subseteq Creates
        /\ q.sequence \in Nat
BY DEF Queues

\* A create is its own identity; an entry's is a create.
LEMMA Identity ==
  /\ \A c \in Creates : CreateOf(c) = c
  /\ \A x \in Entries \cup Attempts : CreateOf(x) \in Creates
BY DEF CreateOf, Creates, Entries, Attempts

LEMMA MarkTypes ==
  ASSUME NEW S \in SUBSET Entries, NEW c, NEW v \in BOOLEAN
  PROVE /\ MarkSubmitted(S, c, v) \subseteq Entries
        /\ \A x \in MarkSubmitted(S, c, v) :
             \E y \in S : /\ CreateOf(x) = CreateOf(y) /\ x.seq = y.seq
                          /\ x.submitted = IF CreateOf(y) = c THEN v ELSE y.submitted
        /\ \A y \in S :
             \E x \in MarkSubmitted(S, c, v) :
               /\ CreateOf(x) = CreateOf(y) /\ x.seq = y.seq
               /\ x.submitted = IF CreateOf(y) = c THEN v ELSE y.submitted
<1> DEFINE M(y) == IF CreateOf(y) = c THEN [y EXCEPT !.submitted = v] ELSE y
<1>1. ASSUME NEW y \in S
      PROVE /\ M(y) \in Entries
            /\ CreateOf(M(y)) = CreateOf(y) /\ M(y).seq = y.seq
            /\ M(y).submitted = IF CreateOf(y) = c THEN v ELSE y.submitted
  BY <1>1 DEF Entries, CreateOf
<1>2. MarkSubmitted(S, c, v) = {M(y) : y \in S}
  BY DEF MarkSubmitted
<1> HIDE DEF M
<1> QED BY <1>1, <1>2

\* What q knows of a create, r knows too.
Keeps(q, r, d) ==
  /\ Spent(q, d) => Spent(r, d)
  /\ Entered(q, d) => Entered(r, d)
  /\ Recorded(q, d) => Recorded(r, d)

\* enqueue: a new attempt has nothing to forget.
LEMMA EnqueuedKeeps ==
  ASSUME NEW q \in Queues, Coherent(q), NEW c \in Creates, CanEnqueue(q, c)
  PROVE /\ Enqueued(q, c) \in Queues
        /\ Coherent(Enqueued(q, c))
        /\ \A d \in Creates : Keeps(q, Enqueued(q, c), d)
<1> DEFINE Q == Enqueued(q, c)
           New(n) == [hotkey |-> c.hotkey, round |-> c.round, start |-> c.start,
                      seq |-> n, submitted |-> FALSE]
<1>1. /\ q.pending \subseteq Entries /\ q.history \subseteq Attempts
      /\ q.retained \subseteq Creates /\ q.sequence \in Nat
      /\ q.last \in [Hotkeys -> Starts \union {NoStart}]
  BY QueueFields
<1>2. \A n \in Nat : New(n) \in Entries /\ CreateOf(New(n)) = c /\ New(n).seq = n /\ ~New(n).submitted
  BY DEF Creates, Entries, CreateOf
<1>3. \A y \in q.history : y.seq \in Nat /\ y.seq <= q.sequence
  BY <1>1 DEF Coherent, Attempts
<1> DEFINE Added(n, m) ==
             /\ q.sequence <= m /\ n <= m
             /\ Q.sequence = m /\ Q.history = q.history \cup {New(n)}
             /\ Q.pending = q.pending \/ Q.pending = q.pending \cup {New(n)}
             /\ Q.retained = q.retained /\ Q.last = q.last
             /\ Q = [pending |-> Q.pending, history |-> Q.history, last |-> Q.last,
                     retained |-> Q.retained, sequence |-> Q.sequence]
<1>4. \E n \in Nat, m \in Nat : Added(n, m)
  <2>1. CASE PendingOf(q, c.hotkey) # {}
    <3> DEFINE e == CHOOSE e \in PendingOf(q, c.hotkey) : TRUE
    <3>1. e \in q.pending
      BY <2>1 DEF PendingOf
    <3>2. e.seq \in Nat /\ e.seq <= q.sequence
      BY <3>1, <1>3 DEF Coherent
    <3>3. Q = [q EXCEPT !.history = @ \cup {New(e.seq)}]
      BY <2>1 DEF Enqueued
    <3> HIDE DEF e, New, Q
    <3>4. Added(e.seq, q.sequence)
      BY <1>1, <3>2, <3>3 DEF Queues
    <3> HIDE DEF Added
    <3> QED BY <1>1, <3>2, <3>4
  <2>2. CASE PendingOf(q, c.hotkey) = {}
    <3> DEFINE n == q.sequence + 1
    <3>1. Q = [q EXCEPT !.sequence = n, !.pending = @ \cup {New(n)}, !.history = @ \cup {New(n)}]
      BY <2>2 DEF Enqueued
    <3>2. n \in Nat /\ q.sequence <= n
      BY <1>1
    <3> HIDE DEF n, New, Q
    <3>3. /\ Q.sequence = n
          /\ Q.pending = q.pending \cup {New(n)} /\ Q.history = q.history \cup {New(n)}
          /\ Q.retained = q.retained /\ Q.last = q.last
      BY <3>1 DEF Queues
    <3>4. Q = [pending |-> Q.pending, history |-> Q.history, last |-> Q.last,
               retained |-> Q.retained, sequence |-> Q.sequence]
      BY <3>1 DEF Queues
    <3>5. Added(n, n)
      BY <3>2, <3>3, <3>4
    <3> HIDE DEF Added
    <3> QED BY <3>2, <3>5
  <2> QED BY <2>1, <2>2
<1>5. PICK n \in Nat, m \in Nat : Added(n, m)
  BY <1>4
<1>6. /\ Q.sequence = m /\ Q.history = q.history \cup {New(n)} /\ q.sequence <= m /\ n <= m
      /\ Q.pending = q.pending \/ Q.pending = q.pending \cup {New(n)}
      /\ Q.retained = q.retained /\ Q.last = q.last
  BY <1>5
<1>7. Q \in Queues
  <2>1. Entries = Attempts
    BY DEF Entries, Attempts
  <2>2. Q.pending \subseteq Entries /\ Q.history \subseteq Attempts
    BY <1>1, <1>2, <1>6, <2>1
  <2>3. Q = [pending |-> Q.pending, history |-> Q.history, last |-> Q.last,
             retained |-> Q.retained, sequence |-> Q.sequence]
    BY <1>5
  <2> HIDE DEF Q
  <2> QED BY <1>1, <1>6, <2>2, <2>3 DEF Queues
<1>8. Coherent(Q)
  BY <1>1, <1>2, <1>3, <1>6 DEF Coherent
<1>9. \A a \in q.history : CreateOf(a) # c
  BY DEF CanEnqueue, AttemptOf
<1> HIDE DEF Q, New, Added
<1>10. ASSUME NEW d \in Creates PROVE Keeps(q, Q, d)
  <2>1. Spent(q, d) => d # c
    BY <1>9 DEF Spent, AttemptOf
  <2>2. AttemptOf(q, d) \subseteq AttemptOf(Q, d) /\ EntryOf(q, d) \subseteq EntryOf(Q, d)
    BY <1>6 DEF AttemptOf, EntryOf
  <2>3. d # c => EntryOf(Q, d) = EntryOf(q, d)
    BY <1>2, <1>6 DEF EntryOf
  <2> QED BY <1>6, <2>1, <2>2, <2>3 DEF Keeps, Spent, Entered, Recorded
<1> QED BY <1>7, <1>8, <1>10 DEF Q

\* Marking entries and attempts alike keeps a queue coherent.
LEMMA MarkedKeeps ==
  ASSUME NEW q \in Queues, Coherent(q), NEW c \in Creates, NEW v \in BOOLEAN, NEW r \in Queues,
         r.pending = MarkSubmitted(q.pending, c, v), r.history = MarkSubmitted(q.history, c, v),
         r.retained = q.retained, r.sequence = q.sequence
  PROVE /\ Coherent(r)
        /\ \A d \in Creates : v \/ d # c => Keeps(q, r, d)
<1>1. q.pending \subseteq Entries /\ q.history \subseteq Entries
  BY QueueFields DEF Entries, Attempts
<1>2. r.pending \subseteq r.history
  BY DEF MarkSubmitted, Coherent
<1>3. \A a \in r.history : a.seq <= r.sequence
  BY <1>1, MarkTypes DEF Coherent
<1>4. ASSUME NEW d \in Creates, v \/ d # c PROVE Keeps(q, r, d)
  <2>1. ASSUME NEW S \in SUBSET Entries
        PROVE /\ \A x \in MarkSubmitted(S, c, v) : CreateOf(x) = d =>
                   \E y \in S : CreateOf(y) = d /\ (y.submitted => x.submitted)
              /\ \A y \in S : CreateOf(y) = d =>
                   \E x \in MarkSubmitted(S, c, v) : CreateOf(x) = d /\ (y.submitted => x.submitted)
    <3> DEFINE M == MarkSubmitted(S, c, v)
    <3>1. /\ \A x \in M : \E y \in S :
               CreateOf(x) = CreateOf(y) /\ x.submitted = IF CreateOf(y) = c THEN v ELSE y.submitted
          /\ \A y \in S : \E x \in M :
               CreateOf(x) = CreateOf(y) /\ x.submitted = IF CreateOf(y) = c THEN v ELSE y.submitted
      BY MarkTypes
    <3> HIDE DEF M
    <3>2. \A x \in M, y \in S :
            /\ CreateOf(y) = d
            /\ x.submitted = IF CreateOf(y) = c THEN v ELSE y.submitted
            => (y.submitted => x.submitted)
      BY <1>4
    <3>3. ASSUME NEW x \in M, CreateOf(x) = d
          PROVE \E y \in S : CreateOf(y) = d /\ (y.submitted => x.submitted)
      BY <3>1, <3>2, <3>3
    <3>4. ASSUME NEW y \in S, CreateOf(y) = d
          PROVE \E x \in M : CreateOf(x) = d /\ (y.submitted => x.submitted)
      BY <3>1, <3>2, <3>4
    <3> QED BY <3>3, <3>4 DEF M
  <2>2. \A y \in AttemptOf(q, d) : \E x \in AttemptOf(r, d) : y.submitted => x.submitted
    BY <1>1, <2>1 DEF AttemptOf
  <2>3. \A y \in EntryOf(q, d) : \E x \in EntryOf(r, d) : y.submitted => x.submitted
    BY <1>1, <2>1 DEF EntryOf
  <2>4. \A x \in EntryOf(r, d) : \E y \in EntryOf(q, d) : y.submitted => x.submitted
    BY <1>1, <2>1 DEF EntryOf
  <2> QED BY <2>2, <2>3, <2>4 DEF Keeps, Spent, Entered, Recorded
<1> QED BY <1>2, <1>3, <1>4 DEF Coherent

LEMMA Marked ==
  ASSUME NEW S \in SUBSET Entries, NEW c, NEW v \in BOOLEAN
  PROVE /\ \A x \in MarkSubmitted(S, c, v) : CreateOf(x) = c => x.submitted = v
        /\ \A y \in S : \E x \in MarkSubmitted(S, c, v) : CreateOf(x) = CreateOf(y)
<1> DEFINE M == MarkSubmitted(S, c, v)
<1>1. /\ \A x \in M : \E y \in S :
           CreateOf(x) = CreateOf(y) /\ x.submitted = IF CreateOf(y) = c THEN v ELSE y.submitted
      /\ \A y \in S : \E x \in M :
           CreateOf(x) = CreateOf(y) /\ x.submitted = IF CreateOf(y) = c THEN v ELSE y.submitted
  BY MarkTypes
<1> HIDE DEF M
<1>2. \A x \in M : CreateOf(x) = c => x.submitted = v
  BY <1>1
<1> QED BY <1>1, <1>2 DEF M

\* authorize: the create it authorizes is spent and entered from then on.
LEMMA AuthorizedKeeps ==
  ASSUME NEW q \in Queues, Coherent(q), NEW c \in Creates
  PROVE /\ Authorized(q, c) \in Queues
        /\ Coherent(Authorized(q, c))
        /\ \A d \in Creates : Keeps(q, Authorized(q, c), d)
        /\ CanAuthorize(q, c) => Spent(Authorized(q, c), c) /\ Entered(Authorized(q, c), c)
<1> DEFINE Q == Authorized(q, c)
           L == [q.last EXCEPT ![c.hotkey] = c.start]
<1>1. /\ q.pending \subseteq Entries /\ q.history \subseteq Entries
      /\ q.retained \subseteq Creates /\ q.sequence \in Nat
      /\ q.last \in [Hotkeys -> Starts \union {NoStart}]
  BY QueueFields DEF Entries, Attempts
<1>2. Q = [q EXCEPT !.pending = MarkSubmitted(@, c, TRUE),
                    !.history = MarkSubmitted(@, c, TRUE), !.last = L]
  BY DEF Authorized
<1>3. L \in [Hotkeys -> Starts \union {NoStart}]
  BY <1>1 DEF Creates
<1> HIDE DEF Q, L
<1>4. /\ Q.pending = MarkSubmitted(q.pending, c, TRUE)
      /\ Q.history = MarkSubmitted(q.history, c, TRUE)
      /\ Q.retained = q.retained /\ Q.sequence = q.sequence /\ Q.last = L
  BY <1>2 DEF Queues
<1>5. Q = [pending |-> Q.pending, history |-> Q.history, last |-> Q.last,
           retained |-> Q.retained, sequence |-> Q.sequence]
  BY <1>2 DEF Queues
<1>6. Q.pending \subseteq Entries /\ Q.history \subseteq Attempts
  <2>1. Entries = Attempts
    BY DEF Entries, Attempts
  <2>2. /\ MarkSubmitted(q.pending, c, TRUE) \subseteq Entries
        /\ MarkSubmitted(q.history, c, TRUE) \subseteq Entries
    BY <1>1, MarkTypes, Zenon
  <2> QED BY <1>4, <2>1, <2>2
<1>7. Q \in Queues
  BY <1>1, <1>3, <1>4, <1>5, <1>6 DEF Queues
<1>8. Coherent(Q) /\ \A d \in Creates : Keeps(q, Q, d)
  BY <1>4, <1>7, MarkedKeeps
<1>9. ASSUME CanAuthorize(q, c) PROVE Spent(Q, c) /\ Entered(Q, c)
  <2>1. ASSUME NEW S \in SUBSET Entries
        PROVE /\ \A x \in MarkSubmitted(S, c, TRUE) : CreateOf(x) = c => x.submitted = TRUE
              /\ \A y \in S : \E x \in MarkSubmitted(S, c, TRUE) : CreateOf(x) = CreateOf(y)
    BY Marked, ZenonT(60)
  <2>2. /\ \A x \in MarkSubmitted(q.pending, c, TRUE) : CreateOf(x) = c => x.submitted = TRUE
        /\ \A x \in MarkSubmitted(q.history, c, TRUE) : CreateOf(x) = c => x.submitted = TRUE
    BY <1>1, <2>1
  <2>3. \E x \in MarkSubmitted(q.pending, c, TRUE) : CreateOf(x) = c
    <3>1. PICK y \in q.pending : CreateOf(y) = c
      BY <1>9 DEF CanAuthorize, EntryOf
    <3> QED BY <1>1, <2>1, <3>1
  <2>4. Q.pending \subseteq Q.history
    BY <1>8 DEF Coherent
  <2> QED BY <1>4, <2>1, <2>2, <2>3, <2>4 DEF Spent, Entered, AttemptOf, EntryOf
<1> QED BY <1>7, <1>8, <1>9 DEF Q

\* The start that is the hotkey's last again, after a release.
LEMMA PreviousType ==
  ASSUME NEW q \in Queues, Coherent(q), NEW c \in Creates
  PROVE Previous(q, c) \in Starts \cup {NoStart}
<1> DEFINE S == {a \in q.history : /\ a.hotkey = c.hotkey /\ a.round = c.round
                                   /\ a.submitted /\ a.start # c.start}
<1>1. SUFFICES ASSUME S # {}
               PROVE (CHOOSE a \in S : \A b \in S : b.seq <= a.seq).start \in Starts
  BY DEF Previous
<1>2. S \in SUBSET Attempts /\ q.sequence \in Nat /\ \A a \in S : a.seq <= q.sequence
  BY QueueFields DEF Coherent
<1> HIDE DEF S
<1>3. \E a \in S : \A b \in S : b.seq <= a.seq
  BY <1>1, <1>2, Latest
<1>4. (CHOOSE a \in S : \A b \in S : b.seq <= a.seq) \in S
  BY <1>3
<1> QED BY <1>2, <1>4 DEF Attempts

\* release_authorization: only the create it returns is forgotten.
LEMMA ReleasedKeeps ==
  ASSUME NEW q \in Queues, Coherent(q), NEW c \in Creates
  PROVE /\ Released(q, c) \in Queues
        /\ Coherent(Released(q, c))
        /\ \A d \in Creates : d # c => Keeps(q, Released(q, c), d)
<1>1. CASE ~ \E e \in EntryOf(q, c) : e.submitted
  <2>1. Released(q, c) = q
    BY <1>1 DEF Released
  <2> QED BY <2>1 DEF Keeps
<1>2. CASE \E e \in EntryOf(q, c) : e.submitted
  <2> DEFINE Q == Released(q, c)
             L == [q.last EXCEPT ![c.hotkey] = Previous(q, c)]
  <2>1. /\ q.pending \subseteq Entries /\ q.history \subseteq Entries
        /\ q.retained \subseteq Creates /\ q.sequence \in Nat
        /\ q.last \in [Hotkeys -> Starts \union {NoStart}]
    BY QueueFields DEF Entries, Attempts
  <2>2. Q = [q EXCEPT !.pending = MarkSubmitted(@, c, FALSE),
                      !.history = MarkSubmitted(@, c, FALSE), !.last = L]
    BY <1>2 DEF Released
  <2>3. L \in [Hotkeys -> Starts \union {NoStart}]
    BY <2>1, PreviousType
  <2> HIDE DEF Q, L
  <2>4. /\ Q.pending = MarkSubmitted(q.pending, c, FALSE)
        /\ Q.history = MarkSubmitted(q.history, c, FALSE)
        /\ Q.retained = q.retained /\ Q.sequence = q.sequence /\ Q.last = L
    BY <2>2 DEF Queues
  <2>5. Q = [pending |-> Q.pending, history |-> Q.history, last |-> Q.last,
             retained |-> Q.retained, sequence |-> Q.sequence]
    BY <2>2 DEF Queues
  <2>6. Q.pending \subseteq Entries /\ Q.history \subseteq Attempts
    <3>1. Entries = Attempts
      BY DEF Entries, Attempts
    <3>2. /\ MarkSubmitted(q.pending, c, FALSE) \subseteq Entries
          /\ MarkSubmitted(q.history, c, FALSE) \subseteq Entries
      BY <2>1, MarkTypes, Zenon
    <3> QED BY <2>4, <3>1, <3>2
  <2>7. Q \in Queues
    BY <2>1, <2>3, <2>4, <2>5, <2>6 DEF Queues
  <2>8. Coherent(Q) /\ \A d \in Creates : d # c => Keeps(q, Q, d)
    BY <2>4, <2>7, MarkedKeeps
  <2> QED BY <2>7, <2>8 DEF Q
<1> QED BY <1>1, <1>2

\* Taking entries off the queue forgets no attempt.
LEMMA ShortenedKeeps ==
  ASSUME NEW q \in Queues, Coherent(q), NEW P \in SUBSET q.pending
  PROVE LET r == [q EXCEPT !.pending = P]
        IN /\ r \in Queues
           /\ Coherent(r)
           /\ \A d \in Creates : Spent(q, d) => Spent(r, d)
           /\ \A d \in Creates : {e \in EntryOf(q, d) : e.submitted} \subseteq P => Keeps(q, r, d)
<1> DEFINE r == [q EXCEPT !.pending = P]
<1>1. /\ q.pending \subseteq Entries /\ q.history \subseteq Attempts
      /\ q.retained \subseteq Creates /\ q.sequence \in Nat
      /\ q.last \in [Hotkeys -> Starts \union {NoStart}]
  BY QueueFields
<1>2. /\ r.pending = P /\ r.history = q.history
      /\ r.retained = q.retained /\ r.sequence = q.sequence /\ r.last = q.last
  BY DEF Queues
<1>3. r = [pending |-> r.pending, history |-> r.history, last |-> r.last,
           retained |-> r.retained, sequence |-> r.sequence]
  BY DEF Queues
<1> HIDE DEF r
<1>4. r \in Queues
  BY <1>1, <1>2, <1>3 DEF Queues
<1>5. Coherent(r)
  BY <1>2 DEF Coherent
<1>6. ASSUME NEW d
      PROVE /\ AttemptOf(r, d) = AttemptOf(q, d)
            /\ EntryOf(r, d) = EntryOf(q, d) \cap P
  BY <1>2 DEF AttemptOf, EntryOf
<1>7. \A d \in Creates : Spent(q, d) => Spent(r, d)
  BY <1>6 DEF Spent
<1>8. ASSUME NEW d \in Creates, {e \in EntryOf(q, d) : e.submitted} \subseteq P
      PROVE Keeps(q, r, d)
  BY <1>2, <1>6, <1>7, <1>8 DEF Keeps, Entered, Recorded
<1> QED BY <1>4, <1>5, <1>7, <1>8 DEF r

\* complete: only the create that is done leaves the queue, and stays spent.
LEMMA CompletedKeeps ==
  ASSUME NEW q \in Queues, Coherent(q), NEW c \in Creates
  PROVE /\ Completed(q, c) \in Queues
        /\ Coherent(Completed(q, c))
        /\ \A d \in Creates : Spent(q, d) => Spent(Completed(q, c), d)
        /\ \A d \in Creates : d # c => Keeps(q, Completed(q, c), d)
<1> DEFINE P == q.pending \ EntryOf(q, c)
<1>1. P \in SUBSET q.pending
  OBVIOUS
<1>2. Completed(q, c) = [q EXCEPT !.pending = P]
  BY DEF Completed
<1>3. \A d \in Creates : d # c => {e \in EntryOf(q, d) : e.submitted} \subseteq P
  BY DEF EntryOf
<1> HIDE DEF P
<1>4. /\ [q EXCEPT !.pending = P] \in Queues
      /\ Coherent([q EXCEPT !.pending = P])
      /\ \A d \in Creates : Spent(q, d) => Spent([q EXCEPT !.pending = P], d)
      /\ \A d \in Creates : {e \in EntryOf(q, d) : e.submitted} \subseteq P =>
           Keeps(q, [q EXCEPT !.pending = P], d)
  BY <1>1, ShortenedKeeps
<1> QED BY <1>2, <1>3, <1>4

\* cancel: nothing that was submitted leaves the queue.
LEMMA CancelledKeeps ==
  ASSUME NEW q \in Queues, Coherent(q), NEW c \in Creates
  PROVE /\ Cancelled(q, c) \in Queues
        /\ Coherent(Cancelled(q, c))
        /\ \A d \in Creates : Keeps(q, Cancelled(q, c), d)
<1> DEFINE P == q.pending \ {e \in EntryOf(q, c) : ~e.submitted}
<1>1. P \in SUBSET q.pending
  OBVIOUS
<1>2. Cancelled(q, c) = [q EXCEPT !.pending = P]
  BY DEF Cancelled
<1>3. \A d \in Creates : {e \in EntryOf(q, d) : e.submitted} \subseteq P
  BY DEF EntryOf
<1> HIDE DEF P
<1>4. /\ [q EXCEPT !.pending = P] \in Queues
      /\ Coherent([q EXCEPT !.pending = P])
      /\ \A d \in Creates : Spent(q, d) => Spent([q EXCEPT !.pending = P], d)
      /\ \A d \in Creates : {e \in EntryOf(q, d) : e.submitted} \subseteq P =>
           Keeps(q, [q EXCEPT !.pending = P], d)
  BY <1>1, ShortenedKeeps
<1> QED BY <1>2, <1>3, <1>4

\* rollover: creates of the new round are kept as they are, and a submitted
\* one of an older round is still counted unless it is overdue.
LEMMA RolledOverKeeps ==
  ASSUME NEW q \in Queues, Coherent(q), NEW n \in Rounds
  PROVE /\ RolledOver(q, n) \in Queues
        /\ Coherent(RolledOver(q, n))
        /\ \A d \in Creates : d.round = n =>
             /\ Spent(q, d) => Spent(RolledOver(q, n), d)
             /\ Entered(q, d) => Entered(RolledOver(q, n), d)
        /\ \A d \in Creates \ overdue : Recorded(q, d) => Recorded(RolledOver(q, n), d)
<1> DEFINE r == RolledOver(q, n)
           U == {e \in q.pending : e.round # n /\ e.submitted}
           R == (q.retained \cup {CreateOf(e) : e \in U}) \ overdue
           P == {e \in q.pending : e.round = n}
           H == {a \in q.history : a.round = n}
           L == [h \in Hotkeys |-> IF \E a \in q.history : /\ a.hotkey = h /\ a.round = n
                                                           /\ a.start = q.last[h]
                                   THEN q.last[h] ELSE NoStart]
<1>1. /\ q.pending \subseteq Entries /\ q.history \subseteq Attempts
      /\ q.retained \subseteq Creates /\ q.sequence \in Nat
      /\ q.last \in [Hotkeys -> Starts \union {NoStart}]
  BY QueueFields
<1>2. r = [q EXCEPT !.retained = R, !.pending = P, !.history = H, !.last = L]
  BY DEF RolledOver
<1>3. L \in [Hotkeys -> Starts \union {NoStart}]
  BY <1>1
<1>4. R \subseteq Creates
  BY <1>1, Identity
<1>5. P \subseteq q.pending /\ H \subseteq q.history /\ P \subseteq H
  BY DEF Coherent
<1>6. \A d \in Creates : \A e \in q.pending \cup q.history : CreateOf(e) = d => e.round = d.round
  BY Identity DEF CreateOf
<1>7. \A d \in Creates \ overdue : Recorded(q, d) => d \in R \/ \E e \in P : CreateOf(e) = d /\ e.submitted
  BY DEF Recorded, Entered, EntryOf
<1>8. ASSUME NEW d \in Creates, d.round = n
      PROVE /\ \A e \in q.pending : CreateOf(e) = d => e \in P
            /\ \A a \in q.history : CreateOf(a) = d => a \in H
  BY <1>6, <1>8
<1> HIDE DEF r, R, P, H, L
<1>10. /\ r.pending = P /\ r.history = H
       /\ r.retained = R /\ r.sequence = q.sequence /\ r.last = L
  BY <1>2 DEF Queues
<1>11. r = [pending |-> r.pending, history |-> r.history, last |-> r.last,
            retained |-> r.retained, sequence |-> r.sequence]
  BY <1>2 DEF Queues
<1>12. r \in Queues
  BY <1>1, <1>3, <1>4, <1>5, <1>10, <1>11 DEF Queues
<1>13. Coherent(r)
  BY <1>5, <1>10 DEF Coherent
<1>14. ASSUME NEW d \in Creates, d.round = n
       PROVE (Spent(q, d) => Spent(r, d)) /\ (Entered(q, d) => Entered(r, d))
  <2>1. AttemptOf(r, d) = AttemptOf(q, d) /\ EntryOf(r, d) = EntryOf(q, d)
    BY <1>5, <1>8, <1>10, <1>14 DEF AttemptOf, EntryOf
  <2> QED BY <2>1 DEF Spent, Entered
<1>15. \A d \in Creates \ overdue : Recorded(q, d) => Recorded(r, d)
  BY <1>7, <1>10 DEF Recorded, Entered, EntryOf
<1> QED BY <1>12, <1>13, <1>14, <1>15 DEF r

-----------------------------------------------------------------------------
(* Type correctness.                                                       *)

Operations == [hotkey : Hotkeys, round : Rounds, start : Starts, phase : Phases]
InProgress == {"progress", "authorize", "dispatch", "reply"}
Tasks == {Idle} \cup [at : InProgress, create : Creates]

LEMMA FaultType == TypeOK /\ Fault => faults' \in 0 .. MaxFaults
BY BoundsAssumption DEF TypeOK, Fault

\* A save, confirmed or not, leaves copies that were there and the new queue.
LEMMA SaveTypes ==
  ASSUME TypeOK, NEW q \in Queues, Saved(q) \/ NotSaved(q)
  PROVE /\ journal' \in Queues /\ late' \subseteq Queues /\ cache' \in Queues
        /\ faults' \in 0 .. MaxFaults
        /\ Copies' \subseteq Copies \cup {q}
<1>1. CASE Saved(q)
  BY <1>1 DEF Saved, TypeOK, Copies
<1>2. CASE NotSaved(q)
  <2>1. faults' \in 0 .. MaxFaults /\ cache' = cache
    BY <1>2, FaultType DEF NotSaved
  <2>2. /\ journal' = journal \/ journal' = q
        /\ late' = late \/ late' = {} \/ late' = late \cup {q}
    BY <1>2 DEF NotSaved
  <2> QED BY <2>1, <2>2 DEF TypeOK, Copies
<1> QED BY <1>1, <1>2

LEMMA CopiesTypes == TypeOK => Copies \subseteq Queues
BY DEF TypeOK, Copies

\* An operation that is set replaces those of its scope.
LEMMA SetOpTypes ==
  ASSUME TypeOK, NEW c \in Creates, NEW phase \in Phases, SetOp(c, phase)
  PROVE /\ ops' \subseteq Operations
        /\ \A op \in ops' : op \in ops \/ (CreateOf(op) = c /\ op.phase = phase)
<1>1. /\ Operation(c, phase) \in Operations
      /\ CreateOf(Operation(c, phase)) = c /\ Operation(c, phase).phase = phase
  BY DEF Operation, Operations, CreateOf, Creates
<1> QED BY <1>1 DEF SetOp, TypeOK, Operations

\* What is found of a create ends the work on it.
LEMMA ReconciledTypes ==
  ASSUME TypeOK, NEW c \in Creates, Reconciled(c)
  PROVE /\ ops' \subseteq Operations
        /\ \A op \in ops' : op \in ops \/ (CreateOf(op) = c /\ op.phase \in {"allocated", "retired"})
        /\ finished' \subseteq finished \cup {c}
        /\ pods' \subseteq pods
        /\ task' = Idle
<1>1. PICK phase \in {"allocated", "retired"} :
        /\ finished' = {f \in finished : <<f.hotkey, f.round>> # <<c.hotkey, c.round>>} \cup {c}
        /\ IF OpOf(c) # {} THEN SetOp(c, phase) ELSE UNCHANGED ops
        /\ pods' = IF phase = "retired" THEN pods \ {c} ELSE pods
        /\ task' = Idle
  BY DEF Reconciled
<1>2. phase \in Phases
  BY DEF Phases
<1>3. \/ ops' = ops
      \/ /\ ops' \subseteq Operations
         /\ \A op \in ops' : op \in ops \/ (CreateOf(op) = c /\ op.phase = phase)
  BY <1>1, <1>2, SetOpTypes
<1> QED BY <1>1, <1>3 DEF TypeOK, Operations

\* The queue's entries are creates.
LEMMA EntryCreate ==
  ASSUME TypeOK, NEW e \in cache.pending
  PROVE /\ CreateOf(e) \in Creates
        /\ CreateOf(e).round = e.round /\ CreateOf(e).hotkey = e.hotkey
        /\ e.submitted \in BOOLEAN
<1>1. e \in Entries
  BY QueueFields DEF TypeOK
<1> QED BY <1>1 DEF CreateOf, Creates, Entries

LEMMA AtType ==
  ASSUME NEW p \in InProgress, NEW c \in Creates
  PROVE /\ At(p, c) \in Tasks /\ At(p, c) # Idle
        /\ At(p, c).at = p /\ At(p, c).create = c
BY DEF At, Tasks, InProgress, Idle

LEMMA TaskType ==
  ASSUME TypeOK
  PROVE /\ task \in Tasks
        /\ task # Idle => task.create \in Creates /\ task.at \in InProgress
                          /\ task = At(task.at, task.create)
        /\ Idle.at \notin InProgress
BY DEF TypeOK, Tasks, InProgress, At, Idle

LEMMA InitTypes == Init => TypeOK
<1>1. EmptyQueue \in Queues
  BY DEF EmptyQueue, Queues
<1>2. 1 \in Rounds /\ 0 \in 0 .. LastRound /\ 0 \in 0 .. MaxFaults
  BY LastRoundAssumption, BoundsAssumption DEF Rounds
<1>3. ASSUME Init
      PROVE /\ journal \in Queues /\ late \subseteq Queues /\ cache \in Queues
            /\ ops = {} /\ finished = {} /\ task = Idle /\ round = 0 /\ inputs = 1
            /\ rolled = FALSE /\ flight = {} /\ overdue = {} /\ pods = {} /\ stray = {} /\ exited = {}
            /\ posts \in [Creates -> Nat] /\ faults = 0
  BY <1>1, <1>3 DEF Init
<1> QED BY <1>2, <1>3 DEF TypeOK

-----------------------------------------------------------------------------
(* The steps that send nothing.                                            *)

\* A miner has finitely many creates, and so has the fleet.
LEMMA CreatesFinite == IsFiniteSet(Creates)
<1> DEFINE T == (Hotkeys \X Rounds) \X Starts
           f == [t \in T |-> [hotkey |-> t[1][1], round |-> t[1][2], start |-> t[2]]]
<1>1. IsFiniteSet(T)
  <2>1. IsFiniteSet(Rounds)
    BY LastRoundAssumption, FS_Interval DEF Rounds
  <2>2. IsFiniteSet(Hotkeys \X Rounds)
    BY <2>1, FiniteAssumption, FS_Product
  <2> QED BY <2>2, FiniteAssumption, FS_Product
<1>2. f \in [T -> Creates]
  BY DEF Creates
<1>3. \A c \in Creates : \E t \in T : f[t] = c
  <2> TAKE c \in Creates
  <2>1. <<<<c.hotkey, c.round>>, c.start>> \in T
    BY DEF Creates
  <2>2. f[<<<<c.hotkey, c.round>>, c.start>>] = c
    BY <2>1 DEF Creates
  <2> QED BY <2>1, <2>2
<1>4. f \in Surjection(T, Creates)
  <2> HIDE DEF f
  <2> QED BY <1>2, <1>3 DEF Surjection
<1> HIDE DEF f, T
<1> QED BY <1>1, <1>4, FS_Surjection

LEMMA CardTypes ==
  ASSUME NEW S \in SUBSET Creates
  PROVE IsFiniteSet(S) /\ Cardinality(S) \in Nat
BY CreatesFinite, FS_Subset, FS_CardinalityType

LEMMA CardShrinks ==
  ASSUME NEW S \in SUBSET Creates, NEW T \in SUBSET S
  PROVE Cardinality(T) <= Cardinality(S)
BY CardTypes, FS_Subset

\* What the saved queue is known to hold.
LEMMA JournalFacts ==
  ASSUME IInv
  PROVE /\ journal \in Queues /\ Coherent(journal) /\ Faithful(journal)
        /\ cache \in Queues /\ Coherent(cache) /\ Faithful(cache)
BY DEF IInv, TypeOK, Memory, Known, Copies, Faithful

\* A changed queue is faithful when it keeps what matters of the saved one.
LEMMA StaysFaithful ==
  ASSUME IInv, NEW r, Coherent(r),
         \A d \in Sent \cup InHand : Spent(journal, d) => Spent(r, d),
         \A d \in InHand : Entered(journal, d) => Entered(r, d),
         \A d \in Expected : Recorded(journal, d) => Recorded(r, d)
  PROVE Faithful(r)
BY JournalFacts DEF Faithful, Expected

\* A step after which no more creates are sent or authorized than before, and
\* the worker has none in hand that was not checked.
Quiet ==
  /\ inputs' = inputs /\ posts' = posts
  /\ flight' \subseteq flight /\ pods' \subseteq pods
  /\ overdue \subseteq overdue' /\ stray' = stray
  /\ finished' \subseteq finished \cup pods \cup (flight \ flight')
  /\ \/ task' = task
     \/ task' = Idle
     \/ \E c \in Creates : c.round <= inputs /\ task' = At("progress", c)
     \/ /\ \E c \in Creates : c.round <= inputs /\ task' = At("authorize", c)
        /\ HasRoom
  /\ \A op \in ops' : op \in ops \/ Submitted(op) \/ CreateOf(op) \notin Sent

LEMMA CountTypes ==
  ASSUME TypeOK
  PROVE /\ Fleet \subseteq Creates /\ IsFiniteSet(Fleet) /\ Cardinality(Fleet) \in Nat
        /\ Expected \subseteq Creates /\ IsFiniteSet(Expected) /\ Cardinality(Expected) \in Nat
        /\ MaxPods \in Nat
<1>1. Fleet \subseteq Creates /\ Expected \subseteq Creates
  BY DEF TypeOK, Fleet, Expected
<1> QED BY <1>1, CardTypes, MaxPodsAssumption

\* Fewer Pods and fewer creates leave no less room.
LEMMA RoomStays ==
  ASSUME TypeOK, NEW S \in SUBSET Fleet, NEW T \in SUBSET Expected
  PROVE /\ WithinCapacity => Cardinality(S) + Cardinality(T) <= MaxPods
        /\ HasRoom => Cardinality(S) + Cardinality(T) < MaxPods
<1>1. /\ Cardinality(S) <= Cardinality(Fleet) /\ Cardinality(T) <= Cardinality(Expected)
      /\ Cardinality(S) \in Nat /\ Cardinality(T) \in Nat
  BY CountTypes, CardTypes, CardShrinks
<1> QED BY <1>1, CountTypes DEF WithinCapacity, HasRoom, Fleet, Expected

LEMMA QuietStep ==
  ASSUME IInv, TypeOK', Quiet, \A q \in Copies' : q \in Copies \/ Faithful(q)
  PROVE IInv'
<1>1. Sent' = Sent
  BY DEF Quiet, Sent
<1>2. InHand' \subseteq InHand
  <2>1. ASSUME NEW c \in InHand' PROVE c \in InHand
    <3>1. c \in Creates /\ task' = At("dispatch", c) /\ c.round = inputs
      BY <2>1 DEF InHand, Quiet
    <3>2. task' = task
      BY <3>1 DEF Quiet, At, Idle
    <3> QED BY <3>1, <3>2 DEF InHand
  <2> QED BY <2>1
<1>3. Known'
  <2>1. \A q \in Copies' : Faithful(q)
    BY DEF IInv, Memory, Known
  <2>2. flight' \ overdue' \subseteq flight \ overdue
    BY DEF Quiet
  <2>3. ASSUME NEW q \in Copies' PROVE Faithful(q)'
    <3>1. Coherent(q) /\ (\A c \in Sent \cup InHand : Spent(q, c))
      BY <2>1 DEF Faithful
    <3>2. (\A c \in InHand : Entered(q, c)) /\ (\A c \in flight \ overdue : Recorded(q, c))
      BY <2>1 DEF Faithful
    <3> QED BY <1>1, <1>2, <2>2, <3>1, <3>2 DEF Faithful
  <2> QED BY <2>3 DEF Known
<1>4. Past'
  <2>1. \A c \in Creates : posts'[c] # 0 => c.round <= inputs'
    BY DEF IInv, Memory, Past, Quiet
  <2>2. ASSUME NEW c \in Creates, task' # Idle, task'.create = c PROVE c.round <= inputs'
    <3>1. CASE task' = task
      BY <2>2, <3>1 DEF IInv, Memory, Past, Quiet
    <3>2. CASE task' # task
      BY <2>2, <3>2 DEF Quiet, At
    <3> QED BY <3>1, <3>2
  <2> QED BY <2>1, <2>2 DEF Past
<1>5. Begun'
  <2>1. \A c \in InHand' : posts'[c] = 0
    BY <1>2 DEF IInv, Memory, Begun, Quiet
  <2>2. ASSUME NEW c \in Sent, NEW op \in OpOf(c)' PROVE Submitted(op)
    <3>1. op \in ops' /\ CreateOf(op) = c
      BY DEF OpOf
    <3> QED BY <3>1 DEF IInv, Memory, Begun, Quiet, OpOf
  <2> QED BY <1>1, <2>1, <2>2 DEF Begun
<1>6. Undecided'
  BY DEF IInv, Memory, Undecided, Quiet
<1>7. Room'
  <2>1. Fleet' \subseteq Fleet /\ Expected' \subseteq Expected
    BY DEF Quiet, Fleet, Expected
  <2>2. HasRoom => HasRoom'
    BY <2>1, RoomStays DEF IInv, HasRoom
  <2>3. WithinCapacity'
    BY <2>1, RoomStays DEF IInv, Room, WithinCapacity, Fleet, Expected
  <2>4. task'.at \in {"authorize", "dispatch"} => task' = task \/ HasRoom
    BY DEF Quiet, At, Idle
  <2> QED BY <2>2, <2>3, <2>4 DEF IInv, Room
<1>8. OneCreate'
  BY DEF IInv, OneCreate, Quiet
<1> QED BY <1>3, <1>4, <1>5, <1>6, <1>7, <1>8 DEF IInv, Memory

LEMMA TypesNow ==
  ASSUME TypeOK
  PROVE /\ journal \in Queues /\ late \subseteq Queues /\ cache \in Queues
        /\ ops \subseteq Operations /\ finished \subseteq Creates
        /\ task \in Tasks
        /\ round \in 0 .. LastRound /\ inputs \in Rounds /\ rolled \in BOOLEAN
        /\ flight \subseteq Creates /\ overdue \subseteq Creates
        /\ pods \subseteq Creates /\ stray \subseteq Creates /\ exited \subseteq Creates
        /\ posts \in [Creates -> Nat]
        /\ faults \in 0 .. MaxFaults
BY DEF TypeOK, Operations, Tasks, InProgress

LEMMA TypesThen ==
  ASSUME journal' \in Queues, late' \subseteq Queues, cache' \in Queues,
         ops' \subseteq Operations, finished' \subseteq Creates,
         task' \in Tasks,
         round' \in 0 .. LastRound, inputs' \in Rounds, rolled' \in BOOLEAN,
         flight' \subseteq Creates, overdue' \subseteq Creates,
         pods' \subseteq Creates, stray' \subseteq Creates, exited' \subseteq Creates,
         posts' \in [Creates -> Nat],
         faults' \in 0 .. MaxFaults
  PROVE TypeOK'
BY DEF TypeOK, Operations, Tasks, InProgress

LEMMA NoneInHand == task.at # "dispatch" => InHand = {}
BY DEF InHand, At

\* A save that keeps what matters of the journal.
LEMMA SavingStep ==
  ASSUME IInv, NEW q \in Queues, Faithful(q), Saved(q) \/ NotSaved(q),
         UNCHANGED <<round, inputs, overdue, provider>>, rolled' \in BOOLEAN,
         finished' \subseteq finished, ops' \subseteq ops,
         \/ task' = task
         \/ \E c \in Creates : c.round <= inputs /\ task' = At("progress", c)
  PROVE IInv'
<1>1. TypeOK
  BY DEF IInv
<1>2. /\ journal' \in Queues /\ late' \subseteq Queues /\ cache' \in Queues
      /\ faults' \in 0 .. MaxFaults
      /\ Copies' \subseteq Copies \cup {q}
  BY <1>1, SaveTypes
<1>3. task' \in Tasks
  BY <1>1, TypesNow, AtType DEF InProgress
<1>4. TypeOK'
  <2>1. /\ ops' \subseteq Operations /\ finished' \subseteq Creates
        /\ round' \in 0 .. LastRound /\ inputs' \in Rounds
        /\ flight' \subseteq Creates /\ overdue' \subseteq Creates
        /\ pods' \subseteq Creates /\ stray' \subseteq Creates /\ exited' \subseteq Creates
        /\ posts' \in [Creates -> Nat]
    BY <1>1, TypesNow DEF provider
  <2> QED BY <1>2, <1>3, <2>1, TypesThen
<1>5. Quiet
  BY DEF Quiet, provider
<1> QED BY <1>2, <1>4, <1>5, QuietStep

\* The worker serves an entry of the current round with its hands free.
LEMMA TurnFacts ==
  ASSUME IInv, NEW e \in cache.pending, Turn(e)
  PROVE /\ CreateOf(e) \in Creates /\ CreateOf(e).round = inputs
        /\ CreateOf(e) \notin finished
        /\ task = Idle /\ InHand = {}
        /\ e \in EntryOf(cache, CreateOf(e))
        /\ inputs \in Nat
<1>1. CreateOf(e) \in Creates /\ CreateOf(e).round = e.round
  BY EntryCreate DEF IInv
<1>2. e.round = inputs /\ CreateOf(e) \notin finished /\ task = Idle
  BY DEF Turn
<1>3. InHand = {}
  BY <1>2, NoneInHand DEF Idle
<1>4. inputs \in Nat
  BY DEF IInv, TypeOK, Rounds
<1> QED BY <1>1, <1>2, <1>3, <1>4 DEF EntryOf

LEMMA KeepsFaithful ==
  ASSUME IInv, NEW r, Coherent(r), \A d \in Sent \cup InHand \cup flight : Keeps(journal, r, d)
  PROVE Faithful(r)
BY StaysFaithful DEF Keeps, Expected

LEMMA KnownCreates == IInv => (Sent \cup InHand \cup flight) \subseteq Creates
BY DEF IInv, TypeOK, Sent, InHand

LEMMA StartKeeps ==
  ASSUME IInv, NEW h \in Hotkeys, NEW s \in Starts, Start(h, s)
  PROVE IInv'
<1> DEFINE c == [hotkey |-> h, round |-> round, start |-> s]
           q == Enqueued(journal, c)
<1>1. c \in Creates
  BY DEF Start, IInv, TypeOK, Creates
<1>2. /\ CanEnqueue(journal, c) /\ (Saved(q) \/ NotSaved(q))
      /\ UNCHANGED <<ops, finished, task, round, rolled, inputs, overdue, provider>>
  BY DEF Start
<1> HIDE DEF c
<1>3. /\ q \in Queues /\ Coherent(q)
      /\ \A d \in Creates : Keeps(journal, q, d)
  BY <1>1, <1>2, JournalFacts, EnqueuedKeeps
<1> HIDE DEF q
<1>4. Faithful(q)
  BY <1>3, KnownCreates, KeepsFaithful
<1>5. rolled' \in BOOLEAN
  BY <1>2 DEF IInv, TypeOK
<1> QED BY <1>2, <1>3, <1>4, <1>5, SavingStep

LEMMA ReleaseKeeps ==
  ASSUME IInv, NEW e \in cache.pending, Release(e)
  PROVE IInv'
<1> DEFINE c == CreateOf(e)
           q == Released(journal, c)
<1>1. /\ c \in Creates /\ c.round = inputs /\ task = Idle /\ InHand = {} /\ inputs \in Nat
  BY TurnFacts DEF Release
<1>2. /\ \E op \in OpOf(c) : ~Submitted(op)
      /\ \/ Saved(q) /\ task' = At("progress", c)
         \/ NotSaved(q) /\ UNCHANGED task
      /\ UNCHANGED <<ops, finished, round, rolled, inputs, overdue, provider>>
  BY DEF Release
<1> HIDE DEF c
<1>3. c \notin Sent /\ c \notin flight
  <2>1. c \notin Sent
    BY <1>2 DEF IInv, Memory, Begun
  <2>2. c \in flight => posts[c] # 0
    BY DEF IInv, Memory, Undecided
  <2> QED BY <1>1, <2>1, <2>2 DEF Sent
<1>4. /\ q \in Queues /\ Coherent(q)
      /\ \A d \in Creates : d # c => Keeps(journal, q, d)
  BY <1>1, JournalFacts, ReleasedKeeps
<1> HIDE DEF q
<1>5. Faithful(q)
  BY <1>1, <1>3, <1>4, KnownCreates, KeepsFaithful
<1>6. rolled' \in BOOLEAN
  BY <1>2 DEF IInv, TypeOK
<1>7. \/ task' = task
      \/ \E d \in Creates : d.round <= inputs /\ task' = At("progress", d)
  BY <1>1, <1>2
<1> QED BY <1>2, <1>4, <1>5, <1>6, <1>7, SavingStep

LEMMA CompleteKeeps ==
  ASSUME IInv, NEW e \in cache.pending, Complete(e)
  PROVE IInv'
<1> DEFINE c == CreateOf(e)
           q == Completed(journal, c)
<1>1. c \in Creates
  BY EntryCreate DEF IInv
<1>2. /\ task = Idle /\ c \in finished
      /\ \/ Saved(q) /\ finished' = finished \ {c}
         \/ NotSaved(q) /\ UNCHANGED finished
      /\ UNCHANGED <<ops, task, round, rolled, inputs, overdue, provider>>
  BY DEF Complete
<1> HIDE DEF c
<1>3. InHand = {}
  BY <1>2, NoneInHand DEF Idle
<1>4. c \notin flight
  BY <1>2 DEF IInv, Memory, Undecided
<1>5. /\ q \in Queues /\ Coherent(q)
      /\ \A d \in Creates : Spent(journal, d) => Spent(q, d)
      /\ \A d \in Creates : d # c => Keeps(journal, q, d)
  BY <1>1, JournalFacts, CompletedKeeps
<1> HIDE DEF q
<1>6. Faithful(q)
  BY <1>3, <1>4, <1>5, KnownCreates, StaysFaithful DEF Keeps, Expected
<1>7. rolled' \in BOOLEAN
  BY <1>2 DEF IInv, TypeOK
<1> QED BY <1>2, <1>5, <1>6, <1>7, SavingStep

LEMMA CancelKeeps ==
  ASSUME IInv, NEW e \in cache.pending, Cancel(e)
  PROVE IInv'
<1> DEFINE c == CreateOf(e)
           q == Cancelled(journal, c)
<1>1. c \in Creates
  BY EntryCreate DEF IInv
<1>2. /\ ops' \subseteq ops
      /\ Saved(q) \/ NotSaved(q)
      /\ UNCHANGED <<finished, task, round, rolled, inputs, overdue, provider>>
  BY DEF Cancel
<1> HIDE DEF c
<1>3. /\ q \in Queues /\ Coherent(q)
      /\ \A d \in Creates : Keeps(journal, q, d)
  BY <1>1, JournalFacts, CancelledKeeps
<1> HIDE DEF q
<1>4. Faithful(q)
  BY <1>3, KnownCreates, KeepsFaithful
<1>5. rolled' \in BOOLEAN
  BY <1>2 DEF IInv, TypeOK
<1> QED BY <1>2, <1>3, <1>4, <1>5, SavingStep

LEMMA RolloverKeeps ==
  ASSUME IInv, Rollover
  PROVE IInv'
<1> DEFINE q == RolledOver(journal, inputs)
<1>1. inputs \in Rounds
  BY DEF IInv, TypeOK
<1>2. /\ \/ Saved(q) /\ rolled' = TRUE
         \/ NotSaved(q) /\ UNCHANGED rolled
      /\ UNCHANGED <<ops, finished, task, round, inputs, overdue, provider>>
  BY DEF Rollover
<1>3. /\ q \in Queues /\ Coherent(q)
      /\ \A d \in Creates : d.round = inputs =>
           (Spent(journal, d) => Spent(q, d)) /\ (Entered(journal, d) => Entered(q, d))
      /\ \A d \in Creates \ overdue : Recorded(journal, d) => Recorded(q, d)
  BY <1>1, JournalFacts, RolledOverKeeps
<1> HIDE DEF q
<1>4. \A d \in Sent \cup InHand : d.round = inputs
  BY DEF Sent, InHand
<1>5. Faithful(q)
  BY <1>3, <1>4, KnownCreates, StaysFaithful DEF Expected
<1>6. rolled' \in BOOLEAN
  BY <1>2 DEF IInv, TypeOK
<1> QED BY <1>2, <1>3, <1>5, <1>6, SavingStep

\* A quiet step that leaves the queue alone, but for reading it.
LEMMA ReadingStep ==
  ASSUME IInv, Quiet, journal' \in Copies, cache' \in Copies, late' \subseteq late,
         ops' \subseteq Operations, task' \in Tasks, finished' \subseteq Creates,
         round' \in 0 .. LastRound, rolled' \in BOOLEAN,
         overdue' \subseteq Creates, exited' \subseteq Creates, faults' \in 0 .. MaxFaults
  PROVE IInv'
<1>1. Copies' \subseteq Copies
  BY DEF Copies
<1>2. TypeOK
  BY DEF IInv
<1>3. /\ journal' \in Queues /\ cache' \in Queues /\ late' \subseteq Queues
      /\ inputs' \in Rounds /\ posts' \in [Creates -> Nat]
      /\ flight' \subseteq Creates /\ pods' \subseteq Creates /\ stray' \subseteq Creates
  BY <1>2, TypesNow, CopiesTypes DEF Quiet
<1>4. TypeOK'
  BY <1>3, TypesThen
<1> QED BY <1>1, <1>4, QuietStep

LEMMA AcquireKeeps ==
  ASSUME IInv, NEW e \in cache.pending, Acquire(e)
  PROVE IInv'
<1> DEFINE c == CreateOf(e)
<1>1. /\ c \in Creates /\ c.round = inputs /\ e \in EntryOf(cache, c) /\ inputs \in Nat
  BY TurnFacts DEF Acquire
<1>2. /\ ~e.submitted
      /\ ops' = ops \/ SetOp(c, "draining")
      /\ task' = At("progress", c)
      /\ UNCHANGED <<journal, late, cache, finished, round, rolled, inputs, overdue, provider, faults>>
  BY DEF Acquire
<1> HIDE DEF c
<1>3. c \notin Sent
  BY <1>1, <1>2, JournalFacts DEF Faithful, Spent
<1>4. /\ ops' \subseteq Operations
      /\ \A op \in ops' : op \in ops \/ CreateOf(op) = c
  <2>1. "draining" \in Phases
    BY DEF Phases
  <2> QED BY <1>1, <1>2, <2>1, SetOpTypes, TypesNow DEF IInv
<1>5. Quiet
  BY <1>1, <1>2, <1>3, <1>4 DEF Quiet, provider
<1>6. task' \in Tasks
  BY <1>1, <1>2, AtType DEF InProgress
<1> QED BY <1>2, <1>4, <1>5, <1>6, ReadingStep, TypesNow DEF IInv, Copies, provider

\* What is found of a Pod that is there.
LEMMA ReconciledKeeps ==
  ASSUME IInv, NEW c \in pods, Reconciled(c), faults' = faults,
         UNCHANGED <<journal, late, cache, round, rolled, inputs, flight, overdue, stray, exited, posts>>
  PROVE IInv'
<1>1. TypeOK /\ c \in Creates
  BY DEF IInv, TypeOK
<1>2. /\ ops' \subseteq Operations
      /\ \A op \in ops' : op \in ops \/ (CreateOf(op) = c /\ op.phase \in {"allocated", "retired"})
      /\ finished' \subseteq finished \cup {c}
      /\ pods' \subseteq pods
      /\ task' = Idle
  BY <1>1, ReconciledTypes
<1>3. \A op \in ops' : op \in ops \/ Submitted(op)
  BY <1>2 DEF Submitted
<1>4. Quiet
  BY <1>2, <1>3 DEF Quiet
<1>5. task' \in Tasks /\ finished' \subseteq Creates
  BY <1>1, <1>2, TypesNow DEF Tasks
<1> QED BY <1>1, <1>2, <1>4, <1>5, ReadingStep, TypesNow DEF Copies

LEMMA DiscoverKeeps ==
  ASSUME IInv, NEW e \in cache.pending, Discover(e)
  PROVE IInv'
<1> DEFINE c == CreateOf(e)
<1>1. /\ c \in pods /\ Reconciled(c)
      /\ UNCHANGED <<journal, late, cache, round, rolled, inputs, flight, overdue, stray, exited, posts, faults>>
  BY DEF Discover
<1> HIDE DEF c
<1> QED BY <1>1, ReconciledKeeps

\* Whatever is undecided is counted by the check, unless it is overdue.
LEMMA CapacityCounts ==
  ASSUME IInv, ~CapacityReached
  PROVE HasRoom
<1>1. Expected \subseteq Unresolved
  <2>1. ASSUME NEW c \in Expected PROVE c \in Unresolved
    <3>1. c \in flight /\ c \notin overdue /\ c \notin pods
      BY DEF Expected, IInv, Memory, Undecided
    <3>2. Recorded(cache, c)
      BY <3>1, JournalFacts DEF Faithful
    <3>3. \/ \E e \in cache.pending : e.submitted /\ CreateOf(e) = c
          \/ c \in cache.retained \ overdue
      BY <3>1, <3>2 DEF Recorded, Entered, EntryOf
    <3>4. c \in {CreateOf(e) : e \in {f \in cache.pending : f.submitted}}
                  \cup (cache.retained \ overdue)
      BY <3>3
    <3> QED BY <3>1, <3>4 DEF Unresolved
  <2> QED BY <2>1
<1>2. Unresolved \subseteq Creates
  <2>1. \A e \in cache.pending : CreateOf(e) \in Creates
    BY EntryCreate DEF IInv
  <2>2. cache.retained \subseteq Creates
    BY JournalFacts, QueueFields
  <2>3. \A op \in ops : CreateOf(op) \in Creates
    BY DEF IInv, TypeOK, CreateOf, Creates
  <2> QED BY <2>1, <2>2, <2>3 DEF Unresolved
<1>3. /\ Cardinality(Expected) <= Cardinality(Unresolved)
      /\ Cardinality(Expected) \in Nat /\ Cardinality(Unresolved) \in Nat
  BY <1>1, <1>2, CardTypes, CardShrinks
<1>4. /\ Cardinality(Fleet) <= Cardinality(pods)
      /\ Cardinality(Fleet) \in Nat /\ Cardinality(pods) \in Nat
  <2>1. pods \subseteq Creates /\ Fleet \subseteq pods
    BY DEF IInv, TypeOK, Fleet
  <2> QED BY <2>1, CardTypes, CardShrinks
<1>5. ~(Cardinality(pods) + Cardinality(Unresolved) >= MaxPods)
  BY DEF CapacityReached
<1> QED BY <1>3, <1>4, <1>5, MaxPodsAssumption DEF HasRoom

LEMMA ProgressKeeps ==
  ASSUME IInv, Progress
  PROVE IInv'
<1> DEFINE c == task.create
           others == {p \in pods : p.hotkey = c.hotkey}
<1>1. /\ \/ c \in pods /\ Reconciled(c)
         \/ /\ \E gone \in SUBSET others :
                 /\ pods' = pods \ gone
                 /\ task' = IF gone = others THEN task ELSE Idle
            /\ UNCHANGED <<ops, finished>>
         \/ /\ task' = IF CapacityReached THEN Idle ELSE At("authorize", c)
            /\ UNCHANGED <<ops, finished, pods>>
      /\ UNCHANGED <<journal, late, cache, round, rolled, inputs, flight, overdue, stray, exited, posts, faults>>
  BY DEF Progress
<1>2. task.at = "progress"
  BY DEF Progress
<1>3. /\ c \in Creates /\ c.round <= inputs
  BY <1>2, TaskType DEF IInv, Memory, Past, Idle
<1>4. CASE c \in pods /\ Reconciled(c)
  BY <1>1, <1>4, ReconciledKeeps
<1>5. ASSUME pods' \subseteq pods, UNCHANGED <<ops, finished>>,
             \/ task' = task
             \/ task' = Idle
             \/ ~CapacityReached /\ task' = At("authorize", c)
      PROVE IInv'
  <2>1. Quiet
    <3>1. ~CapacityReached => HasRoom
      BY CapacityCounts
    <3> HIDE DEF c
    <3> QED BY <1>1, <1>3, <1>5, <3>1 DEF Quiet
  <2>2. task' \in Tasks
    <3> HIDE DEF c
    <3>1. task \in Tasks /\ Idle \in Tasks /\ At("authorize", c) \in Tasks
      BY <1>3, AtType, TypesNow DEF IInv, Tasks, InProgress
    <3> QED BY <1>5, <3>1
  <2> QED BY <1>1, <1>5, <2>1, <2>2, ReadingStep, TypesNow DEF IInv, Copies
<1> HIDE DEF c
<1>6. CASE /\ \E gone \in SUBSET others :
                 /\ pods' = pods \ gone
                 /\ task' = IF gone = others THEN task ELSE Idle
           /\ UNCHANGED <<ops, finished>>
  <2>1. pods' \subseteq pods /\ (task' = task \/ task' = Idle)
    BY <1>6
  <2> QED BY <1>5, <1>6, <2>1
<1>7. CASE /\ task' = IF CapacityReached THEN Idle ELSE At("authorize", c)
           /\ UNCHANGED <<ops, finished, pods>>
  <2>1. pods' \subseteq pods /\ UNCHANGED <<ops, finished>>
    BY <1>7
  <2>2. task' = Idle \/ (~CapacityReached /\ task' = At("authorize", c))
    BY <1>7
  <2> QED BY <1>5, <2>1, <2>2
<1> QED BY <1>1, <1>4, <1>6, <1>7

LEMMA ReplyKeeps ==
  ASSUME IInv, Reply
  PROVE IInv'
<1> DEFINE c == task.create
<1>1. /\ \/ c \in pods /\ Reconciled(c) /\ UNCHANGED <<flight, faults>>
         \/ /\ c \in flight
            /\ flight' = flight \ {c}
            /\ SetOp(c, "rejected")
            /\ finished' = {f \in finished : <<f.hotkey, f.round>> # <<c.hotkey, c.round>>} \cup {c}
            /\ task' = Idle
            /\ UNCHANGED <<pods, faults>>
         \/ /\ Fault \/ UNCHANGED faults
            /\ task' = Idle
            /\ UNCHANGED <<ops, finished, flight, pods>>
      /\ UNCHANGED <<journal, late, cache, round, rolled, inputs, overdue, stray, exited, posts>>
  BY DEF Reply
<1>2. c \in Creates /\ TypeOK
  BY TaskType DEF IInv, Reply, Idle
<1> HIDE DEF c
<1>3. Idle \in Tasks
  BY DEF Tasks
<1>4. CASE c \in pods /\ Reconciled(c) /\ UNCHANGED <<flight, faults>>
  BY <1>1, <1>4, ReconciledKeeps
<1>5. CASE /\ c \in flight
           /\ flight' = flight \ {c}
           /\ SetOp(c, "rejected")
           /\ finished' = {f \in finished : <<f.hotkey, f.round>> # <<c.hotkey, c.round>>} \cup {c}
           /\ task' = Idle
           /\ UNCHANGED <<pods, faults>>
  <2>1. /\ ops' \subseteq Operations
        /\ \A op \in ops' : op \in ops \/ (CreateOf(op) = c /\ op.phase = "rejected")
    <3>1. "rejected" \in Phases
      BY DEF Phases
    <3> QED BY <1>2, <1>5, <3>1, SetOpTypes
  <2>2. \A op \in ops' : op \in ops \/ Submitted(op)
    BY <2>1 DEF Submitted
  <2>3. finished' \subseteq finished \cup (flight \ flight')
    BY <1>5
  <2>4. Quiet
    BY <1>1, <1>5, <2>2, <2>3 DEF Quiet
  <2>5. finished' \subseteq Creates
    BY <1>2, <2>3, TypesNow
  <2> QED BY <1>1, <1>2, <1>3, <1>5, <2>1, <2>4, <2>5, ReadingStep, TypesNow DEF Copies
<1>6. CASE /\ Fault \/ UNCHANGED faults
           /\ task' = Idle
           /\ UNCHANGED <<ops, finished, flight, pods>>
  <2>1. Quiet
    BY <1>1, <1>6 DEF Quiet
  <2>2. faults' \in 0 .. MaxFaults
    BY <1>2, <1>6, FaultType, TypesNow
  <2> QED BY <1>1, <1>2, <1>3, <1>6, <2>1, <2>2, ReadingStep, TypesNow DEF Copies
<1> QED BY <1>1, <1>4, <1>5, <1>6

LEMMA LateSaveKeeps ==
  ASSUME IInv, LateSave
  PROVE IInv'
<1>1. /\ journal' \in late /\ late' = {}
      /\ UNCHANGED <<gateway, inputs, overdue, provider, faults>>
  BY DEF LateSave
<1>2. Quiet
  BY <1>1 DEF Quiet, gateway, provider
<1> QED BY <1>1, <1>2, ReadingStep, TypesNow DEF IInv, Copies, gateway, provider

LEMMA LoadJournalKeeps ==
  ASSUME IInv, LoadJournal
  PROVE IInv'
<1>1. /\ cache' = journal
      /\ UNCHANGED <<journal, late, ops, finished, task, round, rolled, inputs, overdue, provider, faults>>
  BY DEF LoadJournal
<1>2. Quiet
  BY <1>1 DEF Quiet, provider
<1> QED BY <1>1, <1>2, ReadingStep, TypesNow DEF IInv, Copies, provider

LEMMA UseRoundKeeps ==
  ASSUME IInv, UseRound
  PROVE IInv'
<1>1. /\ round' = inputs /\ rolled' = FALSE
      /\ UNCHANGED <<journal, late, cache, ops, finished, task, inputs, overdue, provider, faults>>
  BY DEF UseRound
<1>2. Quiet
  BY <1>1 DEF Quiet, provider
<1>3. inputs \in 0 .. LastRound
  BY LastRoundAssumption DEF IInv, TypeOK, Rounds
<1> QED BY <1>1, <1>2, <1>3, ReadingStep, TypesNow DEF IInv, Copies, provider

LEMMA CrashKeeps ==
  ASSUME IInv, Crash
  PROVE IInv'
<1>1. /\ cache' = journal /\ ops' = {} /\ finished' = {} /\ task' = Idle
      /\ round' = 0 /\ rolled' = FALSE
      /\ UNCHANGED <<journal, late, inputs, overdue, provider>>
  BY DEF Crash
<1>2. Quiet
  BY <1>1 DEF Quiet, provider
<1>3. 0 \in 0 .. LastRound /\ faults' \in 0 .. MaxFaults
  BY LastRoundAssumption, FaultType DEF IInv, Crash
<1> QED BY <1>1, <1>2, <1>3, ReadingStep, TypesNow DEF IInv, Copies, provider, Tasks

\* The Pods' own comings and goings.
LEMMA FleetKeeps ==
  ASSUME IInv, NEW c \in Creates, Drops(c) \/ Exits(c) \/ Retire(c)
  PROVE IInv'
<1>1. /\ flight' \subseteq flight /\ pods' \subseteq pods
      /\ exited' = exited \/ exited' = exited \cup {c}
      /\ faults' = faults \/ Fault
      /\ UNCHANGED <<journal, late, gateway, inputs, overdue, stray, posts>>
  BY DEF Drops, Exits, Retire
<1>2. Quiet
  BY <1>1 DEF Quiet, gateway
<1>3. faults' \in 0 .. MaxFaults /\ exited' \subseteq Creates
  BY <1>1, FaultType, TypesNow DEF IInv
<1> QED BY <1>1, <1>2, <1>3, ReadingStep, TypesNow DEF IInv, Copies, gateway

\* The grace changes what is asked of the queue, and not the queue.
LEMMA GraceEndsKeeps ==
  ASSUME IInv, NEW c \in Creates, GraceEnds(c)
  PROVE IInv'
<1>1. /\ overdue' = overdue \/ overdue' = overdue \cup {c}
      /\ IF Operation(c, "creating") \in ops THEN SetOp(c, "lost") ELSE UNCHANGED ops
      /\ UNCHANGED <<journal, late, cache, finished, task, round, rolled, inputs, provider, faults>>
  BY DEF GraceEnds
<1>2. /\ ops' \subseteq Operations
      /\ \A op \in ops' : op \in ops \/ Submitted(op)
  <2>1. CASE Operation(c, "creating") \in ops
    <3>1. "lost" \in Phases /\ SetOp(c, "lost")
      BY <1>1, <2>1 DEF Phases
    <3>2. /\ ops' \subseteq Operations
          /\ \A op \in ops' : op \in ops \/ (CreateOf(op) = c /\ op.phase = "lost")
      BY <3>1, SetOpTypes DEF IInv
    <3> QED BY <3>2 DEF Submitted
  <2>2. CASE Operation(c, "creating") \notin ops
    BY <1>1, <2>2, TypesNow DEF IInv
  <2> QED BY <2>1, <2>2
<1>3. Quiet
  BY <1>1, <1>2 DEF Quiet, provider
<1>4. overdue' \subseteq Creates
  BY <1>1, TypesNow DEF IInv
<1> QED BY <1>1, <1>2, <1>3, <1>4, ReadingStep, TypesNow DEF IInv, Copies, provider

-----------------------------------------------------------------------------
(* The steps on the way to the provider, and the next round.               *)

\* An authorization that was saved is in every copy: there is only one.
LEMMA AuthorizeKeeps ==
  ASSUME IInv, Authorize
  PROVE IInv'
<1> DEFINE c == task.create
           q == Authorized(journal, c)
<1>1. /\ \/ /\ c.round = round /\ c.round = inputs
            /\ CanAuthorize(journal, c)
            /\ \/ Saved(q) /\ task' = At("dispatch", c)
               \/ NotSaved(q) /\ task' = Idle
         \/ task' = Idle /\ UNCHANGED <<journal, late, cache, faults>>
      /\ UNCHANGED <<ops, finished, round, rolled, inputs, overdue, provider>>
  BY DEF Authorize
<1>2. task.at = "authorize"
  BY DEF Authorize
<1>3. TypeOK /\ c \in Creates /\ InHand = {}
  BY <1>2, TaskType, NoneInHand DEF IInv, Idle
<1>4. HasRoom
  BY <1>2 DEF IInv, Room
<1> HIDE DEF c
<1>5. /\ q \in Queues /\ Coherent(q)
      /\ \A d \in Creates : Keeps(journal, q, d)
      /\ CanAuthorize(journal, c) => Spent(q, c) /\ Entered(q, c)
  BY <1>3, JournalFacts, AuthorizedKeeps
<1> HIDE DEF q
<1>6. Faithful(q)
  BY <1>5, KnownCreates, KeepsFaithful
<1>7. CASE task' = Idle /\ UNCHANGED <<journal, late, cache, faults>>
  <2>1. Quiet
    BY <1>1, <1>7 DEF Quiet, provider
  <2> QED BY <1>1, <1>3, <1>7, <2>1, ReadingStep, TypesNow DEF Copies, provider, Tasks
<1>8. CASE /\ c.round = inputs /\ CanAuthorize(journal, c)
           /\ \/ Saved(q) /\ task' = At("dispatch", c)
              \/ NotSaved(q) /\ task' = Idle
  <2>1. /\ journal' \in Queues /\ late' \subseteq Queues /\ cache' \in Queues
        /\ faults' \in 0 .. MaxFaults
        /\ Copies' \subseteq Copies \cup {q}
    BY <1>3, <1>5, <1>8, SaveTypes
  <2>2. task' \in Tasks
    BY <1>3, <1>8, AtType DEF InProgress, Tasks
  <2>3. TypeOK'
    <3>1. /\ ops' \subseteq Operations /\ finished' \subseteq Creates
          /\ round' \in 0 .. LastRound /\ inputs' \in Rounds /\ rolled' \in BOOLEAN
          /\ flight' \subseteq Creates /\ overdue' \subseteq Creates
          /\ pods' \subseteq Creates /\ stray' \subseteq Creates /\ exited' \subseteq Creates
          /\ posts' \in [Creates -> Nat]
      BY <1>1, <1>3, TypesNow DEF provider
    <3> QED BY <2>1, <2>2, <3>1, TypesThen
  <2>4. CASE NotSaved(q) /\ task' = Idle
    <3>1. Quiet
      BY <1>1, <2>4 DEF Quiet, provider
    <3> QED BY <1>6, <2>1, <2>3, <3>1, QuietStep
  <2>5. CASE Saved(q) /\ task' = At("dispatch", c)
    <3>1. Copies' = {q}
      BY <2>5 DEF Saved, Copies
    <3>2. Sent' = Sent /\ flight' = flight /\ overdue' = overdue
      BY <1>1 DEF Sent, provider
    <3>3. InHand' = {c}
      BY <1>1, <1>3, <1>8, <2>5 DEF InHand, At
    <3>4. ASSUME NEW r, r = q PROVE Faithful(r)'
      <4>1. Faithful(r) /\ Spent(r, c) /\ Entered(r, c)
        BY <1>5, <1>6, <1>8, <3>4
      <4> QED BY <3>2, <3>3, <4>1 DEF Faithful
    <3>5. Known'
      BY <3>1, <3>4 DEF Known
    <3>6. Past'
      <4>1. task'.create = c
        BY <2>5 DEF At
      <4>2. inputs' = inputs /\ inputs \in Nat /\ posts' = posts
        BY <1>1 DEF provider, IInv, TypeOK, Rounds
      <4> QED BY <1>8, <4>1, <4>2 DEF Past, IInv, Memory
    <3>7. posts[c] = 0
      <4>1. ASSUME posts[c] # 0 PROVE FALSE
        <5>1. c \in Sent
          BY <1>3, <1>8, <4>1 DEF Sent
        <5>2. \E a \in AttemptOf(journal, c) : a.submitted
          BY <5>1, JournalFacts DEF Faithful, Spent
        <5> QED BY <1>8, <5>2 DEF CanAuthorize
      <4> QED BY <4>1
    <3>8. Begun'
      BY <1>1, <3>2, <3>3, <3>7 DEF Begun, IInv, Memory, OpOf, provider
    <3>9. Undecided'
      BY <1>1 DEF Undecided, IInv, Memory, provider
    <3>10. Room' /\ OneCreate'
      BY <1>1, <1>4 DEF Room, HasRoom, Fleet, Expected, OneCreate, WithinCapacity, IInv, provider
    <3> QED BY <2>3, <3>5, <3>6, <3>8, <3>9, <3>10 DEF IInv, Memory
  <2> QED BY <1>8, <2>4, <2>5
<1> QED BY <1>1, <1>7, <1>8

\* The POST: what was in hand is sent, and known to every copy already.
LEMMA DispatchKeeps ==
  ASSUME IInv, Dispatch
  PROVE IInv'
<1> DEFINE c == task.create
<1>1. /\ \/ /\ c.round = inputs
            /\ SetOp(c, "creating")
            /\ flight' = flight \cup {c}
            /\ posts' = [posts EXCEPT ![c] = @ + 1]
            /\ task' = At("reply", c)
            /\ UNCHANGED faults
         \/ /\ UNCHANGED faults \/ Fault
            /\ task' = Idle
            /\ UNCHANGED <<ops, flight, posts>>
      /\ UNCHANGED <<journal, late, cache, finished, round, rolled, inputs, overdue, pods, stray, exited>>
  BY DEF Dispatch
<1>2. task.at = "dispatch"
  BY DEF Dispatch
<1>3. TypeOK /\ c \in Creates /\ task = At("dispatch", c)
  BY <1>2, TaskType DEF IInv, Idle
<1>4. HasRoom
  BY <1>2 DEF IInv, Room
<1> HIDE DEF c
<1>5. Copies' = Copies
  BY <1>1 DEF Copies
<1>6. CASE /\ UNCHANGED faults \/ Fault
           /\ task' = Idle
           /\ UNCHANGED <<ops, flight, posts>>
  <2>1. Quiet
    BY <1>1, <1>6 DEF Quiet
  <2>2. faults' \in 0 .. MaxFaults
    BY <1>3, <1>6, FaultType, TypesNow
  <2> QED BY <1>1, <1>3, <1>6, <2>1, <2>2, ReadingStep, TypesNow DEF Copies, Tasks
<1>7. CASE /\ c.round = inputs
           /\ SetOp(c, "creating")
           /\ flight' = flight \cup {c}
           /\ posts' = [posts EXCEPT ![c] = @ + 1]
           /\ task' = At("reply", c)
           /\ UNCHANGED faults
  <2>1. c \in InHand /\ posts[c] = 0
    <3>1. c \in InHand
      BY <1>3, <1>7 DEF InHand
    <3> QED BY <3>1 DEF IInv, Memory, Begun
  <2>2. /\ ops' \subseteq Operations
        /\ \A op \in ops' : op \in ops \/ (CreateOf(op) = c /\ op.phase = "creating")
    <3>1. "creating" \in Phases
      BY DEF Phases
    <3> QED BY <1>3, <1>7, <3>1, SetOpTypes
  <2>3. posts' \in [Creates -> Nat] /\ posts'[c] = 1 /\ \A d \in Creates : d # c => posts'[d] = posts[d]
    BY <1>3, <1>7, <2>1, TypesNow
  <2>4. TypeOK'
    <3>1. task' \in Tasks /\ flight' \subseteq Creates
      BY <1>3, <1>7, AtType, TypesNow DEF InProgress
    <3> QED BY <1>1, <1>3, <1>7, <2>2, <2>3, <3>1, TypesNow, TypesThen
  <2>5. Sent' = Sent \cup {c} /\ InHand' = {}
    <3>1. Sent' = Sent \cup {c}
      BY <1>1, <1>3, <1>7, <2>3 DEF Sent
    <3>2. InHand' = {}
      BY <1>7 DEF InHand, At
    <3> QED BY <3>1, <3>2
  <2>6. Known'
    <3>1. ASSUME NEW q \in Copies PROVE Faithful(q)'
      <4>1. Faithful(q)
        BY DEF IInv, Memory, Known
      <4>2. Spent(q, c) /\ Recorded(q, c)
        BY <2>1, <4>1 DEF Faithful, Recorded
      <4> QED BY <1>1, <1>7, <2>5, <4>1, <4>2 DEF Faithful
    <3> QED BY <1>5, <3>1 DEF Known
  <2>7. Past'
    <3>1. inputs \in Nat /\ inputs' = inputs
      BY <1>1 DEF IInv, TypeOK, Rounds
    <3>2. task'.create = c
      BY <1>7 DEF At
    <3>3. \A d \in Creates : posts'[d] # 0 => d.round <= inputs
      BY <1>7, <2>3, <3>1 DEF IInv, Memory, Past
    <3> QED BY <1>7, <3>1, <3>2, <3>3 DEF Past
  <2>8. Begun'
    <3>1. ASSUME NEW d \in Sent \cup {c}, NEW op \in OpOf(d)' PROVE Submitted(op)
      <4>1. op \in ops' /\ CreateOf(op) = d
        BY DEF OpOf
      <4>2. CASE d = c
        <5>1. op = Operation(c, "creating") \/ (op \in ops /\ op \notin ScopeOps(c))
          BY <1>7, <4>1 DEF SetOp
        <5>2. op.hotkey = c.hotkey /\ op.round = c.round
          BY <4>1, <4>2 DEF CreateOf
        <5>3. op = Operation(c, "creating")
          BY <5>1, <5>2 DEF ScopeOps
        <5> QED BY <5>3 DEF Operation, Submitted
      <4>3. CASE d # c
        BY <2>2, <4>1, <4>3 DEF IInv, Memory, Begun, OpOf
      <4> QED BY <4>2, <4>3
    <3> QED BY <2>5, <3>1 DEF Begun
  <2>9. Undecided'
    <3>1. c \notin pods \cup finished
      BY <2>1 DEF IInv, Memory, Undecided
    <3>2. \A d \in pods \cup flight \cup finished : d \in Creates /\ posts[d] # 0
      BY <1>3, TypesNow DEF IInv, Memory, Undecided
    <3>3. \A d \in pods \cup flight' \cup finished : posts'[d] # 0
      BY <1>7, <2>1, <2>3, <3>2
    <3> QED BY <1>1, <1>7, <3>1, <3>3 DEF IInv, Memory, Undecided
  <2>10. Room'
    <3>1. Fleet' = Fleet /\ Expected' \subseteq Expected \cup {c}
      BY <1>1, <1>7 DEF Fleet, Expected
    <3>2. /\ Cardinality(Expected \cup {c}) \in Nat
          /\ Cardinality(Expected \cup {c}) <= Cardinality(Expected) + 1
      <4>1. Cardinality(Expected \cup {c}) =
              IF c \in Expected THEN Cardinality(Expected) ELSE Cardinality(Expected) + 1
        BY <1>3, CountTypes, FS_AddElement
      <4> QED BY <1>3, <4>1, CountTypes
    <3>3. /\ Cardinality(Expected') \in Nat
          /\ Cardinality(Expected') <= Cardinality(Expected \cup {c})
      <4>1. Expected \cup {c} \subseteq Creates
        BY <1>3, CountTypes
      <4> QED BY <3>1, <4>1, CardTypes, CardShrinks
    <3>4. WithinCapacity'
      <4>1. Cardinality(Fleet') + Cardinality(Expected') <= MaxPods
        BY <1>3, <1>4, <3>1, <3>2, <3>3, CountTypes DEF HasRoom
      <4> QED BY <4>1 DEF WithinCapacity, Fleet, Expected
    <3>5. task'.at = "reply"
      BY <1>7 DEF At
    <3> QED BY <3>4, <3>5 DEF Room
  <2>11. OneCreate'
    BY <2>3 DEF OneCreate, IInv
  <2> QED BY <2>4, <2>6, <2>7, <2>8, <2>9, <2>10, <2>11 DEF IInv, Memory
<1> QED BY <1>1, <1>6, <1>7

\* A new round has sent nothing yet.
LEMMA NewRoundKeeps ==
  ASSUME IInv, NewRound
  PROVE IInv'
<1>1. /\ inputs < LastRound /\ inputs' = inputs + 1
      /\ UNCHANGED <<journal, late, gateway, overdue, provider, faults>>
  BY DEF NewRound
<1>2. TypeOK /\ inputs \in Nat /\ LastRound \in Nat /\ inputs' \in Rounds
  BY <1>1, LastRoundAssumption DEF IInv, TypeOK, Rounds
<1>3. TypeOK'
  BY <1>1, <1>2, TypesNow, TypesThen DEF gateway, provider
<1>4. Past'
  <2>1. \A d \in Creates : d.round \in Nat
    BY DEF Creates, Rounds
  <2> QED BY <1>1, <1>2, <2>1 DEF IInv, Memory, Past, gateway, provider
<1>5. Sent' = {}
  BY <1>1, <1>2 DEF Sent, IInv, Memory, Past, provider
<1>6. InHand' = {}
  <2>1. ASSUME NEW c \in InHand' PROVE FALSE
    <3>1. c \in Creates /\ task = At("dispatch", c) /\ c.round = inputs + 1
      BY <1>1, <2>1 DEF InHand, gateway
    <3>2. task # Idle /\ task.create = c
      BY <3>1 DEF At, Idle
    <3> QED BY <1>2, <3>1, <3>2 DEF IInv, Memory, Past
  <2> QED BY <2>1
<1>7. Known'
  <2>1. Copies' = Copies /\ flight' = flight /\ overdue' = overdue
    BY <1>1 DEF Copies, gateway, provider
  <2>2. ASSUME NEW q \in Copies PROVE Faithful(q)'
    <3>1. Faithful(q)
      BY DEF IInv, Memory, Known
    <3> QED BY <1>5, <1>6, <2>1, <3>1 DEF Faithful
  <2> QED BY <2>1, <2>2 DEF Known
<1>8. Begun' /\ Undecided' /\ Room' /\ OneCreate'
  <2>1. Begun'
    BY <1>5, <1>6 DEF Begun
  <2>2. Undecided'
    BY <1>1 DEF IInv, Memory, Undecided, gateway, provider
  <2>3. Room' /\ OneCreate'
    BY <1>1 DEF IInv, Room, HasRoom, Fleet, Expected, OneCreate, WithinCapacity, gateway, provider
  <2> QED BY <2>1, <2>2, <2>3
<1> QED BY <1>3, <1>4, <1>7, <1>8 DEF IInv, Memory

\* A create that takes effect was counted already, or it is a stray.
LEMMA LandsKeeps ==
  ASSUME IInv, NEW c \in Creates, Lands(c)
  PROVE IInv'
<1>1. /\ c \in flight /\ flight' = flight \ {c} /\ pods' = pods \cup {c}
      /\ stray' = IF c \in overdue THEN stray \cup {c} ELSE stray
      /\ UNCHANGED <<journal, late, gateway, inputs, overdue, exited, posts, faults>>
  BY DEF Lands
<1>2. TypeOK
  BY DEF IInv
<1>3. TypeOK'
  BY <1>1, <1>2, TypesNow, TypesThen DEF gateway
<1>4. Sent' = Sent /\ InHand' = InHand /\ Copies' = Copies
  BY <1>1 DEF Sent, InHand, Copies, gateway
<1>5. Known'
  <2>1. ASSUME NEW q \in Copies PROVE Faithful(q)'
    <3>1. Faithful(q)
      BY DEF IInv, Memory, Known
    <3> QED BY <1>1, <1>4, <3>1 DEF Faithful
  <2> QED BY <1>4, <2>1 DEF Known
<1>6. Past' /\ Begun' /\ OneCreate'
  <2>1. Past'
    BY <1>1 DEF IInv, Memory, Past, gateway
  <2>2. Begun'
    BY <1>1, <1>4 DEF IInv, Memory, Begun, OpOf, gateway
  <2>3. OneCreate'
    BY <1>1 DEF IInv, OneCreate
  <2> QED BY <2>1, <2>2, <2>3
<1>7. Undecided'
  BY <1>1 DEF IInv, Memory, Undecided, gateway
<1>8. Room'
  <2>1. task' = task
    BY <1>1 DEF gateway
  <2>2. CASE c \in overdue
    <3>1. Fleet' \subseteq Fleet /\ Expected' \subseteq Expected
      BY <1>1, <2>2 DEF Fleet, Expected
    <3>2. HasRoom => HasRoom'
      BY <1>2, <3>1, RoomStays DEF HasRoom
    <3>3. WithinCapacity'
      BY <1>2, <3>1, RoomStays DEF IInv, Room, WithinCapacity, Fleet, Expected
    <3> QED BY <2>1, <3>2, <3>3 DEF IInv, Room
  <2>3. CASE c \notin overdue
    <3>1. /\ Fleet' \subseteq Fleet \cup {c}
          /\ c \in Expected /\ Expected' = Expected \ {c}
      BY <1>1, <2>3 DEF Fleet, Expected
    <3>2. Cardinality(Expected') = Cardinality(Expected) - 1
      BY <1>2, <3>1, CountTypes, FS_RemoveElement
    <3>3. /\ Cardinality(Fleet \cup {c}) \in Nat
          /\ Cardinality(Fleet \cup {c}) <= Cardinality(Fleet) + 1
      <4>1. Cardinality(Fleet \cup {c}) =
              IF c \in Fleet THEN Cardinality(Fleet) ELSE Cardinality(Fleet) + 1
        BY <1>2, CountTypes, FS_AddElement
      <4> QED BY <1>2, <4>1, CountTypes
    <3>4. /\ Cardinality(Fleet') \in Nat
          /\ Cardinality(Fleet') <= Cardinality(Fleet \cup {c})
      <4>1. Fleet \cup {c} \subseteq Creates
        BY <1>2, CountTypes
      <4> QED BY <3>1, <4>1, CardTypes, CardShrinks
    <3>5. Cardinality(Fleet') + Cardinality(Expected') <= Cardinality(Fleet) + Cardinality(Expected)
      BY <1>2, <3>2, <3>3, <3>4, CountTypes
    <3>6. Cardinality(Expected') \in Int
      BY <1>2, <3>2, CountTypes
    <3>7. HasRoom => HasRoom'
      BY <1>2, <3>4, <3>5, <3>6, CountTypes DEF HasRoom
    <3>8. WithinCapacity'
      <4>1. Cardinality(Fleet) + Cardinality(Expected) <= MaxPods
        BY DEF IInv, Room, WithinCapacity, Fleet, Expected
      <4>2. Cardinality(Fleet') + Cardinality(Expected') <= MaxPods
        BY <1>2, <3>4, <3>5, <3>6, <4>1, CountTypes
      <4> QED BY <4>2 DEF WithinCapacity, Fleet, Expected
    <3> QED BY <2>1, <3>7, <3>8 DEF IInv, Room
  <2> QED BY <2>2, <2>3
<1> QED BY <1>3, <1>5, <1>6, <1>7, <1>8 DEF IInv, Memory

-----------------------------------------------------------------------------
(* The theorems.                                                           *)

LEMMA InitKeeps == Init => IInv
<1> SUFFICES ASSUME Init PROVE IInv
  OBVIOUS
<1>1. TypeOK
  BY InitTypes
<1>2. Sent = {} /\ InHand = {} /\ flight = {}
  BY DEF Init, Sent, InHand, At, Idle
<1>3. Copies = {EmptyQueue} /\ Coherent(EmptyQueue)
  BY DEF Init, Copies, Coherent, EmptyQueue
<1>4. Known
  BY <1>2, <1>3 DEF Known, Faithful
<1>5. Past /\ Begun /\ Undecided /\ OneCreate
  BY <1>2 DEF Init, Past, Begun, Undecided, OneCreate
<1>6. Room
  <2>1. Cardinality(pods \ stray) = 0 /\ Cardinality(flight \ overdue) = 0
    BY FS_EmptySet DEF Init
  <2>2. task.at = "idle"
    BY DEF Init, Idle
  <2> QED BY <2>1, <2>2, MaxPodsAssumption DEF Room, WithinCapacity
<1> QED BY <1>1, <1>4, <1>5, <1>6 DEF IInv, Memory

LEMMA StutterKeeps ==
  ASSUME IInv, UNCHANGED vars
  PROVE IInv'
<1>1. Quiet
  BY DEF Quiet, vars, gateway, provider
<1> QED BY <1>1, ReadingStep, TypesNow DEF IInv, Copies, vars, gateway, provider

LEMMA StepKeeps == IInv /\ [Next]_vars => IInv'
<1> SUFFICES ASSUME IInv, [Next]_vars PROVE IInv'
  OBVIOUS
<1>1. CASE Advance
  <2>1. ASSUME NEW e \in cache.pending, Release(e) \/ Acquire(e) PROVE IInv'
    BY <2>1, ReleaseKeeps, AcquireKeeps
  <2> QED BY <1>1, <2>1, ProgressKeeps, AuthorizeKeeps, DispatchKeeps, ReplyKeeps DEF Advance
<1>2. CASE Settle
  BY <1>2, DiscoverKeeps, CompleteKeeps DEF Settle
<1>3. CASE \E e \in cache.pending : Cancel(e)
  BY <1>3, CancelKeeps
<1>4. CASE \E h \in Hotkeys, s \in Starts : Start(h, s)
  BY <1>4, StartKeeps
<1>5. CASE LateSave \/ LoadJournal \/ NewRound \/ Rollover \/ UseRound \/ Crash
  BY <1>5, LateSaveKeeps, LoadJournalKeeps, NewRoundKeeps, RolloverKeeps, UseRoundKeeps, CrashKeeps
<1>6. CASE \E c \in Creates : GraceEnds(c) \/ Lands(c) \/ Drops(c) \/ Exits(c) \/ Retire(c)
  BY <1>6, GraceEndsKeeps, LandsKeeps, FleetKeeps
<1>7. CASE UNCHANGED vars
  BY <1>7, StutterKeeps
<1> QED BY <1>1, <1>2, <1>3, <1>4, <1>5, <1>6, <1>7 DEF Next

\* All copies of the gateway's queue remember what was sent, whatever is lost.
THEOREM Invariance == Spec => []IInv
BY InitKeeps, StepKeeps, PTL DEF Spec

\* The gateway's state keeps its types, for any number of miners and rounds.
THEOREM TypeCorrectness == Spec => []TypeOK
<1>1. IInv => TypeOK
  BY DEF IInv
<1> QED BY <1>1, Invariance, PTL

\* The gateway never repeats a create: a start id is sent at most once in its
\* round, through uncertain authorizations, releases, late saves and restarts.
THEOREM NoCreateIsRepeated == Spec => []OneCreate
<1>1. IInv => OneCreate
  BY DEF IInv
<1> QED BY <1>1, Invariance, PTL

\* The fleet and the creates still undecided never exceed max_pods, however late
\* the provider is, but for the creates that it carries out after their round
\* and the discovery grace are over (what Admission.excess is there for).
THEOREM FleetIsBounded == Spec => []WithinCapacity
<1>1. IInv => WithinCapacity
  BY DEF IInv, Room
<1> QED BY <1>1, Invariance, PTL
=============================================================================
