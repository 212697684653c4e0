----------------------------- MODULE CallsProofs -----------------------------
(***************************************************************************)
(* One logical call keeps its promise for any number of Pods, attempts,    *)
(* requests and faults: it implements Attempts, and its result is paid     *)
(* for.                                                                    *)
(*                                                                         *)
(* Two things carry the proof.  The record only moves on (Legal): what is  *)
(* written to it, now or by a late PUT, follows from what it is, so an     *)
(* attempt is authorized once and a claimed one stays with its Pod.  And   *)
(* each attempt has one response: the job that was let past the            *)
(* authorization is the only one that releases, stores and finishes it, so *)
(* whoever reads the manifest reads that response.                         *)
(*                                                                         *)
(* The last part proves of the other thing a Pod serves, the previews, that *)
(* slots, contexts and saved outcomes stay whose they are (PodRender).     *)
(***************************************************************************)
EXTENDS Calls, PodRender, FiniteSetTheorems, SequenceTheorems, TLAPS

Claims == {"capturing", "issued", "failed"}
Unclaimed == {"reserved", "assigned"}

\* What the record may become in one write.
Legal(c, d) ==
  \/ d = c
  \/ /\ d.exchange = c.exchange
     /\ c.phase \in Unclaimed /\ ~d.authorized /\ ~d.not_dispatched
     /\ \/ d.phase = "assigned"
        \/ d.phase = "capturing" /\ c.phase = "assigned" /\ d.pod = c.pod
  \/ /\ d.exchange = c.exchange
     /\ c.phase = "capturing" /\ d.pod = c.pod
     /\ d.phase \in Claims
     /\ c.authorized => d.authorized
     /\ d.phase = "issued" => c.authorized /\ d.authorized
     /\ d.not_dispatched => d.phase = "failed" /\ ~d.authorized
  \/ /\ c.phase = "failed" /\ d.exchange = c.exchange + 1
     /\ d.phase = "assigned" /\ ~d.authorized /\ ~d.not_dispatched

-----------------------------------------------------------------------------
(* The invariant.                                                          *)

Record ==
  /\ call.phase \in Unclaimed => ~call.authorized
  /\ call.phase = "reserved" => call.pod = 0
  /\ call.phase = "issued" => call.authorized
  /\ call.not_dispatched =>
       call.phase = "failed" /\ ~call.authorized /\ call.exchange \in undispatched
  /\ \A c \in lateCall : Legal(call, c)

\* Jobs that were given the attempt, and those that have not stored a response.
Owning == Working \ {"claim", "clean", "recover", "reclaim"}
Early == {"capture", "verify", "permit", "reserve", "authorize", "check", "release", "sent"}
Failing == {"fail", "unsent", "drop", "reject", "rejectUnsent"}
Paying == {"settle", "issue"}
Token == {"check", "release"}
Whole == {"good", "bad"}

\* Nothing is known of an attempt before it is the call's.
Unborn ==
  \A x \in Exchanges : x > call.exchange =>
    /\ sent[x] = 0 /\ manifest[x] = "none" /\ x \notin undispatched
    /\ \A p \in Pods : job[p][x] = "idle" /\ spool[p][x] = "none"

\* The current attempt's job and response are the claiming Pod's.
Owned ==
  \A p \in Pods :
    job[p][call.exchange] \in Owning \/ spool[p][call.exchange] \in Whole =>
      call.pod = p /\ call.phase \in Claims

\* Between the authorization and the release, a job is alone and nothing was sent.
Tokens ==
  \A p \in Pods, x \in Exchanges : job[p][x] \in Token =>
    /\ x = call.exchange => call.authorized
    /\ sent[x] = 0 /\ x \notin undispatched
    /\ \A q \in Pods : job[q][x] \in Token => q = p

SentOnce ==
  \A x \in Exchanges :
    /\ sent[x] \in {0, 1}
    /\ sent[x] = 1 => (x = call.exchange => call.authorized) /\ x \notin undispatched
    /\ x \in undispatched /\ x = call.exchange => call.phase = "failed" /\ ~call.authorized

\* A response is that of the request that was sent.
Evidence ==
  \A x \in Exchanges :
    /\ manifest[x] # "none" => sent[x] = 1
    /\ \A p \in Pods : /\ job[p][x] = "sent" => sent[x] = 1
                       /\ spool[p][x] \in Whole => sent[x] = 1
                       /\ job[p][x] = "save" => spool[p][x] \in Whole

\* What a job of the current attempt does about its manifest.
Stage(p) ==
  LET x == call.exchange
  IN /\ job[p][x] \in Early => manifest[x] = "none"
     /\ job[p][x] \in Failing => manifest[x] # "good"
     /\ job[p][x] \in Paying => manifest[x] = "good"
     /\ spool[p][x] = "bad" => manifest[x] # "good"
     /\ spool[p][x] = "good" => manifest[x] # "bad"

Stages == \A p \in Pods : Stage(p)

\* What a request found out about the copy it read still stands.
Serves(h) ==
  LET s == handler[h].seen
      a == handler[h].at
  IN /\ a # "idle" => s.exchange <= call.exchange
     /\ s.exchange = call.exchange =>
          /\ a \in Paying => manifest[s.exchange] = "good"
          /\ a \in {"drop", "reject"} => manifest[s.exchange] = "bad"
          /\ a \in {"forget", "interrupted"} => call.phase = "failed"

ServesAll == \A h \in Handlers : Serves(h)

\* The call is issued, or somebody who has settled it is about to issue it.
Committed ==
  \/ call.phase = "issued"
  \/ \E c \in lateCall : c.phase = "issued"
  \/ /\ call.phase = "capturing"
     /\ \/ \E p \in Pods : job[p][call.exchange] = "issue"
        \/ \E h \in Handlers : handler[h].at = "issue" /\ handler[h].seen.exchange = call.exchange

Paid ==
  /\ lateCharge # {} => charge = {}
  /\ Committed => manifest[call.exchange] = "good" /\ charge = Settled(call.exchange)

IInv ==
  /\ TypeOK /\ Record /\ Unborn /\ Owned /\ Tokens /\ SentOnce /\ Evidence
  /\ Stages /\ ServesAll /\ Paid

-----------------------------------------------------------------------------
(* Types.                                                                  *)

LEMMA ExchangeNat == Exchanges \subseteq Nat /\ 1 \in Exchanges /\ 1 \in Pods
<1>1. Cardinality(Exchanges) \in Nat
  BY CallsAssumption, FS_CardinalityType
<1> QED BY <1>1, CallsAssumption

LEMMA FaultTypes ==
  ASSUME TypeOK, faults' = faults \/ (faults < MaxFaults /\ faults' = faults + 1)
  PROVE faults' \in 0 .. MaxFaults
BY CallsAssumption DEF TypeOK

Points == Working \cup {"idle"}

\* A job goes on.
LEMMA GoMoves ==
  ASSUME TypeOK, NEW p \in Pods, NEW x \in Exchanges, NEW s \in Points, Go(p, x, s)
  PROVE /\ job' \in [Pods -> [Exchanges -> Points]]
        /\ job'[p][x] = s
        /\ \A q \in Pods, y \in Exchanges : q # p \/ y # x => job'[q][y] = job[q][y]
BY DEF Go, TypeOK, Points

\* A directory changes.
LEMMA PutMoves ==
  ASSUME TypeOK, NEW p \in Pods, NEW x \in Exchanges, NEW s \in Spools, Put(p, x, s)
  PROVE /\ spool' \in [Pods -> [Exchanges -> Spools]]
        /\ spool'[p][x] = s
        /\ \A q \in Pods, y \in Exchanges : q # p \/ y # x => spool'[q][y] = spool[q][y]
BY DEF Put, TypeOK

\* The ledger has one possible dispatch at most.
LEMMA ChargeTypes ==
  /\ {} \subseteq Charge /\ Cardinality({}) <= 1
  /\ \A x \in Exchanges, b \in BOOLEAN :
       /\ {[exchange |-> x, settled |-> b]} \subseteq Charge
       /\ Cardinality({[exchange |-> x, settled |-> b]}) <= 1
<1>1. {} \subseteq Charge /\ Cardinality({}) <= 1
  BY FS_EmptySet
<1>2. ASSUME NEW x \in Exchanges, NEW b \in BOOLEAN
      PROVE /\ {[exchange |-> x, settled |-> b]} \subseteq Charge
            /\ Cardinality({[exchange |-> x, settled |-> b]}) <= 1
  <2> DEFINE c == [exchange |-> x, settled |-> b]
  <2>1. c \in Charge
    BY DEF Charge
  <2>2. Cardinality({c}) = 1
    <3> HIDE DEF c
    <3> QED BY FS_Singleton
  <2> QED BY <2>1, <2>2
<1> QED BY <1>1, <1>2

-----------------------------------------------------------------------------
(* The record.                                                             *)

\* What a step may do to the record: nothing, or a legal write that is made or
\* left in doubt; a result comes from somebody who has settled it.
RecordStep ==
  \/ UNCHANGED record
  \/ \E d \in Call : /\ Legal(call, d)
                     /\ d.phase = "issued" => Committed
                     /\ \/ SaveCall(d)
                        \/ lateCall' = lateCall \cup {d} /\ UNCHANGED <<call, undispatched>>

\* How the record goes on.
Same ==
  /\ call'.exchange = call.exchange
  /\ call.authorized => call'.authorized
  /\ call.phase \in Claims => call'.pod = call.pod /\ call'.phase \in Claims
  /\ call.phase = "failed" => call'.phase = "failed" /\ call'.authorized = call.authorized
  /\ call'.phase = "capturing" => call.phase \in {"assigned", "capturing"}
  /\ call.phase = "issued" => call'.phase = "issued"
  /\ call'.phase = "issued" => Committed

Again ==
  /\ call'.exchange = call.exchange + 1
  /\ call.phase = "failed" /\ call'.phase = "assigned" /\ ~call'.authorized
  /\ lateCall' = {}

Undispatches ==
  \/ undispatched' = undispatched
  \/ /\ undispatched' = undispatched \cup {call'.exchange}
     /\ call'.exchange = call.exchange
     /\ call.phase = "capturing" /\ call'.phase = "failed"
     /\ ~call.authorized /\ ~call'.authorized

Moves == (Same \/ Again) /\ Undispatches

LEMMA RecordMoves ==
  ASSUME TypeOK, Record, RecordStep
  PROVE /\ call' \in Call /\ lateCall' \subseteq Call /\ undispatched' \subseteq Exchanges
        /\ Record' /\ Moves
        /\ \A c \in lateCall' : c.phase = "issued" => c \in lateCall \/ Committed
<1> USE DEF TypeOK
<1>1. CASE UNCHANGED record
  BY <1>1 DEF record, Record, Moves, Same, Undispatches, Committed, Legal
<1>2. ASSUME NEW d \in Call, Legal(call, d), d.phase = "issued" => Committed, SaveCall(d)
      PROVE /\ call' = d /\ lateCall' = {} /\ undispatched' \subseteq Exchanges
            /\ Record' /\ Moves
  <2>1. /\ call' = d /\ lateCall' = {}
        /\ undispatched' = IF d.phase = "failed" /\ d.not_dispatched
                           THEN undispatched \cup {d.exchange} ELSE undispatched
    BY <1>2 DEF SaveCall
  <2>2. d.exchange \in Exchanges
    BY DEF Call
  <2>3. CASE d = call
    BY <1>2, <2>1, <2>2, <2>3 DEF Record, Moves, Same, Undispatches, Claims
  <2>4. CASE /\ d.exchange = call.exchange
             /\ call.phase \in Unclaimed /\ ~d.authorized /\ ~d.not_dispatched
             /\ \/ d.phase = "assigned"
                \/ d.phase = "capturing" /\ call.phase = "assigned" /\ d.pod = call.pod
    BY <2>1, <2>2, <2>4 DEF Record, Moves, Same, Undispatches, Claims, Unclaimed
  <2>5. CASE /\ d.exchange = call.exchange
             /\ call.phase = "capturing" /\ d.pod = call.pod
             /\ d.phase \in Claims
             /\ call.authorized => d.authorized
             /\ d.phase = "issued" => call.authorized /\ d.authorized
             /\ d.not_dispatched => d.phase = "failed" /\ ~d.authorized
    BY <1>2, <2>1, <2>2, <2>5 DEF Record, Moves, Same, Undispatches, Claims, Unclaimed
  <2>6. CASE /\ call.phase = "failed" /\ d.exchange = call.exchange + 1
             /\ d.phase = "assigned" /\ ~d.authorized /\ ~d.not_dispatched
    BY <2>1, <2>2, <2>6 DEF Record, Moves, Again, Undispatches, Unclaimed
  <2> QED BY <1>2, <2>3, <2>4, <2>5, <2>6, <2>1 DEF Legal
<1>3. ASSUME NEW d \in Call, Legal(call, d), d.phase = "issued" => Committed,
             lateCall' = lateCall \cup {d}, UNCHANGED <<call, undispatched>>
      PROVE Record' /\ Moves /\ lateCall' \subseteq Call
  BY <1>3 DEF Record, Moves, Same, Undispatches, Committed, Legal, Claims
<1> QED BY <1>1, <1>2, <1>3 DEF RecordStep, record

-----------------------------------------------------------------------------
(* A step that leaves jobs and evidence alone: only the record moves on.   *)

Attempted == Unborn /\ Owned /\ Tokens /\ SentOnce /\ Evidence /\ Stages

\* What a token and a request need of a record that moves on.
LEMMA AuthorizedStays ==
  ASSUME TypeOK, Moves, NEW x \in Exchanges, x <= call.exchange,
         x = call.exchange => call.authorized
  PROVE x = call'.exchange => call'.authorized
<1>1. call.exchange \in Nat /\ x \in Nat
  BY ExchangeNat DEF TypeOK, Call
<1> QED BY <1>1 DEF Moves, Same, Again

LEMMA UndispatchedMoves ==
  ASSUME TypeOK, Record, Unborn, SentOnce, Moves, NEW x \in Exchanges, x \in undispatched'
  PROVE /\ x <= call.exchange
        /\ x = call'.exchange => call'.phase = "failed" /\ ~call'.authorized
        /\ x \in undispatched \/ (x = call.exchange /\ ~call.authorized)
<1>1. call.exchange \in Nat /\ x \in Nat
  BY ExchangeNat DEF TypeOK, Call
<1>2. CASE x \in undispatched
  <2>1. x <= call.exchange
    BY <1>1, <1>2 DEF Unborn
  <2>2. x = call.exchange => call.phase = "failed" /\ ~call.authorized
    BY <1>2 DEF SentOnce
  <2> QED BY <1>1, <1>2, <2>1, <2>2 DEF Moves, Same, Again
<1>3. CASE x \notin undispatched
  BY <1>1, <1>3 DEF Moves, Undispatches
<1> QED BY <1>2, <1>3

LEMMA UnbornLater ==
  ASSUME TypeOK, Unborn, Moves,
         NEW x \in Exchanges, x > call'.exchange
  PROVE x > call.exchange
<1>1. call.exchange \in Nat /\ x \in Nat
  BY ExchangeNat DEF TypeOK, Call
<1> QED BY <1>1 DEF Moves, Same, Again

LEMMA QuietStep ==
  ASSUME TypeOK, Record, Attempted, call' \in Call, Moves,
         UNCHANGED <<manifest, spool, job, sent>>
  PROVE Attempted'
<1> USE DEF Attempted
<1>1. /\ call.exchange \in Exchanges /\ call'.exchange \in Exchanges
      /\ call.exchange \in Nat /\ call'.exchange \in Nat /\ \A x \in Exchanges : x \in Nat
  BY ExchangeNat DEF TypeOK, Call
<1>13. \A x \in Exchanges : ~(x <= call.exchange) <=> x > call.exchange
  BY <1>1
<1>2. \A x \in Exchanges : x \in undispatched' =>
         /\ x <= call.exchange
         /\ x = call'.exchange => call'.phase = "failed" /\ ~call'.authorized
         /\ x \in undispatched \/ (x = call.exchange /\ ~call.authorized)
  BY UndispatchedMoves
<1>3. Unborn'
  <2>1. \A x \in Exchanges : x > call'.exchange => x > call.exchange
    BY UnbornLater
  <2>2. \A x \in Exchanges : x > call.exchange => x \notin undispatched'
    BY <1>2, <1>13
  <2> QED BY <2>1, <2>2 DEF Unborn
<1>4. ASSUME call'.exchange = call.exchange PROVE Owned' /\ Stages'
  <2>1. Same
    BY <1>4, <1>1 DEF Moves, Again
  <2>3. Owned'
    BY <1>4, <2>1 DEF Owned, Same
  <2>2. Stages'
    BY <1>4 DEF Stages, Stage
  <2> QED BY <2>2, <2>3
<1>5. ASSUME call'.exchange # call.exchange PROVE Owned' /\ Stages'
  <2> DEFINE y == call'.exchange
  <2>1. y \in Exchanges /\ y > call.exchange
    BY <1>1, <1>5 DEF Moves, Same, Again
  <2> HIDE DEF y
  <2>2. manifest[y] = "none" /\ \A p \in Pods : job[p][y] = "idle" /\ spool[p][y] = "none"
    BY <2>1 DEF Unborn
  <2>3. Owned'
    BY <2>2 DEF Owned, Owning, Whole, Working, y
  <2>4. Stages'
    BY <2>2 DEF Stages, Stage, Early, Failing, Paying, y
  <2> QED BY <2>3, <2>4
<1>6. Owned' /\ Stages'
  BY <1>4, <1>5
<1>7. \A p \in Pods, x \in Exchanges : job[p][x] # "idle" => x <= call.exchange
  BY <1>13 DEF Unborn
<1>8. \A x \in Exchanges : sent[x] # 0 => x <= call.exchange
  BY <1>13 DEF Unborn
<1>9. Tokens'
  <2> SUFFICES ASSUME NEW p \in Pods, NEW x \in Exchanges, job[p][x] \in Token
               PROVE /\ x = call'.exchange => call'.authorized
                     /\ sent[x] = 0 /\ x \notin undispatched'
                     /\ \A q \in Pods : job[q][x] \in Token => q = p
    BY DEF Tokens
  <2>1. x <= call.exchange
    BY <1>7 DEF Token
  <2>2. /\ x = call.exchange => call.authorized
        /\ sent[x] = 0 /\ x \notin undispatched
        /\ \A q \in Pods : job[q][x] \in Token => q = p
    BY DEF Tokens
  <2> QED BY <1>2, <2>1, <2>2, AuthorizedStays
<1>10. SentOnce'
  <2> SUFFICES ASSUME NEW x \in Exchanges
               PROVE /\ sent[x] \in {0, 1}
                     /\ sent[x] = 1 => (x = call'.exchange => call'.authorized) /\ x \notin undispatched'
                     /\ x \in undispatched' /\ x = call'.exchange
                          => call'.phase = "failed" /\ ~call'.authorized
    BY DEF SentOnce
  <2>1. /\ sent[x] \in {0, 1}
        /\ sent[x] = 1 => (x = call.exchange => call.authorized) /\ x \notin undispatched
    BY DEF SentOnce
  <2>2. sent[x] = 1 => (x = call'.exchange => call'.authorized)
    BY <1>8, <2>1, AuthorizedStays
  <2> QED BY <1>2, <2>1, <2>2
<1>11. Evidence'
  BY DEF Evidence
<1> QED BY <1>3, <1>6, <1>9, <1>10, <1>11

-----------------------------------------------------------------------------
(* A step of the job of attempt x in Pod p.                                *)

Alone(p, x) ==
  \A q \in Pods, y \in Exchanges :
    q # p \/ y # x => job'[q][y] = job[q][y] /\ spool'[q][y] = spool[q][y]

\* What it may do to the evidence: the request goes out, or the manifest is
\* that of its own response.
EvidenceStep(p, x) ==
  /\ \/ sent' = sent
     \/ job[p][x] = "release" /\ sent' = [sent EXCEPT ![x] = @ + 1]
  /\ \/ manifest' = manifest
     \/ /\ job[p][x] \in {"save", "finish"} /\ spool[p][x] \in Whole
        /\ manifest' = [manifest EXCEPT ![x] = spool[p][x]]

\* The invariant's parts about this one job.
Own(p, x) ==
  /\ x = call.exchange =>
       /\ job[p][x] \in Owning \/ spool[p][x] \in Whole => call.pod = p /\ call.phase \in Claims
       /\ Stage(p)
  /\ job[p][x] \in Token =>
       /\ x = call.exchange => call.authorized
       /\ sent[x] = 0 /\ x \notin undispatched
       /\ \A q \in Pods : job[q][x] \in Token => q = p
  /\ job[p][x] = "sent" => sent[x] = 1
  /\ spool[p][x] \in Whole => sent[x] = 1
  /\ job[p][x] = "save" => spool[p][x] \in Whole

\* What was sent stays sent, and is sent once.
LEMMA SentGoesOn ==
  ASSUME TypeOK, Tokens, SentOnce, NEW p \in Pods, NEW x \in Exchanges, EvidenceStep(p, x)
  PROVE \A y \in Exchanges :
          /\ sent[y] = 1 => sent'[y] = 1
          /\ sent'[y] # sent[y] => /\ y = x /\ job[p][x] \in Token
                                   /\ sent[x] = 0 /\ sent'[x] = 1
<1>1. sent \in [Exchanges -> Nat]
  BY DEF TypeOK
<1>2. CASE sent' = sent
  BY <1>2
<1>3. CASE job[p][x] = "release" /\ sent' = [sent EXCEPT ![x] = @ + 1]
  <2>1. job[p][x] \in Token /\ sent[x] = 0
    BY <1>3 DEF Token, Tokens
  <2> QED BY <1>1, <1>3, <2>1
<1> QED BY <1>2, <1>3 DEF EvidenceStep

LEMMA JobStepKeeps ==
  ASSUME TypeOK, Record, Attempted, call' \in Call, Moves, call'.exchange = call.exchange,
         NEW p \in Pods, NEW x \in Exchanges, x <= call.exchange,
         Alone(p, x), EvidenceStep(p, x), Own(p, x)'
  PROVE Attempted'
<1> USE DEF Attempted
<1>1. /\ call.exchange \in Exchanges /\ call'.exchange \in Exchanges
      /\ call.exchange \in Nat /\ \A y \in Exchanges : y \in Nat
  BY ExchangeNat DEF TypeOK, Call
<1>2. Same
  BY <1>1 DEF Moves, Again
<1>3. \A y \in Exchanges : ~(y <= call.exchange) <=> y > call.exchange
  BY <1>1
<1>4. \A y \in Exchanges : y \in undispatched' =>
         /\ y <= call.exchange
         /\ y = call'.exchange => call'.phase = "failed" /\ ~call'.authorized
         /\ y \in undispatched \/ (y = call.exchange /\ ~call.authorized)
  BY UndispatchedMoves
<1>5. \A y \in Exchanges :
        /\ sent[y] = 1 => sent'[y] = 1
        /\ sent'[y] # sent[y] => /\ y = x /\ job[p][x] \in Token
                                 /\ sent[x] = 0 /\ sent'[x] = 1
  BY SentGoesOn
<1>6. \A y \in Exchanges : manifest'[y] # manifest[y] =>
        /\ y = x /\ job[p][x] \in {"save", "finish"} /\ spool[p][x] \in Whole
        /\ manifest'[x] = spool[p][x]
  BY DEF EvidenceStep, TypeOK
<1>7. \A q \in Pods, y \in Exchanges :
        q # p \/ y # x => job'[q][y] = job[q][y] /\ spool'[q][y] = spool[q][y]
  BY DEF Alone
<1>8. Unborn'
  <2>1. \A y \in Exchanges : y > call.exchange => y # x
    BY <1>3
  <2>2. \A y \in Exchanges : y > call.exchange =>
          sent'[y] = sent[y] /\ manifest'[y] = manifest[y] /\ y \notin undispatched'
    BY <1>3, <1>4, <1>5, <1>6, <2>1
  <2> QED BY <1>7, <2>1, <2>2 DEF Unborn
<1>9. Owned'
  <2> SUFFICES ASSUME NEW q \in Pods,
                      job'[q][call.exchange] \in Owning \/ spool'[q][call.exchange] \in Whole
               PROVE call'.pod = q /\ call'.phase \in Claims
    BY DEF Owned
  <2>1. CASE q = p /\ x = call.exchange
    BY <2>1 DEF Own
  <2>2. CASE ~(q = p /\ x = call.exchange)
    <3>1. job[q][call.exchange] \in Owning \/ spool[q][call.exchange] \in Whole
      BY <1>1, <1>7, <2>2
    <3> QED BY <1>2, <3>1 DEF Owned, Same
  <2> QED BY <2>1, <2>2
<1>10. Tokens'
  <2> SUFFICES ASSUME NEW q \in Pods, NEW y \in Exchanges, job'[q][y] \in Token
               PROVE /\ y = call'.exchange => call'.authorized
                     /\ sent'[y] = 0 /\ y \notin undispatched'
                     /\ \A r \in Pods : job'[r][y] \in Token => r = q
    BY DEF Tokens
  <2>1. CASE q = p /\ y = x
    BY <2>1 DEF Own
  <2>2. CASE ~(q = p /\ y = x)
    <3>1. job[q][y] \in Token
      BY <1>7, <2>2
    <3>2. /\ y = call.exchange => call.authorized
          /\ sent[y] = 0 /\ y \notin undispatched
          /\ \A r \in Pods : job[r][y] \in Token => r = q
      BY <3>1 DEF Tokens
    <3>3. sent'[y] = 0
      BY <1>5, <2>2, <3>2
    <3>4. y \notin undispatched'
      BY <1>4, <3>2
    <3>5. y = call'.exchange => call'.authorized
      BY <1>2, <3>2 DEF Same
    <3>6. \A r \in Pods : job'[r][y] \in Token => r = q
      BY <1>7, <2>2, <3>2 DEF Own
    <3> QED BY <3>3, <3>4, <3>5, <3>6
  <2> QED BY <2>1, <2>2
<1>11. SentOnce'
  <2> SUFFICES ASSUME NEW y \in Exchanges
               PROVE /\ sent'[y] \in {0, 1}
                     /\ sent'[y] = 1 => (y = call'.exchange => call'.authorized) /\ y \notin undispatched'
                     /\ y \in undispatched' /\ y = call'.exchange
                          => call'.phase = "failed" /\ ~call'.authorized
    BY DEF SentOnce
  <2>1. /\ sent[y] \in {0, 1}
        /\ sent[y] = 1 => (y = call.exchange => call.authorized) /\ y \notin undispatched
    BY DEF SentOnce
  <2>2. sent'[y] = 1 => (y = call.exchange => call.authorized) /\ y \notin undispatched
    BY <1>5, <2>1 DEF Tokens
  <2>3. sent'[y] \in {0, 1}
    BY <1>5, <2>1
  <2>4. sent'[y] = 1 => (y = call'.exchange => call'.authorized)
    BY <1>2, <2>2 DEF Same
  <2> QED BY <1>4, <2>2, <2>3, <2>4
<1>12. Evidence'
  <2> SUFFICES ASSUME NEW y \in Exchanges
               PROVE /\ manifest'[y] # "none" => sent'[y] = 1
                     /\ \A q \in Pods : /\ job'[q][y] = "sent" => sent'[y] = 1
                                        /\ spool'[q][y] \in Whole => sent'[y] = 1
                                        /\ job'[q][y] = "save" => spool'[q][y] \in Whole
    BY DEF Evidence
  <2>1. manifest'[y] # "none" => sent[y] = 1
    BY <1>6 DEF Evidence
  <2>2. ASSUME NEW q \in Pods
        PROVE /\ job'[q][y] = "sent" => sent'[y] = 1
              /\ spool'[q][y] \in Whole => sent'[y] = 1
              /\ job'[q][y] = "save" => spool'[q][y] \in Whole
    <3>1. CASE q = p /\ y = x
      BY <3>1 DEF Own
    <3>2. CASE ~(q = p /\ y = x)
      BY <1>5, <1>7, <3>2 DEF Evidence
    <3> QED BY <3>1, <3>2
  <2> QED BY <1>5, <2>1, <2>2
<1>13. Stages'
  <2> SUFFICES ASSUME NEW q \in Pods PROVE Stage(q)'
    BY DEF Stages
  <2> DEFINE e == call.exchange
  <2>1. CASE q = p /\ x = e
    BY <2>1 DEF Own
  <2>2. CASE ~(q = p /\ x = e)
    <3>1. job'[q][e] = job[q][e] /\ spool'[q][e] = spool[q][e]
      BY <1>1, <1>7, <2>2
    <3>2. CASE manifest'[e] = manifest[e]
      BY <3>1, <3>2 DEF Stages, Stage
    <3>3. CASE manifest'[e] # manifest[e]
      <4>1. q # p /\ job[p][e] \in Owning
        BY <1>1, <1>6, <2>2, <3>3 DEF Owning, Working
      <4>2. job[q][e] \notin Owning /\ spool[q][e] \notin Whole
        BY <4>1 DEF Owned
      <4> QED BY <3>1, <4>2 DEF Stage, Owning, Working, Early, Failing, Paying, Whole
    <3> QED BY <3>2, <3>3
  <2> QED BY <2>1, <2>2
<1> QED BY <1>8, <1>9, <1>10, <1>11, <1>12, <1>13

\* A job that goes on without touching the evidence.
LEMMA JobMoveKeeps ==
  ASSUME TypeOK, Record, Attempted, call' \in Call, Moves, call'.exchange = call.exchange,
         UNCHANGED <<manifest, spool, sent>>,
         NEW p \in Pods, NEW x \in Exchanges, NEW t \in Points \ {"sent", "save"},
         x <= call.exchange, Go(p, x, t),
         t \in Owning => \/ job[p][x] \in Owning
                         \/ x = call.exchange => call'.pod = p /\ call'.phase \in Claims,
         t \in Token => \/ job[p][x] \in Token
                        \/ /\ x = call.exchange /\ call.phase # "failed" /\ ~call.authorized
                           /\ call'.authorized /\ undispatched' = undispatched,
         t \in Early => job[p][x] \in Early \/ (x = call.exchange => manifest[x] = "none"),
         t \in Failing => \/ job[p][x] \in Early \cup Failing
                          \/ x = call.exchange => manifest[x] # "good",
         t \in Paying => (x = call.exchange => manifest[x] = "good")
  PROVE Attempted'
<1> USE DEF Attempted
<1>1. Alone(p, x) /\ job'[p][x] = t
  BY GoMoves DEF Alone
<1>2. EvidenceStep(p, x)
  BY DEF EvidenceStep
<1>3. /\ call.exchange \in Nat /\ call.exchange \in Exchanges
  BY ExchangeNat DEF TypeOK, Call
<1>4. Same
  BY <1>3 DEF Moves, Again
<1>5. ASSUME x = call.exchange, t \in Owning \/ spool[p][x] \in Whole
      PROVE call'.pod = p /\ call'.phase \in Claims
  <2>1. CASE job[p][x] \in Owning \/ spool[p][x] \in Whole
    BY <1>4, <1>5, <2>1 DEF Owned, Same
  <2>2. CASE ~(job[p][x] \in Owning \/ spool[p][x] \in Whole)
    BY <1>5, <2>2
  <2> QED BY <2>1, <2>2
<1>6. ASSUME x = call.exchange
      PROVE Stage(p)'
  <2>1. Stage(p)
    BY DEF Stages
  <2>2. /\ t \in Early => manifest[x] = "none"
        /\ t \in Failing => manifest[x] # "good"
        /\ t \in Paying => manifest[x] = "good"
    BY <1>6, <2>1 DEF Stage
  <2> QED BY <1>1, <1>6, <2>1, <2>2 DEF Stage
<1>7. ASSUME t \in Token
      PROVE /\ x = call'.exchange => call'.authorized
            /\ sent[x] = 0 /\ x \notin undispatched'
            /\ \A q \in Pods : job'[q][x] \in Token => q = p
  <2>1. CASE job[p][x] \in Token
    <3>1. /\ x = call.exchange => call.authorized
          /\ sent[x] = 0 /\ x \notin undispatched
          /\ \A q \in Pods : job[q][x] \in Token => q = p
      BY <2>1 DEF Tokens
    <3>2. x \notin undispatched'
      BY <3>1, UndispatchedMoves
    <3>3. \A q \in Pods : q # p => job'[q][x] = job[q][x]
      BY <1>1 DEF Alone
    <3> QED BY <1>4, <3>1, <3>2, <3>3 DEF Same
  <2>2. CASE /\ x = call.exchange /\ call.phase # "failed" /\ ~call.authorized
             /\ call'.authorized /\ undispatched' = undispatched
    <3>1. x \notin undispatched /\ sent[x] = 0
      BY <2>2 DEF SentOnce
    <3>2. \A q \in Pods : job[q][x] \notin Token
      BY <2>2 DEF Tokens
    <3>3. \A q \in Pods : q # p => job'[q][x] = job[q][x]
      BY <1>1 DEF Alone
    <3> QED BY <2>2, <3>1, <3>2, <3>3
  <2> QED BY <1>7, <2>1, <2>2
<1>8. /\ spool[p][x] \in Whole => sent[x] = 1
      /\ job[p][x] = "save" => spool[p][x] \in Whole
  BY DEF Evidence
<1>9. Own(p, x)'
  BY <1>1, <1>3, <1>5, <1>6, <1>7, <1>8 DEF Own
<1> QED BY <1>1, <1>2, <1>9, JobStepKeeps

\* A job other than idle is of the call's attempts.
LEMMA JobIsAttempt ==
  ASSUME TypeOK, Unborn, NEW p \in Pods, NEW x \in Exchanges, job[p][x] # "idle"
  PROVE x <= call.exchange
<1>1. x \in Nat /\ call.exchange \in Nat
  BY ExchangeNat DEF TypeOK, Call
<1> QED BY <1>1 DEF Unborn

-----------------------------------------------------------------------------
(* The writes of records.py are legal.                                     *)

LEMMA ClaimIsLegal ==
  ASSUME TypeOK, Record, NEW p \in Pods, NEW x \in Exchanges
  PROVE /\ Claimed(x, p) \in Call /\ Legal(call, Claimed(x, p))
        /\ Claimed(x, p).exchange = call.exchange
        /\ Claimed(x, p).phase = "issued" => call.phase = "issued"
<1>1. CASE MayClaim(x, p)
  <2>1. Claimed(x, p) = [call EXCEPT !.phase = "capturing"]
    BY <1>1 DEF Claimed
  <2>2. /\ Claimed(x, p) \in Call
        /\ Claimed(x, p).exchange = call.exchange /\ Claimed(x, p).pod = call.pod
        /\ Claimed(x, p).authorized = call.authorized
        /\ Claimed(x, p).not_dispatched = call.not_dispatched
        /\ Claimed(x, p).phase = "capturing"
    BY <2>1 DEF TypeOK, Call
  <2>3. ~call.authorized /\ ~call.not_dispatched /\ call.phase = "assigned"
    BY <1>1 DEF MayClaim, Record, Unclaimed
  <2> QED BY <2>2, <2>3 DEF Legal, Unclaimed
<1>2. CASE ~MayClaim(x, p)
  BY <1>2 DEF Claimed, Legal, TypeOK
<1> QED BY <1>1, <1>2

LEMMA AuthorizeIsLegal ==
  ASSUME TypeOK, Record, call.phase = "capturing"
  PROVE LET d == [call EXCEPT !.authorized = TRUE]
        IN d \in Call /\ Legal(call, d) /\ d.exchange = call.exchange
           /\ d.phase = "capturing" /\ d.authorized
<1> DEFINE d == [call EXCEPT !.authorized = TRUE]
<1>1. /\ d \in Call /\ d.exchange = call.exchange /\ d.pod = call.pod
      /\ d.phase = "capturing" /\ d.authorized /\ d.not_dispatched = call.not_dispatched
  BY DEF TypeOK, Call
<1>2. ~call.not_dispatched
  BY DEF Record
<1> QED BY <1>1, <1>2 DEF Legal, Claims

LEMMA FailIsLegal ==
  ASSUME TypeOK, Record, call.phase = "capturing", NEW u \in BOOLEAN
  PROVE /\ Failed(u) \in Call /\ Legal(call, Failed(u))
        /\ Failed(u).exchange = call.exchange /\ Failed(u).phase = "failed"
<1>1. /\ Failed(u) \in Call /\ Failed(u).exchange = call.exchange /\ Failed(u).pod = call.pod
      /\ Failed(u).phase = "failed" /\ Failed(u).authorized = call.authorized
      /\ Failed(u).not_dispatched = (u /\ ~call.authorized)
  BY DEF TypeOK, Call, Failed
<1> QED BY <1>1 DEF Legal, Claims

LEMMA IssueIsLegal ==
  ASSUME TypeOK, Record, call.phase = "capturing", call.authorized
  PROVE Issued \in Call /\ Legal(call, Issued) /\ Issued.exchange = call.exchange
<1>1. /\ Issued \in Call /\ Issued.exchange = call.exchange /\ Issued.pod = call.pod
      /\ Issued.phase = "issued" /\ Issued.authorized = call.authorized
      /\ Issued.not_dispatched = call.not_dispatched
  BY DEF TypeOK, Call, Issued
<1>2. ~call.not_dispatched
  BY DEF Record
<1> QED BY <1>1, <1>2 DEF Legal, Claims

\* A write is made or in doubt, as _change leaves it.
LEMMA WriteStep ==
  ASSUME TypeOK, NEW d \in Call, Legal(call, d), d.phase = "issued" => Committed,
         (SaveCall(d) /\ UNCHANGED faults) \/ UncertainCall(d)
  PROVE /\ RecordStep
        /\ faults' \in 0 .. MaxFaults
        /\ SaveCall(d) \/ (UNCHANGED <<call, undispatched>>)
  BY FaultTypes DEF RecordStep, UncertainCall

\* What a job writes to the record of its attempt.
LEMMA CaptureRecord ==
  ASSUME TypeOK, Record, NEW p \in Pods, NEW x \in Exchanges, Capture(p, x)
  PROVE /\ RecordStep /\ call'.exchange = call.exchange
        /\ faults' \in 0 .. MaxFaults
<1>1. CASE Claim(p, x) \/ Reclaim(p, x)
  <2> DEFINE d == Claimed(x, p)
  <2>1. d \in Call /\ Legal(call, d) /\ d.exchange = call.exchange
        /\ (d.phase = "issued" => Committed)
    BY ClaimIsLegal DEF Committed
  <2>2. (SaveCall(d) /\ UNCHANGED faults) \/ UncertainCall(d)
    BY <1>1 DEF Claim, Reclaim
  <2> HIDE DEF d
  <2> QED BY <2>1, <2>2, WriteStep DEF SaveCall
<1>2. CASE Authorize(p, x)
  <2> DEFINE d == [call EXCEPT !.authorized = TRUE]
  <2>1. CASE UNCHANGED <<record, faults>>
    BY <2>1 DEF RecordStep, record, TypeOK
  <2>2. CASE MayFail(x, p) /\ ((SaveCall(d) /\ UNCHANGED faults) \/ UncertainCall(d))
    <3>1. d \in Call /\ Legal(call, d) /\ d.exchange = call.exchange /\ d.phase # "issued"
      BY <2>2, AuthorizeIsLegal DEF MayFail
    <3> HIDE DEF d
    <3> QED BY <2>2, <3>1, WriteStep DEF SaveCall
  <2> QED BY <1>2, <2>1, <2>2 DEF Authorize
<1>3. CASE Issue(p, x)
  <2>1. CASE UNCHANGED <<record, faults>>
    BY <2>1 DEF RecordStep, record, TypeOK
  <2>2. CASE MayIssue(x, p) /\ ((SaveCall(Issued) /\ UNCHANGED faults) \/ UncertainCall(Issued))
    <3>1. Issued \in Call /\ Legal(call, Issued) /\ Issued.exchange = call.exchange
      BY <2>2, IssueIsLegal DEF MayIssue, MayFail
    <3>2. Committed
      BY <1>3, <2>2 DEF Issue, At, Committed, MayIssue, MayFail
    <3> QED BY <2>2, <3>1, <3>2, WriteStep DEF SaveCall
  <2> QED BY <1>3, <2>1, <2>2 DEF Issue
<1>4. CASE Reject(p, x)
  <2> DEFINE u == (job[p][x] = "rejectUnsent")
             d == IF MayFail(x, p) THEN Failed(u) ELSE call
  <2>1. CASE UNCHANGED <<record, faults>>
    BY <2>1 DEF RecordStep, record, TypeOK
  <2>2. CASE (SaveCall(d) /\ UNCHANGED faults) \/ UncertainCall(d)
    <3>1. u \in BOOLEAN
      OBVIOUS
    <3> HIDE DEF u
    <3>2. d \in Call /\ Legal(call, d) /\ d.exchange = call.exchange
          /\ (d.phase = "issued" => Committed)
      <4>1. CASE MayFail(x, p)
        BY <3>1, <4>1, FailIsLegal DEF MayFail
      <4>2. CASE ~MayFail(x, p)
        BY <4>2 DEF Legal, TypeOK, Committed
      <4> QED BY <4>1, <4>2
    <3> HIDE DEF d
    <3> QED BY <2>2, <3>2, WriteStep DEF SaveCall
  <2> QED BY <1>4, <2>1, <2>2 DEF Reject
<1>5. CASE Reserve(p, x)
  <2>1. faults' = faults \/ (faults < MaxFaults /\ faults' = faults + 1)
    BY <1>5 DEF Reserve, UncertainCharge
  <2> QED BY <1>5, <2>1, FaultTypes DEF Reserve, RecordStep, record
<1>6. CASE \/ OpenCapture(p, x) \/ Handshake(p, x) \/ Verify(p, x) \/ Permit(p, x)
           \/ CheckAgain(p, x) \/ Release(p, x) \/ Respond(p, x) \/ SaveManifest(p, x)
  BY <1>6 DEF OpenCapture, Handshake, Verify, Permit, CheckAgain, Release, Respond, SaveManifest,
              RecordStep, record, TypeOK
<1>7. CASE Finish(p, x) \/ Settle(p, x) \/ Fail(p, x) \/ Drop(p, x) \/ Clean(p, x) \/ Recover(p, x)
  BY <1>7 DEF Finish, Settle, Fail, Drop, Clean, Recover, RecordStep, record, TypeOK
<1> QED BY <1>1, <1>2, <1>3, <1>4, <1>5, <1>6, <1>7 DEF Capture

-----------------------------------------------------------------------------
(* Each step of a capture keeps the attempts' parts of the invariant.      *)

\* The steps that go from a job's place to its next one and leave the record
\* and the evidence alone.
LEMMA PlainMoves ==
  ASSUME TypeOK, Record, Attempted, NEW p \in Pods, NEW x \in Exchanges,
         UNCHANGED <<record, manifest, spool, sent>>,
         NEW t \in Points \ {"sent", "save"}, Go(p, x, t), job[p][x] # "idle",
         t \in Owning => \/ job[p][x] \in Owning
                         \/ x = call.exchange => call.pod = p /\ call.phase \in Claims,
         t \in Token => job[p][x] \in Token,
         t \in Early => job[p][x] \in Early,
         t \in Failing => \/ job[p][x] \in Early \cup Failing
                          \/ x = call.exchange => manifest[x] # "good",
         t \in Paying => (x = call.exchange => manifest[x] = "good")
  PROVE Attempted'
<1>1. RecordStep
  BY DEF RecordStep
<1>2. call' \in Call /\ Moves /\ call' = call /\ UNCHANGED <<manifest, spool, sent>>
  BY <1>1, RecordMoves DEF record
<1>3. x <= call.exchange
  BY JobIsAttempt DEF Attempted
<1> QED BY <1>2, <1>3, JobMoveKeeps

LEMMA EarlySteps ==
  ASSUME TypeOK, Record, Attempted, NEW p \in Pods, NEW x \in Exchanges,
         \/ Handshake(p, x) \/ Verify(p, x) \/ Permit(p, x) \/ CheckAgain(p, x)
         \/ Reserve(p, x) \/ Drop(p, x) \/ Settle(p, x)
  PROVE Attempted'
<1> USE DEF Owning, Token, Early, Failing, Paying, Points, Working, At
<1>1. CASE Handshake(p, x)
  BY <1>1, PlainMoves DEF Handshake
<1>2. CASE Verify(p, x)
  BY <1>2, PlainMoves DEF Verify
<1>3. CASE Permit(p, x)
  BY <1>3, PlainMoves DEF Permit
<1>4. CASE CheckAgain(p, x)
  BY <1>4, PlainMoves DEF CheckAgain
<1>5. CASE Reserve(p, x)
  BY <1>5, PlainMoves DEF Reserve
<1>6. CASE Drop(p, x)
  BY <1>6, PlainMoves DEF Drop
<1>7. CASE Settle(p, x)
  <2>1. x = call.exchange => manifest[x] = "good"
    BY <1>7 DEF Settle, Attempted, Stages, Stage
  <2> QED BY <1>7, <2>1, PlainMoves DEF Settle
<1> QED BY <1>1, <1>2, <1>3, <1>4, <1>5, <1>6, <1>7

\* Where a recovery goes: the attempt of another Pod and one that nobody was given
\* are not this job's.
LEMMA RecoverGoes ==
  ASSUME TypeOK, Record, NEW p \in Pods, NEW x \in Exchanges, Recover(p, x)
  PROVE \/ Go(p, x, "clean")
        \/ /\ x = call.exchange /\ call.pod = p /\ call.phase = "assigned"
           /\ Go(p, x, "reclaim") \/ Go(p, x, "idle")
        \/ /\ x = call.exchange /\ call.pod = p /\ call.phase = "capturing"
           /\ \/ manifest[x] = "good" /\ Go(p, x, "settle")
              \/ manifest[x] = "bad" /\ Go(p, x, "drop")
              \/ /\ ~call.authorized \/ manifest[x] = "none"
                 /\ Go(p, x, "finish") \/ Go(p, x, "unsent") \/ Go(p, x, "fail")
<1> DEFINE t == CASE Over(x) -> "clean"
                 [] ~Over(x) /\ Recoverable(call) ->
                      IF manifest[x] = "good" THEN "settle" ELSE "drop"
                 [] ~Over(x) /\ call.phase = "assigned" ->
                      IF spool[p][x] = "pending" THEN "reclaim" ELSE "idle"
                 [] ~Over(x) /\ call.phase = "capturing" /\ ~Recoverable(call) ->
                      IF call.authorized /\ spool[p][x] \in {"good", "bad"} THEN "finish"
                      ELSE IF spool[p][x] = "pending" THEN "unsent" ELSE "fail"
<1>1. /\ Go(p, x, t)
      /\ call.exchange = x => call.pod = p
  BY DEF Recover
<1>2. CASE Over(x)
  BY <1>1, <1>2 DEF Over, Recoverable
<1>3. CASE ~Over(x)
  <2>1. call.exchange = x /\ call.pod = p /\ call.phase \in {"assigned", "capturing"}
    <3>1. p # 0
      BY CallsAssumption, 0 \notin 1..Cardinality(Pods)
    <3>2. call.phase \in {"reserved", "assigned", "capturing", "issued", "failed"}
      BY DEF TypeOK, Call
    <3> QED BY <1>1, <1>3, <3>1, <3>2 DEF Over, Record
  <2>2. CASE Recoverable(call)
    <3>1. call.phase = "capturing" /\ manifest[x] \in {"good", "bad"}
      BY <2>1, <2>2 DEF Recoverable, TypeOK
    <3>2. t = IF manifest[x] = "good" THEN "settle" ELSE "drop"
      BY <1>3, <2>2, <3>1
    <3> QED BY <1>1, <2>1, <3>1, <3>2
  <2>3. CASE call.phase = "assigned"
    <3>1. t = IF spool[p][x] = "pending" THEN "reclaim" ELSE "idle"
      BY <1>3, <2>3 DEF Recoverable
    <3> HIDE DEF t
    <3> QED BY <1>1, <2>1, <2>3, <3>1
  <2>4. CASE call.phase = "capturing" /\ ~Recoverable(call)
    <3>1. t \in {"finish", "unsent", "fail"}
      BY <1>3, <2>4
    <3> HIDE DEF t
    <3> QED BY <1>1, <2>1, <2>4, <3>1 DEF Recoverable
  <2> QED BY <2>1, <2>2, <2>3, <2>4
<1> QED BY <1>2, <1>3

LEMMA LateSteps ==
  ASSUME TypeOK, Record, Attempted, NEW p \in Pods, NEW x \in Exchanges,
         Fail(p, x) \/ Recover(p, x)
  PROVE Attempted'
<1> USE DEF Owning, Token, Early, Failing, Paying, Points, Working, At
\* Nothing is known of an attempt without an authorization.
<1>2. x = call.exchange /\ ~call.authorized => manifest[x] = "none"
  BY DEF Attempted, SentOnce, Evidence, TypeOK
<1>3. CASE Fail(p, x)
  <2>1. job[p][x] \in Failing
    BY <1>3 DEF Fail
  <2>2. x = call.exchange => manifest[x] # "good"
    BY <2>1 DEF Attempted, Stages, Stage
  <2> QED BY <1>3, <2>1, <2>2, PlainMoves DEF Fail, Recoverable
<1>4. CASE Recover(p, x)
  <2>1. job[p][x] = "recover" /\ UNCHANGED <<record, manifest, spool, sent>>
    BY <1>4 DEF Recover
  <2>2. CASE Go(p, x, "clean")
    BY <2>1, <2>2, PlainMoves
  <2>3. CASE /\ x = call.exchange /\ call.pod = p /\ call.phase = "assigned"
             /\ Go(p, x, "reclaim") \/ Go(p, x, "idle")
    BY <2>1, <2>3, PlainMoves
  <2>4. CASE /\ x = call.exchange /\ call.pod = p /\ call.phase = "capturing"
             /\ \/ manifest[x] = "good" /\ Go(p, x, "settle")
                \/ manifest[x] = "bad" /\ Go(p, x, "drop")
                \/ /\ ~call.authorized \/ manifest[x] = "none"
                   /\ Go(p, x, "finish") \/ Go(p, x, "unsent") \/ Go(p, x, "fail")
    BY <1>2, <2>1, <2>4, PlainMoves DEF Claims
  <2> QED BY <1>4, <2>2, <2>3, <2>4, RecoverGoes
<1> QED BY <1>3, <1>4

\* The steps of a job that write the record.
LEMMA WritingSteps ==
  ASSUME TypeOK, Record, Attempted, NEW p \in Pods, NEW x \in Exchanges,
         \/ Claim(p, x) \/ Reclaim(p, x) \/ Authorize(p, x) \/ Issue(p, x) \/ Reject(p, x)
  PROVE Attempted'
<1> USE DEF Owning, Token, Early, Failing, Paying, Points, Working, At
<1>1. /\ RecordStep /\ call'.exchange = call.exchange
      /\ UNCHANGED <<manifest, spool, sent>>
  BY CaptureRecord DEF Capture, Claim, Reclaim, Authorize, Issue, Reject
<1>2. call' \in Call /\ Moves
  BY <1>1, RecordMoves
<1>3. x <= call.exchange
  <2>1. job[p][x] # "idle"
    BY DEF Claim, Reclaim, Authorize, Issue, Reject
  <2> QED BY <2>1, JobIsAttempt DEF Attempted
\* Nothing is known of an attempt without an authorization.
<1>4. x = call.exchange /\ ~call.authorized => manifest[x] = "none"
  BY DEF Attempted, SentOnce, Evidence, TypeOK
<1>5. ASSUME MayClaim(x, p), SaveCall(Claimed(x, p))
      PROVE /\ x = call.exchange => call'.pod = p /\ call'.phase \in Claims
            /\ x = call.exchange => manifest[x] = "none"
  <2>1. call' = [call EXCEPT !.phase = "capturing"] /\ call.phase = "assigned" /\ call.pod = p
    BY <1>5 DEF SaveCall, Claimed, MayClaim
  <2>2. call'.pod = p /\ call'.phase = "capturing"
    BY <2>1 DEF TypeOK, Call
  <2> QED BY <1>4, <2>1, <2>2 DEF Claims, Record, Unclaimed
<1>6. CASE Claim(p, x)
  <2>1. CASE SaveCall(Claimed(x, p)) /\ MayClaim(x, p)
    <3>1. Go(p, x, "capture") \/ Go(p, x, "recover")
      BY <1>6, <2>1 DEF Claim
    <3> QED BY <1>1, <1>2, <1>3, <1>5, <2>1, <3>1, JobMoveKeeps
  <2>2. CASE ~(SaveCall(Claimed(x, p)) /\ MayClaim(x, p))
    <3>1. Go(p, x, "clean") \/ Go(p, x, "recover")
      BY <1>6, <2>2 DEF Claim
    <3> QED BY <1>1, <1>2, <1>3, <3>1, JobMoveKeeps
  <2> QED BY <2>1, <2>2
<1>7. CASE Reclaim(p, x)
  <2>1. CASE SaveCall(Claimed(x, p)) /\ MayClaim(x, p)
    <3>1. Go(p, x, "unsent") \/ Go(p, x, "recover")
      BY <1>7, <2>1 DEF Reclaim
    <3> QED BY <1>1, <1>2, <1>3, <1>5, <2>1, <3>1, JobMoveKeeps
  <2>2. CASE ~(SaveCall(Claimed(x, p)) /\ MayClaim(x, p))
    <3>1. Go(p, x, "recover")
      BY <1>7, <2>2 DEF Reclaim
    <3> QED BY <1>1, <1>2, <1>3, <3>1, JobMoveKeeps
  <2> QED BY <2>1, <2>2
<1>8. CASE Authorize(p, x)
  <2> DEFINE d == [call EXCEPT !.authorized = TRUE]
  <2>1. CASE Go(p, x, "fail")
    BY <1>1, <1>2, <1>3, <1>8, <2>1, JobMoveKeeps DEF Authorize
  <2>2. CASE MayFail(x, p) /\ ~call.authorized /\ SaveCall(d) /\ Go(p, x, "check")
    <3>1. call' = d /\ undispatched' = undispatched
      BY <2>2 DEF SaveCall, MayFail, TypeOK, Call
    <3>2. call'.authorized
      BY <3>1 DEF TypeOK, Call
    <3> QED BY <1>1, <1>2, <1>3, <1>8, <2>2, <3>1, <3>2, JobMoveKeeps DEF Authorize, MayFail
  <2> QED BY <1>8, <2>1, <2>2 DEF Authorize
<1>9. CASE Issue(p, x)
  <2>1. Go(p, x, "clean") \/ Go(p, x, "recover")
    BY <1>9 DEF Issue
  <2> QED BY <1>1, <1>2, <1>3, <2>1, JobMoveKeeps
<1>10. CASE Reject(p, x)
  <2>1. /\ job[p][x] \in Failing
        /\ Go(p, x, "clean") \/ Go(p, x, "fail") \/ Go(p, x, "unsent")
    BY <1>10 DEF Reject
  <2> QED BY <1>1, <1>2, <1>3, <2>1, JobMoveKeeps
<1> QED BY <1>6, <1>7, <1>8, <1>9, <1>10

\* The steps that change a directory or the evidence.
LEMMA EvidenceSteps ==
  ASSUME TypeOK, Record, Attempted, NEW p \in Pods, NEW x \in Exchanges,
         \/ Connect(p, x) \/ OpenCapture(p, x) \/ Release(p, x) \/ Respond(p, x)
         \/ SaveManifest(p, x) \/ Finish(p, x) \/ Clean(p, x)
  PROVE Attempted'
<1> USE DEF Owning, Token, Early, Failing, Paying, Points, Working, At, Whole, Spools
<1>1. UNCHANGED record
  BY DEF Connect, OpenCapture, Release, Respond, SaveManifest, Finish, Clean
<1>2. call' \in Call /\ Moves /\ call' = call /\ undispatched' = undispatched
  <2>1. RecordStep
    BY <1>1 DEF RecordStep
  <2> QED BY <1>1, <2>1, RecordMoves DEF record
<1>3. x <= call.exchange
  <2>1. CASE Connect(p, x)
    <3>1. call.exchange = x /\ x \in Nat
      BY <2>1, ExchangeNat DEF Connect
    <3> QED BY <3>1
  <2>2. CASE job[p][x] # "idle"
    BY <2>2, JobIsAttempt DEF Attempted
  <2> QED BY <2>1, <2>2 DEF OpenCapture, Release, Respond, SaveManifest, Finish, Clean
<1>4. ASSUME Alone(p, x), EvidenceStep(p, x), Own(p, x)' PROVE Attempted'
  BY <1>2, <1>3, <1>4, JobStepKeeps
\* What is known of this job now.
<1>5. /\ x = call.exchange =>
           /\ job[p][x] \in Owning \/ spool[p][x] \in Whole => call.pod = p /\ call.phase \in Claims
           /\ job[p][x] \in Early => manifest[x] = "none"
           /\ job[p][x] \in Failing => manifest[x] # "good"
           /\ job[p][x] \in Paying => manifest[x] = "good"
           /\ spool[p][x] = "bad" => manifest[x] # "good"
           /\ spool[p][x] = "good" => manifest[x] # "bad"
      /\ job[p][x] = "sent" => sent[x] = 1
      /\ spool[p][x] \in Whole => sent[x] = 1
      /\ job[p][x] = "save" => spool[p][x] \in Whole
  BY DEF Attempted, Owned, Stages, Stage, Evidence
<1>6. spool[p][x] \in Spools
  BY DEF TypeOK
<1>7. CASE Connect(p, x)
  <2>1. /\ job'[p][x] = "claim" /\ spool'[p][x] = "pending" /\ Alone(p, x)
        /\ sent' = sent /\ manifest' = manifest
    BY <1>7, GoMoves, PutMoves DEF Connect, Alone
  <2>2. EvidenceStep(p, x) /\ Own(p, x)'
    BY <1>2, <2>1 DEF EvidenceStep, Own, Stage
  <2> QED BY <1>4, <2>1, <2>2
<1>8. CASE OpenCapture(p, x)
  <2>1. /\ job[p][x] = "capture" /\ job'[p][x] = "capture" /\ spool'[p][x] = "open" /\ Alone(p, x)
        /\ sent' = sent /\ manifest' = manifest
    BY <1>8, PutMoves DEF OpenCapture, Alone
  <2>2. EvidenceStep(p, x) /\ Own(p, x)'
    BY <1>2, <1>5, <2>1 DEF EvidenceStep, Own, Stage
  <2> QED BY <1>4, <2>1, <2>2
<1>9. CASE Release(p, x)
  <2>1. CASE Go(p, x, "fail") /\ UNCHANGED sent
    BY <1>9, <2>1, PlainMoves DEF Release
  <2>2. CASE sent' = [sent EXCEPT ![x] = @ + 1] /\ Go(p, x, "sent")
    <3>1. /\ job[p][x] = "release" /\ job'[p][x] = "sent" /\ spool' = spool /\ Alone(p, x)
          /\ manifest' = manifest
      BY <1>9, <2>2, GoMoves DEF Release, Alone
    <3>2. sent'[x] = 1
      BY <2>2, <3>1 DEF Attempted, Tokens, TypeOK
    <3>3. EvidenceStep(p, x)
      BY <2>2, <3>1 DEF EvidenceStep
    <3>4. Own(p, x)'
      BY <1>2, <1>5, <3>1, <3>2 DEF Own, Stage
    <3> QED BY <1>4, <3>1, <3>3, <3>4
  <2> QED BY <1>9, <2>1, <2>2 DEF Release
<1>10. CASE Respond(p, x)
  <2>1. CASE Go(p, x, "fail") /\ UNCHANGED spool
    BY <1>10, <2>1, PlainMoves DEF Respond
  <2>2. ASSUME NEW r \in Whole, Put(p, x, r), Go(p, x, "save") PROVE Attempted'
    <3>1. /\ job[p][x] = "sent" /\ job'[p][x] = "save" /\ spool'[p][x] = r /\ Alone(p, x)
          /\ sent' = sent /\ manifest' = manifest
      BY <1>10, <2>2, GoMoves, PutMoves DEF Respond, Alone
    <3>2. EvidenceStep(p, x) /\ Own(p, x)'
      BY <1>2, <1>5, <3>1 DEF EvidenceStep, Own, Stage
    <3> QED BY <1>4, <3>1, <3>2
  <2> QED BY <1>10, <2>1, <2>2 DEF Respond
<1>11. CASE SaveManifest(p, x)
  <2>1. CASE Finishing(p, x) /\ UNCHANGED manifest
    BY <1>11, <2>1, PlainMoves DEF SaveManifest, Finishing
  <2>2. CASE manifest' = [manifest EXCEPT ![x] = spool[p][x]] /\ Go(p, x, "finish")
    <3>1. /\ job[p][x] = "save" /\ job'[p][x] = "finish" /\ spool' = spool /\ Alone(p, x)
          /\ sent' = sent
      BY <1>11, <2>2, GoMoves DEF SaveManifest, Alone
    <3>2. EvidenceStep(p, x)
      BY <1>5, <2>2, <3>1 DEF EvidenceStep
    <3>3. manifest'[x] = spool[p][x]
      BY <2>2 DEF TypeOK
    <3>4. Own(p, x)'
      BY <1>2, <1>5, <3>1, <3>3 DEF Own, Stage
    <3> QED BY <1>4, <3>1, <3>2, <3>4
  <2> QED BY <1>11, <2>1, <2>2 DEF SaveManifest
<1>12. CASE Finish(p, x)
  <2>1. CASE Over(x) /\ Go(p, x, "clean") /\ UNCHANGED manifest
    BY <1>12, <2>1, PlainMoves DEF Finish
  <2>2. CASE spool[p][x] = "bad" /\ Go(p, x, "drop") /\ UNCHANGED manifest
    BY <1>5, <1>12, <2>2, PlainMoves DEF Finish
  <2>3. CASE spool[p][x] = "good" /\ manifest' = [manifest EXCEPT ![x] = "good"] /\ Go(p, x, "settle")
    <3>1. /\ job[p][x] = "finish" /\ job'[p][x] = "settle" /\ spool' = spool /\ Alone(p, x)
          /\ sent' = sent
      BY <1>12, <2>3, GoMoves DEF Finish, Alone
    <3>2. EvidenceStep(p, x)
      BY <2>3, <3>1 DEF EvidenceStep
    <3>3. manifest'[x] = "good"
      BY <2>3 DEF TypeOK
    <3>4. Own(p, x)'
      BY <1>2, <1>5, <2>3, <3>1, <3>3 DEF Own, Stage
    <3> QED BY <1>4, <3>1, <3>2, <3>4
  <2> QED BY <1>12, <2>1, <2>2, <2>3 DEF Finish
<1>13. CASE Clean(p, x)
  <2>1. /\ job'[p][x] = "idle" /\ spool'[p][x] = "none" /\ Alone(p, x)
        /\ sent' = sent /\ manifest' = manifest
    BY <1>13, GoMoves, PutMoves DEF Clean, Alone
  <2>2. EvidenceStep(p, x) /\ Own(p, x)'
    BY <1>2, <2>1 DEF EvidenceStep, Own, Stage
  <2> QED BY <1>4, <2>1, <2>2
<1> QED BY <1>7, <1>8, <1>9, <1>10, <1>11, <1>12, <1>13

\* A job keeps the attempts' parts of the invariant.
LEMMA CaptureKeeps ==
  ASSUME TypeOK, Record, Attempted, NEW p \in Pods, NEW x \in Exchanges,
         Connect(p, x) \/ Capture(p, x)
  PROVE Attempted'
BY EarlySteps, LateSteps, WritingSteps, EvidenceSteps DEF Capture

-----------------------------------------------------------------------------
(* The steps of the requests, of the store, and the faults.                *)

\* The request that a step of it changes.
Moved(h) ==
  /\ handler' \in [Handlers -> [at : {"idle", "view", "forget", "check", "assign", "settle",
                                      "issue", "drop", "reject", "interrupt", "interrupted"},
                                pod : Pods, seen : Call]]
  /\ \A k \in Handlers : k # h => handler'[k] = handler[k]

HandlerPoints == {"idle", "view", "forget", "check", "assign", "settle",
                  "issue", "drop", "reject", "interrupt", "interrupted"}

LEMMA ToMoves ==
  ASSUME TypeOK, NEW h \in Handlers, NEW s \in HandlerPoints, To(h, s)
  PROVE /\ Moved(h)
        /\ handler'[h].at = s /\ handler'[h].seen = handler[h].seen
        /\ handler'[h].pod = handler[h].pod
BY DEF To, TypeOK, Moved, HandlerPoints

LEMMA NewIsCall == NewCall(1) \in Call
BY ExchangeNat DEF NewCall, Call

LEMMA EndMoves ==
  ASSUME TypeOK, NEW h \in Handlers, End(h)
  PROVE Moved(h) /\ handler'[h] = Idle /\ handler'[h].at = "idle"
<1>1. Idle \in [at : HandlerPoints, pod : Pods, seen : Call] /\ Idle.at = "idle"
  BY NewIsCall, ExchangeNat DEF Idle, HandlerPoints
<1> QED BY <1>1 DEF End, TypeOK, Moved, HandlerPoints

\* What assign writes is legal.
LEMMA AssignIsLegal ==
  ASSUME TypeOK, Record, NEW h \in Handlers, Assigned(h).exchange \in Exchanges
  PROVE /\ Assigned(h) \in Call /\ Legal(call, Assigned(h))
        /\ Assigned(h).phase = "issued" => call.phase = "issued"
        /\ Assigned(h).phase = "capturing" => Assigned(h) = call
<1> DEFINE seen == handler[h].seen
           c == IF seen.phase = "failed" /\ call.phase = "failed" /\ call.exchange = seen.exchange
                THEN NewCall(call.exchange + 1) ELSE call
           d == [c EXCEPT !.phase = "assigned", !.pod = handler[h].pod]
<1>1. Assigned(h) = IF c.phase \in {"reserved", "assigned"} THEN d ELSE c
  BY DEF Assigned
<1>2. handler[h].pod \in Pods
  BY DEF TypeOK
<1>3. CASE c = call /\ c.phase \in {"reserved", "assigned"}
  <2>1. /\ d \in Call /\ d.exchange = call.exchange /\ d.phase = "assigned"
        /\ d.authorized = call.authorized /\ d.not_dispatched = call.not_dispatched
    BY <1>2, <1>3 DEF TypeOK, Call
  <2>2. ~call.authorized /\ ~call.not_dispatched /\ call.phase \in Unclaimed
    BY <1>3 DEF Record, Unclaimed
  <2>3. Assigned(h) = d
    BY <1>1, <1>3
  <2> HIDE DEF d, c
  <2> QED BY <2>1, <2>2, <2>3 DEF Legal
<1>4. CASE c = call /\ c.phase \notin {"reserved", "assigned"}
  <2>1. Assigned(h) = call
    BY <1>1, <1>4
  <2> QED BY <2>1 DEF Legal, TypeOK
<1>5. CASE c = NewCall(call.exchange + 1) /\ call.phase = "failed"
  <2>1. /\ c.phase = "reserved" /\ d.phase = "assigned" /\ d.exchange = call.exchange + 1
        /\ d.pod = handler[h].pod /\ ~d.authorized /\ ~d.not_dispatched
    BY <1>5 DEF NewCall
  <2>2. Assigned(h) = d
    BY <1>1, <2>1
  <2>3. call.exchange + 1 \in Exchanges
    BY <2>1, <2>2
  <2>4. c \in Call
    BY <1>5, <2>3 DEF NewCall, Call
  <2>5. d \in Call
    <3> HIDE DEF c
    <3> QED BY <1>2, <2>4 DEF Call
  <2> HIDE DEF d, c
  <2> QED BY <1>5, <2>1, <2>2, <2>5 DEF Legal
<1>6. c = call \/ (c = NewCall(call.exchange + 1) /\ call.phase = "failed")
  OBVIOUS
<1> HIDE DEF c
<1> QED BY <1>3, <1>4, <1>5, <1>6

\* What a request writes to the record.
LEMMA ServeRecord ==
  ASSUME TypeOK, Record, NEW h \in Handlers, Serve(h)
  PROVE RecordStep /\ faults' \in 0 .. MaxFaults
<1>1. CASE Assign(h)
  <2>1. /\ Assigned(h) \in Call /\ Legal(call, Assigned(h))
        /\ Assigned(h).phase = "issued" => Committed
    BY <1>1, AssignIsLegal DEF Assign, Committed
  <2>2. (SaveCall(Assigned(h)) /\ UNCHANGED faults) \/ UncertainCall(Assigned(h))
    BY <1>1 DEF Assign
  <2> QED BY <2>1, <2>2, WriteStep
<1>2. CASE HandlerIssue(h)
  <2> DEFINE s == handler[h].seen
  <2>1. CASE UNCHANGED <<record, faults>>
    BY <2>1 DEF RecordStep, TypeOK
  <2>2. CASE MayIssue(s.exchange, s.pod) /\ ((SaveCall(Issued) /\ UNCHANGED faults) \/ UncertainCall(Issued))
    <3>1. Issued \in Call /\ Legal(call, Issued)
      BY <2>2, IssueIsLegal DEF MayIssue, MayFail
    <3>2. Committed
      <4>1. call.exchange = s.exchange /\ call.phase \in {"capturing", "issued"}
        BY <2>2 DEF MayIssue, MayFail
      <4>2. handler[h].at = "issue"
        BY <1>2 DEF HandlerIssue, Serving
      <4> QED BY <4>1, <4>2 DEF Committed
    <3> QED BY <2>2, <3>1, <3>2, WriteStep
  <2> QED BY <1>2, <2>1, <2>2 DEF HandlerIssue
<1>3. CASE HandlerReject(h)
  <2> DEFINE s == handler[h].seen
  <2>1. CASE UNCHANGED <<record, faults>>
    BY <2>1 DEF RecordStep, TypeOK
  <2>2. CASE SaveCall(call) /\ UNCHANGED faults
    BY <2>2, WriteStep DEF Legal, TypeOK, Committed
  <2>3. CASE /\ MayFail(s.exchange, s.pod)
             /\ (SaveCall(Failed(FALSE)) /\ UNCHANGED faults) \/ UncertainCall(Failed(FALSE))
    <3>1. Failed(FALSE) \in Call /\ Legal(call, Failed(FALSE)) /\ Failed(FALSE).phase = "failed"
      BY <2>3, FailIsLegal DEF MayFail
    <3> QED BY <2>3, <3>1, WriteStep
  <2> QED BY <1>3, <2>1, <2>2, <2>3 DEF HandlerReject
<1>4. CASE Forget(h) \/ Check(h) \/ View(h) \/ HandlerSettle(h) \/ HandlerDrop(h)
  BY <1>4 DEF Forget, Check, View, HandlerSettle, HandlerDrop, RecordStep, TypeOK
<1> QED BY <1>1, <1>2, <1>3, <1>4 DEF Serve

LEMMA ServeKeeps ==
  ASSUME TypeOK, Record, Attempted, NEW h \in Handlers, Serve(h)
  PROVE Attempted'
<1>1. call' \in Call /\ Moves
  BY ServeRecord, RecordMoves
<1>2. UNCHANGED <<manifest, spool, job, sent>>
  BY DEF Serve, Forget, Check, Assign, View, HandlerSettle, HandlerIssue, HandlerDrop, HandlerReject
<1> QED BY <1>1, <1>2, QuietStep

\* A late PUT is of a write that was legal, and still is.
LEMMA LateRecord ==
  ASSUME TypeOK, Record, LateWrite
  PROVE RecordStep
<1>1. CASE UNCHANGED record
  BY <1>1 DEF RecordStep
<1>2. ASSUME NEW c \in lateCall, SaveCall(c) PROVE RecordStep
  BY <1>2 DEF RecordStep, Record, TypeOK, Committed
<1> QED BY <1>1, <1>2 DEF LateWrite

LEMMA LateKeeps ==
  ASSUME TypeOK, Record, Attempted, LateWrite
  PROVE Attempted'
<1>1. call' \in Call /\ Moves
  BY LateRecord, RecordMoves
<1> QED BY <1>1, QuietStep DEF LateWrite

\* A job that ends, and a directory that is lost, take nothing from the others.
LEMMA FaultKeeps ==
  ASSUME TypeOK, Record, Attempted, UNCHANGED <<record, manifest, sent>>,
         NEW p \in Pods,
         \A q \in Pods, x \in Exchanges :
           q # p => job'[q][x] = job[q][x] /\ spool'[q][x] = spool[q][x],
         \A x \in Exchanges :
           \/ job'[p][x] = "idle"
           \/ job'[p][x] = "recover" /\ spool[p][x] # "none",
         \A x \in Exchanges : spool'[p][x] \in {spool[p][x], "none"}
  PROVE Attempted'
<1> USE DEF Attempted
<1>1. /\ call' = call /\ undispatched' = undispatched
      /\ call.exchange \in Exchanges
  BY DEF record, TypeOK, Call
<1>2. \A q \in Pods, x \in Exchanges :
        /\ job'[q][x] \in {job[q][x], "idle", "recover"}
        /\ spool'[q][x] \in {spool[q][x], "none"}
        /\ job'[q][x] = "recover" => job[q][x] = "recover" \/ spool[q][x] # "none"
  OBVIOUS
<1>3. Unborn'
  BY <1>1, <1>2 DEF Unborn
<1>4. Owned'
  BY <1>1, <1>2 DEF Owned, Owning, Whole, Working
<1>5. Tokens'
  <2>1. \A q \in Pods, x \in Exchanges : job'[q][x] \in Token => job[q][x] \in Token
    BY <1>2 DEF Token
  <2> QED BY <1>1, <2>1 DEF Tokens
<1>6. SentOnce'
  BY <1>1 DEF SentOnce
<1>7. Evidence'
  <2>1. \A q \in Pods, x \in Exchanges :
          /\ job'[q][x] = "sent" => job[q][x] = "sent"
          /\ spool'[q][x] \in Whole => spool[q][x] \in Whole
          /\ job'[q][x] = "save" => job[q][x] = "save" /\ q # p
    BY <1>2 DEF Whole
  <2>2. \A q \in Pods, x \in Exchanges : job'[q][x] = "save" => spool'[q][x] \in Whole
    BY <2>1 DEF Evidence
  <2> QED BY <2>1, <2>2 DEF Evidence
<1>8. Stages'
  <2>1. SUFFICES ASSUME NEW q \in Pods PROVE Stage(q)'
    BY DEF Stages
  <2>2. Stage(q)
    BY DEF Stages
  <2>3. /\ job'[q][call.exchange] \in {job[q][call.exchange], "idle", "recover"}
        /\ spool'[q][call.exchange] \in {spool[q][call.exchange], "none"}
    BY <1>1, <1>2
  <2> QED BY <1>1, <2>2, <2>3 DEF Stage, Early, Failing, Paying
<1> QED BY <1>3, <1>4, <1>5, <1>6, <1>7, <1>8

LEMMA OtherKeeps ==
  ASSUME TypeOK, Record, Attempted,
         \/ Select
         \/ \E p \in Pods : Crash(p) \/ Lose(p) \/ \E h \in Handlers : Start(h, p)
         \/ UNCHANGED vars
  PROVE /\ RecordStep /\ faults' \in 0 .. MaxFaults
        /\ Attempted'
        /\ job' \in [Pods -> [Exchanges -> Points]]
        /\ spool' \in [Pods -> [Exchanges -> Spools]]
        /\ \A p \in Pods, x \in Exchanges : job'[p][x] = "issue" => job[p][x] = "issue"
<1>1. RecordStep /\ call' \in Call /\ Moves
  <2>1. RecordStep
    BY DEF Select, Crash, Lose, Start, vars, RecordStep
  <2> QED BY <2>1, RecordMoves
<1>2. faults' \in 0 .. MaxFaults
  BY FaultTypes DEF Select, Crash, Lose, Start, vars
<1>3. CASE UNCHANGED <<manifest, spool, job, sent>>
  BY <1>1, <1>2, <1>3, QuietStep DEF TypeOK, Points
<1>4. ASSUME NEW p \in Pods, Crash(p)
      PROVE /\ Attempted'
            /\ job' \in [Pods -> [Exchanges -> Points]]
            /\ spool' \in [Pods -> [Exchanges -> Spools]]
            /\ \A q \in Pods, x \in Exchanges : job'[q][x] = "issue" => job[q][x] = "issue"
  <2> DEFINE f == [x \in Exchanges |-> IF spool[p][x] = "none" THEN "idle" ELSE "recover"]
  <2>1. job' = [job EXCEPT ![p] = f] /\ UNCHANGED <<record, manifest, sent, spool>>
    BY <1>4 DEF Crash
  <2>2. f \in [Exchanges -> Points]
    BY DEF Points, Working
  <2>3. \A x \in Exchanges : f[x] = IF spool[p][x] = "none" THEN "idle" ELSE "recover"
    OBVIOUS
  <2> HIDE DEF f
  <2>4. /\ job' \in [Pods -> [Exchanges -> Points]] /\ spool' \in [Pods -> [Exchanges -> Spools]]
        /\ job'[p] = f /\ \A q \in Pods : q # p => job'[q] = job[q]
    BY <2>1, <2>2 DEF TypeOK, Points
  <2>5. Attempted'
    BY <2>1, <2>3, <2>4, FaultKeeps
  <2> QED BY <2>3, <2>4, <2>5
<1>5. ASSUME NEW p \in Pods, Lose(p)
      PROVE /\ Attempted'
            /\ job' \in [Pods -> [Exchanges -> Points]]
            /\ spool' \in [Pods -> [Exchanges -> Spools]]
            /\ \A q \in Pods, x \in Exchanges : job'[q][x] = "issue" => job[q][x] = "issue"
  <2>1. /\ job' = [job EXCEPT ![p] = [x \in Exchanges |-> "idle"]]
        /\ spool' = [spool EXCEPT ![p] = [x \in Exchanges |-> "none"]]
        /\ UNCHANGED <<record, manifest, sent>>
    BY <1>5 DEF Lose
  <2>2. /\ job' \in [Pods -> [Exchanges -> Points]] /\ spool' \in [Pods -> [Exchanges -> Spools]]
    BY <2>1 DEF TypeOK, Points, Spools
  <2>3. /\ \A x \in Exchanges : job'[p][x] = "idle" /\ spool'[p][x] = "none"
        /\ \A q \in Pods : q # p => job'[q] = job[q] /\ spool'[q] = spool[q]
    BY <2>1 DEF TypeOK
  <2>4. Attempted'
    BY <2>1, <2>3, FaultKeeps
  <2> QED BY <2>2, <2>3, <2>4
<1> QED BY <1>1, <1>2, <1>3, <1>4, <1>5 DEF Select, Start, vars

\* Every step is one of these.
LEMMA StepKeeps ==
  ASSUME TypeOK, Record, Attempted, [Next]_vars
  PROVE RecordStep /\ Attempted' /\ faults' \in 0 .. MaxFaults
<1>1. ASSUME NEW p \in Pods, NEW x \in Exchanges, Connect(p, x)
      PROVE RecordStep /\ faults' \in 0 .. MaxFaults
  BY <1>1 DEF Connect, RecordStep, TypeOK
<1>2. ASSUME LateWrite
      PROVE RecordStep /\ faults' \in 0 .. MaxFaults
  BY <1>2, LateRecord DEF LateWrite, TypeOK
<1> QED BY <1>1, <1>2, CaptureRecord, CaptureKeeps, ServeRecord, ServeKeeps, LateKeeps, OtherKeeps
        DEF Next

-----------------------------------------------------------------------------
(* What a request found out stands.                                        *)

\* The current attempt's manifest, once it is there, stays as it is.
ManifestStays == manifest[call.exchange] \in Whole => manifest'[call.exchange] = manifest[call.exchange]

LEMMA ManifestKept ==
  ASSUME TypeOK, Attempted, [Next]_vars
  PROVE ManifestStays /\ manifest' \in [Exchanges -> {"none", "good", "bad"}]
<1>1. call.exchange \in Exchanges
  BY DEF TypeOK, Call
<1>2. CASE manifest' = manifest
  BY <1>2 DEF ManifestStays, TypeOK
<1>3. ASSUME NEW p \in Pods, NEW x \in Exchanges, SaveManifest(p, x) \/ Finish(p, x)
      PROVE ManifestStays /\ manifest' \in [Exchanges -> {"none", "good", "bad"}]
  <2>1. CASE manifest' = manifest
    BY <1>2, <2>1
  <2>2. CASE /\ spool[p][x] \in Whole /\ manifest' = [manifest EXCEPT ![x] = spool[p][x]]
    <3>1. x = call.exchange /\ manifest[x] \in Whole => manifest[x] = spool[p][x]
      BY <2>2 DEF Attempted, Stages, Stage, Whole
    <3> QED BY <1>1, <2>2, <3>1 DEF ManifestStays, TypeOK, Whole
  <2>3. job[p][x] = "save" => spool[p][x] \in Whole
    BY DEF Attempted, Evidence
  <2> QED BY <1>3, <2>1, <2>2, <2>3 DEF SaveManifest, Finish, At, Whole
<1>4. ASSUME NEW p \in Pods, NEW x \in Exchanges, Connect(p, x) \/ Capture(p, x)
      PROVE manifest' = manifest \/ SaveManifest(p, x) \/ Finish(p, x)
  BY <1>4 DEF Connect, Capture, Claim, OpenCapture, Handshake, Verify, Permit, Reserve, Authorize,
              CheckAgain, Release, Respond, Settle, Issue, Fail, Drop, Reject, Clean, Recover, Reclaim
<1>5. ASSUME NEW h \in Handlers, Serve(h) \/ \E p \in Pods : Start(h, p)
      PROVE manifest' = manifest
  BY <1>5 DEF Serve, Forget, Check, Assign, View, HandlerSettle, HandlerIssue, HandlerDrop,
              HandlerReject, Start
<1>6. ASSUME \/ \E p \in Pods : Crash(p) \/ Lose(p)
             \/ LateWrite \/ Select \/ UNCHANGED vars
      PROVE manifest' = manifest
  BY <1>6 DEF Crash, Lose, LateWrite, Select, vars
<1> QED BY <1>2, <1>3, <1>4, <1>5, <1>6 DEF Next

\* A request that does nothing meanwhile.
LEMMA WaitsOn ==
  ASSUME TypeOK, Moves, call' \in Call, ManifestStays, NEW h \in Handlers, Serves(h),
         handler'[h] = handler[h]
  PROVE Serves(h)'
<1> DEFINE s == handler[h].seen
<1>1. /\ s.exchange \in Nat /\ call.exchange \in Nat /\ call'.exchange \in Nat
      /\ call.exchange \in Exchanges
  BY ExchangeNat DEF TypeOK, Call
<1>2. CASE Same
  <2>1. handler'[h].seen = s /\ handler'[h].at = handler[h].at
    BY DEF TypeOK
  <2> HIDE DEF s
  <2> QED BY <1>1, <1>2, <2>1 DEF Serves, Same, ManifestStays, Whole, s
<1>3. CASE Again
  BY <1>1, <1>3 DEF Serves, Again, Paying
<1> QED BY <1>2, <1>3 DEF Moves

\* A request that goes on with what it has read.
LEMMA ServedOn ==
  ASSUME TypeOK, Record, Attempted, ServesAll, NEW h \in Handlers, Serve(h)
  PROVE Moved(h) /\ Serves(h)'
<1>1. call' \in Call /\ Moves
  BY ServeRecord, RecordMoves
<1>2. \A k \in Handlers : handler[k].seen.exchange \in Exchanges
  BY DEF TypeOK, Call
<1>3. /\ \A x \in Exchanges : x \in Nat
      /\ call.exchange \in Nat /\ call'.exchange \in Nat /\ call.exchange \in Exchanges
  BY <1>1, ExchangeNat DEF TypeOK, Call
<1>4. handler[h].seen.exchange <= call.exchange => handler[h].seen.exchange <= call'.exchange
  BY <1>1, <1>2, <1>3 DEF Moves, Same, Again
<1>5. Serves(h)
  BY DEF ServesAll
<1>6. manifest' = manifest
  BY DEF Serve, Forget, Check, Assign, View, HandlerSettle, HandlerIssue, HandlerDrop, HandlerReject
<1>7. CASE End(h)
  <2>1. Moved(h) /\ handler'[h].at = "idle"
    BY <1>7, EndMoves
  <2> QED BY <2>1 DEF Serves, Paying
\* It goes to a point where nothing is known of the copy.
<1>8. ASSUME NEW s \in {"check", "assign", "interrupt"}, To(h, s), ~Serving(h, "idle")
      PROVE Moved(h) /\ Serves(h)'
  <2>1. Moved(h) /\ handler'[h].at = s /\ handler'[h].seen = handler[h].seen
    BY <1>8, ToMoves DEF HandlerPoints
  <2> QED BY <1>4, <1>5, <1>8, <2>1 DEF Serves, Paying, Serving
<1>9. CASE Forget(h)
  BY <1>8, <1>9 DEF Forget, Serving
<1>10. CASE Check(h)
  BY <1>7, <1>8, <1>10 DEF Check, Serving
<1>11. CASE Assign(h)
  <2>1. CASE call'.phase = "capturing" /\ handler' = [handler EXCEPT ![h].at = "view", ![h].seen = call']
    <3>1. Moved(h) /\ handler'[h].at = "view" /\ handler'[h].seen = call'
      BY <1>1, <2>1 DEF Moved, TypeOK
    <3> QED BY <1>3, <3>1 DEF Serves, Paying
  <2> QED BY <1>7, <1>11, <2>1 DEF Assign
<1>12. CASE View(h)
  <2> DEFINE x == handler[h].seen.exchange
  <2>1. handler[h].at = "view" /\ UNCHANGED record
    BY <1>12 DEF View, Serving
  <2>2. CASE Recoverable(handler[h].seen) /\ To(h, IF manifest[x] = "good" THEN "settle" ELSE "drop")
    <3>1. manifest[x] \in {"good", "bad"}
      BY <1>2, <2>2 DEF Recoverable, TypeOK
    <3>2. /\ Moved(h) /\ handler'[h].seen = handler[h].seen
          /\ handler'[h].at = IF manifest[x] = "good" THEN "settle" ELSE "drop"
      BY <2>2, ToMoves DEF HandlerPoints
    <3> QED BY <1>4, <1>5, <1>6, <2>1, <3>1, <3>2 DEF Serves, Paying
  <2> QED BY <1>7, <1>8, <1>12, <2>1, <2>2 DEF View, Serving
<1>13. CASE HandlerSettle(h)
  <2>1. CASE To(h, "issue")
    <3>1. /\ Moved(h) /\ handler'[h].seen = handler[h].seen
          /\ handler'[h].at = "issue" /\ handler[h].at = "settle"
      BY <1>13, <2>1, ToMoves DEF HandlerPoints, HandlerSettle, Serving
    <3>2. call' = call
      BY <1>13 DEF HandlerSettle, record
    <3> QED BY <1>5, <1>6, <3>1, <3>2 DEF Serves, Paying
  <2> QED BY <1>7, <1>13, <2>1 DEF HandlerSettle
<1>14. CASE HandlerIssue(h)
  BY <1>7, <1>14 DEF HandlerIssue
<1>15. CASE HandlerDrop(h)
  <2>1. CASE handler[h].at = "drop" /\ To(h, "reject")
    <3>1. /\ Moved(h) /\ handler'[h].seen = handler[h].seen /\ handler'[h].at = "reject"
      BY <2>1, ToMoves DEF HandlerPoints
    <3>2. call' = call
      BY <1>15 DEF HandlerDrop, record
    <3> QED BY <1>5, <1>6, <2>1, <3>1, <3>2 DEF Serves, Paying
  <2> QED BY <1>7, <1>15, <2>1 DEF HandlerDrop
<1>16. CASE HandlerReject(h)
  <2> DEFINE s == handler[h].seen
  <2>1. CASE To(h, "interrupted") /\ (call'.exchange = s.exchange => call'.phase = "failed")
    <3>1. /\ Moved(h) /\ handler'[h].seen = handler[h].seen /\ handler'[h].at = "interrupted"
      BY <2>1, ToMoves DEF HandlerPoints
    <3>2. handler[h].at # "idle"
      BY <1>16 DEF HandlerReject, Serving
    <3> QED BY <1>4, <1>5, <2>1, <3>1, <3>2 DEF Serves, Paying
  <2>2. SaveCall(Failed(FALSE)) => call'.phase = "failed"
    BY DEF SaveCall, Failed, TypeOK, Call
  <2>3. SaveCall(call) => call' = call
    BY DEF SaveCall
  <2> QED BY <1>7, <1>16, <2>1, <2>2, <2>3 DEF HandlerReject
<1> QED BY <1>9, <1>10, <1>11, <1>12, <1>13, <1>14, <1>15, <1>16 DEF Serve

\* handler' in Moved is TypeOK's.
LEMMA RequestsKept ==
  ASSUME TypeOK, Record, Attempted, ServesAll, [Next]_vars
  PROVE /\ ServesAll'
        /\ handler' \in [Handlers -> [at : HandlerPoints, pod : Pods, seen : Call]]
<1>1. call' \in Call /\ Moves
  BY StepKeeps, RecordMoves
<1>2. ManifestStays
  BY ManifestKept
<1>3. ASSUME NEW h \in Handlers, Moved(h), Serves(h)'
      PROVE /\ ServesAll'
            /\ handler' \in [Handlers -> [at : HandlerPoints, pod : Pods, seen : Call]]
  <2>1. ASSUME NEW k \in Handlers PROVE Serves(k)'
    <3>1. CASE k = h
      BY <1>3, <3>1
    <3>2. CASE k # h
      BY <1>1, <1>2, <1>3, <3>2, WaitsOn DEF Moved, ServesAll
    <3> QED BY <3>1, <3>2
  <2> QED BY <1>3, <2>1 DEF ServesAll, Moved, HandlerPoints
<1>4. CASE handler' = handler
  BY <1>1, <1>2, <1>4, WaitsOn DEF ServesAll, TypeOK, HandlerPoints
<1>5. ASSUME NEW h \in Handlers, Serve(h)
      PROVE Moved(h) /\ Serves(h)'
  BY <1>5, ServedOn
<1>6. ASSUME NEW h \in Handlers, NEW p \in Pods, Start(h, p)
      PROVE Moved(h) /\ Serves(h)'
  <2>1. PICK s \in {"view", "forget", "check"} :
          /\ s = "forget" => call.phase = "failed"
          /\ handler' = [handler EXCEPT ![h] = [at |-> s, pod |-> p, seen |-> call]]
    BY <1>6 DEF Start
  <2>2. call' = call /\ call \in Call /\ call.exchange \in Nat
    BY <1>6, ExchangeNat DEF Start, record, TypeOK, Call
  <2>3. handler'[h] = [at |-> s, pod |-> p, seen |-> call] /\ Moved(h)
    BY <2>1, <2>2 DEF Moved, TypeOK
  <2>4. handler'[h].at = s /\ handler'[h].seen = call
    BY <2>3
  <2> QED BY <2>1, <2>2, <2>3, <2>4 DEF Serves, Paying
<1>7. ASSUME NEW p \in Pods, Crash(p) \/ Lose(p)
      PROVE /\ ServesAll'
            /\ handler' \in [Handlers -> [at : HandlerPoints, pod : Pods, seen : Call]]
  <2>1. handler' = [h \in Handlers |-> IF handler[h].pod = p THEN Idle ELSE handler[h]]
    BY <1>7 DEF Crash, Lose
  <2>2. Idle \in [at : HandlerPoints, pod : Pods, seen : Call] /\ Idle.at = "idle"
    BY NewIsCall, ExchangeNat DEF Idle, HandlerPoints
  <2>3. handler' \in [Handlers -> [at : HandlerPoints, pod : Pods, seen : Call]]
    BY <2>1, <2>2 DEF TypeOK, HandlerPoints
  <2>4. ASSUME NEW h \in Handlers PROVE Serves(h)'
    <3>1. CASE handler'[h] = handler[h]
      BY <1>1, <1>2, <3>1, WaitsOn DEF ServesAll
    <3>2. CASE handler'[h] = Idle
      BY <2>2, <3>2 DEF Serves, Paying
    <3> QED BY <2>1, <3>1, <3>2
  <2> QED BY <2>3, <2>4 DEF ServesAll
<1>8. ASSUME NEW p \in Pods, NEW x \in Exchanges, Connect(p, x) \/ Capture(p, x)
      PROVE handler' = handler
  BY <1>8 DEF Connect, Capture, Claim, OpenCapture, Handshake, Verify, Permit, Reserve, Authorize,
              CheckAgain, Release, Respond, SaveManifest, Finish, Settle, Issue, Fail, Drop, Reject,
              Clean, Recover, Reclaim
<1>9. ASSUME LateWrite \/ Select \/ UNCHANGED vars
      PROVE handler' = handler
  BY <1>9 DEF LateWrite, Select, vars
<1> QED BY <1>3, <1>4, <1>5, <1>6, <1>7, <1>8, <1>9 DEF Next

-----------------------------------------------------------------------------
(* The ledger.                                                             *)

\* Whoever is committed to a result is of the current attempt, and stays so
\* until it is the call's.
Goers ==
  /\ \A p \in Pods : job'[p][call.exchange] = "issue" => job[p][call.exchange] = "issue"
  /\ \A h \in Handlers : handler'[h].at = "issue" => handler'[h] = handler[h]

LateStays == \A c \in lateCall' : c.phase = "issued" => c \in lateCall \/ Committed

LEMMA CommitmentIsOld ==
  ASSUME TypeOK, Record, Attempted, ServesAll, Moves, LateStays, call' \in Call,
         Committed', call'.phase = "capturing" => Goers
  PROVE Committed /\ call'.exchange = call.exchange
<1>1. call.exchange \in Exchanges
  BY DEF TypeOK, Call
<1>2. CASE Again
  BY <1>2 DEF Again, Committed
<1>3. CASE Same
  <2>1. call'.exchange = call.exchange
    BY <1>3 DEF Same
  <2>2. CASE call'.phase = "issued"
    BY <1>3, <2>1, <2>2 DEF Same
  <2>3. CASE \E c \in lateCall' : c.phase = "issued"
    BY <2>1, <2>3 DEF LateStays, Committed
  <2>4. CASE call'.phase = "capturing" /\ \E p \in Pods : job'[p][call'.exchange] = "issue"
    <3>1. PICK p \in Pods : job[p][call.exchange] = "issue"
      BY <2>1, <2>4 DEF Goers
    <3>2. call.phase \in Claims
      BY <3>1 DEF Attempted, Owned, Owning, Working
    <3>3. call.phase = "capturing"
      BY <1>3, <2>4, <3>2 DEF Same, Claims
    <3> QED BY <2>1, <3>1, <3>3 DEF Committed
  <2>5. CASE /\ call'.phase = "capturing"
             /\ \E h \in Handlers : handler'[h].at = "issue" /\ handler'[h].seen.exchange = call'.exchange
    <3>1. PICK h \in Handlers : handler[h].at = "issue" /\ handler[h].seen.exchange = call.exchange
      BY <2>1, <2>5 DEF Goers
    <3>2. manifest[call.exchange] = "good"
      BY <3>1 DEF ServesAll, Serves, Paying
    <3>3. call.phase \notin Unclaimed
      BY <1>1, <3>2 DEF Attempted, Evidence, SentOnce, Record
    <3>4. call.phase = "capturing"
      BY <1>3, <2>5, <3>3 DEF Same, Unclaimed
    <3> QED BY <2>1, <3>1, <3>4 DEF Committed
  <2> QED BY <2>1, <2>2, <2>3, <2>4, <2>5 DEF Committed
<1> QED BY <1>2, <1>3 DEF Moves

\* A call that has failed is not about to be issued.
LEMMA FailedIsUncommitted ==
  ASSUME Record, call.phase = "failed"
  PROVE ~Committed
BY DEF Record, Committed, Legal, Unclaimed

\* What the ledger may do while nobody settles.
Spared == (lateCharge' # {} => charge' = {}) /\ (Committed => charge' = charge)

LEMMA LedgerTypes ==
  ASSUME TypeOK, NEW x \in Exchanges, NEW b \in BOOLEAN,
         \/ UNCHANGED ledger \/ SaveCharge({[exchange |-> x, settled |-> b]}) \/ SaveCharge({})
         \/ lateCharge' = lateCharge \cup {x} /\ UNCHANGED charge
  PROVE /\ charge' \subseteq Charge /\ Cardinality(charge') <= 1
        /\ lateCharge' \subseteq Exchanges
<1>1. CASE UNCHANGED charge /\ (UNCHANGED lateCharge \/ lateCharge' = lateCharge \cup {x})
  BY <1>1 DEF TypeOK
<1>2. CASE lateCharge' = {} /\ (charge' = {} \/ charge' = {[exchange |-> x, settled |-> b]})
  BY <1>2, ChargeTypes
<1> QED BY <1>1, <1>2 DEF SaveCharge, ledger

LEMMA DiscardSpares ==
  ASSUME TypeOK, Paid, NEW x \in Exchanges, Discard(x), Committed => x # call.exchange
  PROVE /\ Spared
        /\ charge' \subseteq Charge /\ Cardinality(charge') <= 1
        /\ lateCharge' \subseteq Exchanges
<1>1. CASE UNCHANGED ledger
  BY <1>1, LedgerTypes DEF ledger, Spared, Paid
<1>2. CASE SaveCharge({}) /\ \A c \in charge : c.exchange = x
  <2>1. ~Committed
    <3>1. SUFFICES ASSUME Committed PROVE FALSE
      OBVIOUS
    <3>2. charge = {[exchange |-> call.exchange, settled |-> TRUE]} /\ x # call.exchange
      BY <3>1 DEF Paid, Settled
    <3> QED BY <1>2, <3>2
  <2> QED BY <1>2, <2>1, LedgerTypes DEF Spared, SaveCharge
<1> QED BY <1>1, <1>2 DEF Discard

LEMMA SpareKeeps ==
  ASSUME TypeOK, Record, Attempted, ServesAll, Paid, Moves, LateStays, call' \in Call, ManifestStays,
         Spared, Goers
  PROVE Paid'
<1>1. ASSUME Committed' PROVE manifest'[call'.exchange] = "good" /\ charge' = Settled(call'.exchange)
  <2>1. Committed /\ call'.exchange = call.exchange
    BY <1>1, CommitmentIsOld
  <2> QED BY <2>1 DEF Paid, Spared, ManifestStays, Whole
<1> QED BY <1>1 DEF Paid, Spared, Settled

\* Only the attempt of the charge is settled.
LEMMA SettleKeeps ==
  ASSUME TypeOK, Record, Attempted, ServesAll, Paid, UNCHANGED <<record, manifest>>,
         NEW x \in Exchanges, MaySettle(x), SaveCharge(Settled(x)),
         x = call.exchange => manifest[x] = "good",
         x # call.exchange => Goers
  PROVE /\ Paid'
        /\ charge' \subseteq Charge /\ Cardinality(charge') <= 1
        /\ lateCharge' \subseteq Exchanges
<1>1. /\ charge' \subseteq Charge /\ Cardinality(charge') <= 1
      /\ lateCharge' \subseteq Exchanges
  BY LedgerTypes DEF Settled
<1>2. charge' = Settled(x) /\ lateCharge' = {} /\ call' = call /\ lateCall' = lateCall
  BY DEF SaveCharge, record
<1>3. CASE x = call.exchange
  BY <1>1, <1>2, <1>3 DEF Paid, Settled
<1>4. CASE x # call.exchange
  <2>1. ~Committed
    <3>1. SUFFICES ASSUME Committed PROVE FALSE
      OBVIOUS
    <3>2. charge = {[exchange |-> call.exchange, settled |-> TRUE]}
      BY <3>1 DEF Paid, Settled
    <3> QED BY <1>4, <3>2 DEF MaySettle
  <2>2. RecordStep
    BY DEF RecordStep
  <2>3. Moves /\ call' \in Call /\ LateStays
    BY <2>2, RecordMoves DEF LateStays
  <2>4. ~Committed'
    BY <1>4, <2>1, <2>3, CommitmentIsOld
  <2> QED BY <1>1, <1>2, <2>4 DEF Paid
<1> QED BY <1>3, <1>4

LEMMA CapturePays ==
  ASSUME TypeOK, Record, Attempted, ServesAll, Paid,
         NEW p \in Pods, NEW x \in Exchanges, Connect(p, x) \/ Capture(p, x)
  PROVE /\ Paid'
        /\ charge' \subseteq Charge /\ Cardinality(charge') <= 1
        /\ lateCharge' \subseteq Exchanges
<1>1. call' \in Call /\ Moves /\ LateStays /\ ManifestStays
  BY StepKeeps, RecordMoves, ManifestKept DEF Next, LateStays
<1>2. handler' = handler
  BY DEF Connect, Capture, Claim, OpenCapture, Handshake, Verify, Permit, Reserve, Authorize,
         CheckAgain, Release, Respond, SaveManifest, Finish, Settle, Issue, Fail, Drop, Reject,
         Clean, Recover, Reclaim
<1>3. ASSUME NEW s \in Points \ {"issue"}, Go(p, x, s) PROVE Goers
  <2>1. \A q \in Pods, y \in Exchanges : job'[q][y] = "issue" => job[q][y] = "issue"
    BY <1>3, GoMoves
  <2> QED BY <1>2, <2>1 DEF Goers, TypeOK, Call
<1>4. ASSUME UNCHANGED ledger PROVE Spared
  BY <1>4 DEF ledger, Spared, Paid
<1> USE DEF Points, Working
<1>5. CASE Reserve(p, x)
  <2>1. Goers
    BY <1>3, <1>5 DEF Reserve
  <2>2. UNCHANGED ledger \/ charge = {}
    BY <1>5 DEF Reserve
  <2>3. Committed => UNCHANGED ledger
    BY <2>2 DEF Paid, Settled
  <2>4. /\ charge' \subseteq Charge /\ Cardinality(charge') <= 1
        /\ lateCharge' \subseteq Exchanges
    BY <1>5, LedgerTypes DEF Reserve, UncertainCharge
  <2>5. lateCharge' # {} => charge' = {}
    BY <1>5 DEF Reserve, UncertainCharge, SaveCharge, ledger, Paid
  <2>6. Spared
    BY <2>3, <2>5 DEF Spared, ledger
  <2> QED BY <1>1, <2>1, <2>4, <2>6, SpareKeeps
<1>6. CASE Drop(p, x)
  <2>1. Goers
    BY <1>3, <1>6 DEF Drop
  <2>2. x = call.exchange => manifest[x] # "good"
    BY <1>6 DEF Drop, At, Attempted, Stages, Stage, Failing
  <2>3. Committed => x # call.exchange
    BY <2>2 DEF Paid
  <2>4. /\ Spared
        /\ charge' \subseteq Charge /\ Cardinality(charge') <= 1
        /\ lateCharge' \subseteq Exchanges
    BY <1>6, <2>3, DiscardSpares DEF Drop
  <2> QED BY <1>1, <2>1, <2>4, SpareKeeps
<1>7. CASE Settle(p, x)
  <2>1. CASE ~MaySettle(x)
    <3>1. Goers /\ UNCHANGED ledger
      BY <1>3, <1>7, <2>1 DEF Settle
    <3> QED BY <1>1, <1>4, <3>1, SpareKeeps, LedgerTypes
  <2>2. CASE MaySettle(x) /\ SaveCharge(Settled(x)) /\ Go(p, x, "issue")
    <3>1. x = call.exchange => manifest[x] = "good"
      BY <1>7 DEF Settle, At, Attempted, Stages, Stage, Paying
    <3>2. x # call.exchange => Goers
      <4>1. \A q \in Pods, y \in Exchanges : y # x => job'[q][y] = job[q][y]
        BY <2>2, GoMoves
      <4> QED BY <1>2, <4>1 DEF Goers, TypeOK, Call
    <3> QED BY <1>7, <2>2, <3>1, <3>2, SettleKeeps DEF Settle
  <2> QED BY <1>7, <2>1, <2>2 DEF Settle
\* The other steps leave the ledger alone and do not settle.
<1>8. CASE Connect(p, x) \/ OpenCapture(p, x)
  <2>1. Goers /\ UNCHANGED ledger
    BY <1>2, <1>3, <1>8 DEF Connect, OpenCapture, Goers
  <2> QED BY <1>1, <1>4, <2>1, SpareKeeps, LedgerTypes
<1>9. CASE Claim(p, x) \/ Reclaim(p, x) \/ Authorize(p, x) \/ Issue(p, x) \/ Reject(p, x)
  <2>1. Goers /\ UNCHANGED ledger
    BY <1>3, <1>9 DEF Claim, Reclaim, Authorize, Issue, Reject
  <2> QED BY <1>1, <1>4, <2>1, SpareKeeps, LedgerTypes
<1>10. CASE \/ Handshake(p, x) \/ Verify(p, x) \/ Permit(p, x) \/ CheckAgain(p, x)
            \/ Release(p, x) \/ Respond(p, x) \/ Clean(p, x)
  <2>1. Goers /\ UNCHANGED ledger
    BY <1>3, <1>10 DEF Handshake, Verify, Permit, CheckAgain, Release, Respond, Clean
  <2> QED BY <1>1, <1>4, <2>1, SpareKeeps, LedgerTypes
<1>11. CASE SaveManifest(p, x) \/ Finish(p, x) \/ Fail(p, x)
  <2>1. Goers /\ UNCHANGED ledger
    BY <1>3, <1>11 DEF SaveManifest, Finishing, Finish, Fail
  <2> QED BY <1>1, <1>4, <2>1, SpareKeeps, LedgerTypes
<1>12. CASE Recover(p, x)
  <2>1. Goers /\ UNCHANGED ledger
    <3>1. UNCHANGED ledger
      BY <1>12 DEF Recover
    <3>2. \E s \in Points \ {"issue"} : Go(p, x, s)
      BY <1>12, RecoverGoes DEF Recover
    <3> QED BY <1>3, <3>1, <3>2
  <2> QED BY <1>1, <1>4, <2>1, SpareKeeps, LedgerTypes
<1> QED BY <1>5, <1>6, <1>7, <1>8, <1>9, <1>10, <1>11, <1>12 DEF Capture

LEMMA ServePays ==
  ASSUME TypeOK, Record, Attempted, ServesAll, Paid, NEW h \in Handlers, Serve(h)
  PROVE /\ Paid'
        /\ charge' \subseteq Charge /\ Cardinality(charge') <= 1
        /\ lateCharge' \subseteq Exchanges
<1> DEFINE x == handler[h].seen.exchange
<1>1. call' \in Call /\ Moves /\ LateStays /\ ManifestStays
  BY StepKeeps, RecordMoves, ManifestKept DEF Next, LateStays
<1>2. job' = job
  BY DEF Serve, Forget, Check, Assign, View, HandlerSettle, HandlerIssue, HandlerDrop, HandlerReject
<1>3. x \in Exchanges
  BY DEF TypeOK, Call
<1>4. ASSUME \/ End(h)
             \/ \E s \in HandlerPoints \ {"issue"} : To(h, s)
             \/ handler' = [handler EXCEPT ![h].at = "view", ![h].seen = call']
      PROVE Goers
  <2>1. Moved(h) /\ handler'[h].at # "issue"
    <3>1. CASE End(h)
      BY <3>1, EndMoves
    <3>2. ASSUME NEW s \in HandlerPoints \ {"issue"}, To(h, s)
          PROVE Moved(h) /\ handler'[h].at # "issue"
      BY <3>2, ToMoves
    <3>3. CASE handler' = [handler EXCEPT ![h].at = "view", ![h].seen = call']
      BY <1>1, <3>3 DEF Moved, TypeOK
    <3> QED BY <1>4, <3>1, <3>2, <3>3
  <2> QED BY <1>2, <2>1 DEF Goers, Moved
<1>5. ASSUME UNCHANGED ledger PROVE Spared
  BY <1>5 DEF ledger, Spared, Paid
<1> HIDE DEF x
<1>6. CASE Forget(h)
  <2>1. Goers
    BY <1>4, <1>6 DEF Forget, HandlerPoints
  <2>2. x = call.exchange => call.phase = "failed"
    BY <1>6 DEF Forget, Serving, ServesAll, Serves, x
  <2>3. Committed => x # call.exchange
    BY <2>2, FailedIsUncommitted
  <2>4. Discard(x)
    BY <1>6 DEF Forget, x
  <2> QED BY <1>1, <1>3, <2>1, <2>3, <2>4, DiscardSpares, SpareKeeps
<1>7. CASE HandlerDrop(h)
  <2>1. Goers
    BY <1>4, <1>7 DEF HandlerDrop, HandlerPoints
  <2>2. x = call.exchange => call.phase = "failed" \/ manifest[x] = "bad"
    BY <1>7 DEF HandlerDrop, Serving, ServesAll, Serves, x
  <2>3. Committed => x # call.exchange
    BY <2>2, FailedIsUncommitted DEF Paid
  <2>4. Discard(x)
    BY <1>7 DEF HandlerDrop, x
  <2> QED BY <1>1, <1>3, <2>1, <2>3, <2>4, DiscardSpares, SpareKeeps
<1>8. CASE HandlerSettle(h)
  <2>1. CASE ~MaySettle(x)
    <3>1. Goers /\ UNCHANGED ledger
      BY <1>4, <1>8, <2>1 DEF HandlerSettle, x
    <3> QED BY <1>1, <1>3, <1>5, <3>1, SpareKeeps, LedgerTypes
  <2>2. CASE MaySettle(x) /\ SaveCharge(Settled(x)) /\ To(h, "issue")
    <3>1. x = call.exchange => manifest[x] = "good"
      BY <1>8 DEF HandlerSettle, Serving, ServesAll, Serves, Paying, x
    <3>2. CASE x = call.exchange
      BY <1>3, <1>8, <2>2, <3>1, <3>2, SettleKeeps DEF HandlerSettle
    <3>3. CASE x # call.exchange
      \* What this request goes for is not the current attempt.
      <4>1. Moved(h) /\ handler'[h].seen = handler[h].seen
        BY <2>2, ToMoves DEF HandlerPoints
      <4>2. charge' = Settled(x) /\ lateCharge' = {}
        BY <2>2 DEF SaveCharge
      <4>3. ~Committed
        <5>1. SUFFICES ASSUME Committed PROVE FALSE
          OBVIOUS
        <5>2. charge = {[exchange |-> call.exchange, settled |-> TRUE]}
          BY <5>1 DEF Paid, Settled
        <5> QED BY <2>2, <3>3, <5>2 DEF MaySettle
      <4>4. ~Committed'
        <5>1. call' = call /\ lateCall' = lateCall
          BY <1>8 DEF HandlerSettle, record
        <5>2. \A k \in Handlers : handler'[k].at = "issue" /\ handler'[k].seen.exchange = call.exchange
                => handler'[k] = handler[k]
          BY <3>3, <4>1 DEF Moved, x
        <5> QED BY <1>2, <4>3, <5>1, <5>2 DEF Committed
      <4>5. /\ charge' \subseteq Charge /\ Cardinality(charge') <= 1
            /\ lateCharge' \subseteq Exchanges
        BY <1>3, <2>2, LedgerTypes DEF Settled
      <4> QED BY <4>2, <4>4, <4>5 DEF Paid
    <3> QED BY <3>2, <3>3
  <2> QED BY <1>8, <2>1, <2>2 DEF HandlerSettle, x
<1>9. CASE Check(h) \/ View(h)
  <2>1. Goers /\ UNCHANGED ledger
    BY <1>4, <1>9 DEF Check, View, HandlerPoints
  <2> QED BY <1>1, <1>3, <1>5, <2>1, SpareKeeps, LedgerTypes
<1>10. CASE Assign(h)
  <2>1. Goers /\ UNCHANGED ledger
    BY <1>4, <1>10 DEF Assign
  <2> QED BY <1>1, <1>3, <1>5, <2>1, SpareKeeps, LedgerTypes
<1>11. CASE HandlerIssue(h)
  <2>1. Goers /\ UNCHANGED ledger
    BY <1>4, <1>11 DEF HandlerIssue
  <2> QED BY <1>1, <1>3, <1>5, <2>1, SpareKeeps, LedgerTypes
<1>12. CASE HandlerReject(h)
  <2>1. Goers /\ UNCHANGED ledger
    <3>1. CASE handler' = handler
      BY <1>2, <3>1, <1>12 DEF Goers, HandlerReject
    <3> QED BY <1>4, <1>12, <3>1 DEF HandlerReject, HandlerPoints
  <2> QED BY <1>1, <1>3, <1>5, <2>1, SpareKeeps, LedgerTypes
<1> QED BY <1>6, <1>7, <1>8, <1>9, <1>10, <1>11, <1>12 DEF Serve

LEMMA OtherPays ==
  ASSUME TypeOK, Record, Attempted, ServesAll, Paid,
         \/ LateWrite \/ Select
         \/ \E p \in Pods : Crash(p) \/ Lose(p) \/ \E h \in Handlers : Start(h, p)
         \/ UNCHANGED vars
  PROVE /\ Paid'
        /\ charge' \subseteq Charge /\ Cardinality(charge') <= 1
        /\ lateCharge' \subseteq Exchanges
<1>1. [Next]_vars
  BY DEF Next
<1>2. call' \in Call /\ Moves /\ LateStays /\ ManifestStays
  BY <1>1, StepKeeps, RecordMoves, ManifestKept DEF LateStays
<1>3. \A p \in Pods : job'[p][call.exchange] = "issue" => job[p][call.exchange] = "issue"
  <2>1. call.exchange \in Exchanges
    BY DEF TypeOK, Call
  <2>2. CASE LateWrite
    BY <2>2 DEF LateWrite
  <2> QED BY <2>1, <2>2, OtherKeeps
<1>4. \A h \in Handlers : handler'[h].at = "issue" => handler'[h] = handler[h]
  <2>1. Idle.at = "idle"
    BY DEF Idle
  <2>2. ASSUME NEW p \in Pods, Crash(p) \/ Lose(p)
        PROVE \A h \in Handlers : handler'[h] \in {Idle, handler[h]}
    BY <2>2 DEF Crash, Lose
  <2>3. ASSUME NEW p \in Pods, NEW h \in Handlers, Start(h, p)
        PROVE handler'[h].at # "issue" /\ \A k \in Handlers : k # h => handler'[k] = handler[k]
    <3>1. PICK s \in {"view", "forget", "check"} :
            handler' = [handler EXCEPT ![h] = [at |-> s, pod |-> p, seen |-> call]]
      BY <2>3 DEF Start
    <3> QED BY <3>1 DEF TypeOK
  <2>4. LateWrite \/ Select \/ UNCHANGED vars => handler' = handler
    BY DEF LateWrite, Select, vars
  <2> QED BY <2>1, <2>2, <2>3, <2>4
<1>5. Goers
  BY <1>3, <1>4 DEF Goers
<1>6. ASSUME UNCHANGED ledger PROVE Spared
  BY <1>6 DEF ledger, Spared, Paid
<1>7. CASE UNCHANGED ledger
  BY <1>2, <1>5, <1>6, <1>7, SpareKeeps, LedgerTypes, ExchangeNat
<1>8. ASSUME NEW x \in lateCharge, SaveCharge({[exchange |-> x, settled |-> FALSE]})
      PROVE /\ Paid'
            /\ charge' \subseteq Charge /\ Cardinality(charge') <= 1
            /\ lateCharge' \subseteq Exchanges
  <2>1. x \in Exchanges
    BY DEF TypeOK
  <2>2. ~Committed
    BY DEF Paid, Settled
  <2>3. Spared
    BY <1>8, <2>2 DEF Spared, SaveCharge
  <2> QED BY <1>2, <1>5, <1>8, <2>1, <2>3, SpareKeeps, LedgerTypes
<1> QED BY <1>7, <1>8 DEF LateWrite, Select, Crash, Lose, Start, vars, ledger

-----------------------------------------------------------------------------
(* The invariant is inductive.                                             *)

LEMMA Beginning == Init => IInv
<1> SUFFICES ASSUME Init PROVE IInv
  OBVIOUS
<1> USE DEF Init
<1>1. /\ call.exchange = 1 /\ call.pod = 0 /\ call.phase = "reserved"
      /\ call.authorized = FALSE /\ call.not_dispatched = FALSE
  BY DEF NewCall
<1>2. \A p \in Pods, x \in Exchanges : job[p][x] = "idle" /\ spool[p][x] = "none"
  OBVIOUS
<1>3. \A x \in Exchanges : manifest[x] = "none" /\ sent[x] = 0
  OBVIOUS
<1>4. Idle \in [at : HandlerPoints, pod : Pods, seen : Call] /\ Idle.at = "idle"
  BY NewIsCall, ExchangeNat DEF Idle, HandlerPoints
<1>5. TypeOK
  <2>1. faults \in 0 .. MaxFaults
    BY CallsAssumption
  <2>2. charge \subseteq Charge /\ Cardinality(charge) <= 1
    BY ChargeTypes
  <2>3. /\ job \in [Pods -> [Exchanges -> Working \cup {"idle"}]]
        /\ spool \in [Pods -> [Exchanges -> Spools]]
        /\ manifest \in [Exchanges -> {"none", "good", "bad"}]
        /\ sent \in [Exchanges -> Nat]
    BY DEF Spools
  <2>4. handler \in [Handlers -> [at : HandlerPoints, pod : Pods, seen : Call]]
    BY <1>4
  <2> QED BY <2>1, <2>2, <2>3, <2>4, NewIsCall, ExchangeNat DEF TypeOK, HandlerPoints
<1>6. Record
  BY <1>1 DEF Record, Unclaimed
<1>7. Unborn /\ Owned /\ Tokens /\ SentOnce /\ Evidence
  <2>1. call.exchange \in Exchanges
    BY <1>1, ExchangeNat
  <2> QED BY <1>2, <1>3, <2>1 DEF Unborn, Owned, Tokens, SentOnce, Evidence, Owning, Working, Whole, Token
<1>8. Stages
  BY <1>1, <1>2, ExchangeNat DEF Stages, Stage, Early, Failing, Paying
<1>9. ServesAll
  BY <1>4 DEF ServesAll, Serves, Paying
<1>10. Paid
  BY <1>1, <1>2, <1>4, ExchangeNat DEF Paid, Committed
<1> QED BY <1>5, <1>6, <1>7, <1>8, <1>9, <1>10 DEF IInv

\* What a job does to its place, its directory and what was sent.
LEMMA CaptureTypes ==
  ASSUME TypeOK, Record, NEW p \in Pods, NEW x \in Exchanges, Connect(p, x) \/ Capture(p, x)
  PROVE /\ job' \in [Pods -> [Exchanges -> Points]]
        /\ spool' \in [Pods -> [Exchanges -> Spools]]
        /\ UNCHANGED <<selected, gone>>
<1> USE DEF Points, Working
<1>1. ASSUME NEW s \in Points, Go(p, x, s) PROVE job' \in [Pods -> [Exchanges -> Points]]
  BY <1>1, GoMoves
<1>2. ASSUME NEW s \in Spools, Put(p, x, s) PROVE spool' \in [Pods -> [Exchanges -> Spools]]
  BY <1>2, PutMoves
<1>3. CASE Connect(p, x) \/ Clean(p, x)
  BY <1>1, <1>2, <1>3 DEF Connect, Clean, Spools
<1>4. CASE OpenCapture(p, x)
  BY <1>2, <1>4 DEF OpenCapture, Spools, TypeOK
<1>5. CASE Respond(p, x)
  <2>1. spool' \in [Pods -> [Exchanges -> Spools]]
    BY <1>2, <1>5 DEF Respond, Spools, TypeOK
  <2> QED BY <1>1, <1>5, <2>1 DEF Respond
<1>6. CASE Recover(p, x)
  BY <1>1, <1>6, RecoverGoes DEF Recover, TypeOK
<1>7. CASE \/ Claim(p, x) \/ Reclaim(p, x) \/ Authorize(p, x) \/ Issue(p, x) \/ Reject(p, x)
  BY <1>1, <1>7 DEF Claim, Reclaim, Authorize, Issue, Reject, TypeOK
<1>8. CASE \/ Handshake(p, x) \/ Verify(p, x) \/ Permit(p, x) \/ Reserve(p, x)
           \/ CheckAgain(p, x) \/ Release(p, x)
  BY <1>1, <1>8 DEF Handshake, Verify, Permit, Reserve, CheckAgain, Release, TypeOK
<1>9. CASE \/ SaveManifest(p, x) \/ Finish(p, x) \/ Settle(p, x) \/ Fail(p, x) \/ Drop(p, x)
  BY <1>1, <1>9 DEF SaveManifest, Finishing, Finish, Settle, Fail, Drop, TypeOK
<1> QED BY <1>3, <1>4, <1>5, <1>6, <1>7, <1>8, <1>9 DEF Capture

\* A request goes out by the release of its attempt and in no other way.
LEMMA OnlyReleaseSends ==
  ASSUME [Next]_vars
  PROVE \/ sent' = sent
        \/ \E p \in Pods, x \in Exchanges :
             job[p][x] = "release" /\ sent' = [sent EXCEPT ![x] = @ + 1] /\ UNCHANGED record
<1>1. ASSUME NEW p \in Pods, NEW x \in Exchanges, Connect(p, x) \/ Capture(p, x)
      PROVE \/ sent' = sent
            \/ job[p][x] = "release" /\ sent' = [sent EXCEPT ![x] = @ + 1] /\ UNCHANGED record
  BY <1>1 DEF Connect, Capture, Claim, OpenCapture, Handshake, Verify, Permit, Reserve, Authorize,
              CheckAgain, Release, Respond, SaveManifest, Finish, Settle, Issue, Fail, Drop, Reject,
              Clean, Recover, Reclaim, At
<1>2. ASSUME NEW h \in Handlers, Serve(h) \/ \E p \in Pods : Start(h, p)
      PROVE sent' = sent
  BY <1>2 DEF Serve, Forget, Check, Assign, View, HandlerSettle, HandlerIssue, HandlerDrop,
              HandlerReject, Start
<1>3. ASSUME \/ \E p \in Pods : Crash(p) \/ Lose(p)
             \/ LateWrite \/ Select \/ UNCHANGED vars
      PROVE sent' = sent
  BY <1>3 DEF Crash, Lose, LateWrite, Select, vars
<1> QED BY <1>1, <1>2, <1>3 DEF Next

LEMMA PlaceTypes ==
  ASSUME TypeOK, Record, Attempted, [Next]_vars
  PROVE /\ job' \in [Pods -> [Exchanges -> Points]]
        /\ spool' \in [Pods -> [Exchanges -> Spools]]
        /\ sent' \in [Exchanges -> Nat]
        /\ selected' \in Pods /\ gone' \subseteq Pods
<1>1. sent' \in [Exchanges -> Nat]
  BY OnlyReleaseSends DEF TypeOK
<1>2. selected' \in Pods /\ gone' \subseteq Pods
  <2>1. ASSUME NEW p \in Pods, NEW x \in Exchanges, Connect(p, x) \/ Capture(p, x)
        PROVE UNCHANGED <<selected, gone>>
    BY <2>1, CaptureTypes
  <2>2. ASSUME NEW h \in Handlers, Serve(h) \/ \E p \in Pods : Start(h, p)
        PROVE UNCHANGED <<selected, gone>>
    BY <2>2 DEF Serve, Forget, Check, Assign, View, HandlerSettle, HandlerIssue, HandlerDrop,
                HandlerReject, Start
  <2>3. ASSUME \/ \E p \in Pods : Crash(p) \/ Lose(p)
               \/ LateWrite \/ Select \/ UNCHANGED vars
        PROVE selected' \in Pods /\ gone' \subseteq Pods
    BY <2>3 DEF Crash, Lose, LateWrite, Select, vars, TypeOK
  <2> QED BY <2>1, <2>2, <2>3 DEF Next, TypeOK
<1>3. /\ job' \in [Pods -> [Exchanges -> Points]]
      /\ spool' \in [Pods -> [Exchanges -> Spools]]
  <2>1. ASSUME NEW p \in Pods, NEW x \in Exchanges, Connect(p, x) \/ Capture(p, x)
        PROVE /\ job' \in [Pods -> [Exchanges -> Points]]
              /\ spool' \in [Pods -> [Exchanges -> Spools]]
    BY <2>1, CaptureTypes
  <2>2. ASSUME NEW h \in Handlers, Serve(h)
        PROVE UNCHANGED <<job, spool>>
    BY <2>2 DEF Serve, Forget, Check, Assign, View, HandlerSettle, HandlerIssue, HandlerDrop,
                HandlerReject
  <2>3. LateWrite => UNCHANGED <<job, spool>>
    BY DEF LateWrite
  <2> QED BY <2>1, <2>2, <2>3, OtherKeeps DEF Next, TypeOK, Points
<1> QED BY <1>1, <1>2, <1>3

LEMMA LedgerKept ==
  ASSUME TypeOK, Record, Attempted, ServesAll, Paid, [Next]_vars
  PROVE /\ Paid'
        /\ charge' \subseteq Charge /\ Cardinality(charge') <= 1
        /\ lateCharge' \subseteq Exchanges
BY CapturePays, ServePays, OtherPays DEF Next

LEMMA Step == IInv /\ [Next]_vars => IInv'
<1> SUFFICES ASSUME IInv, [Next]_vars PROVE IInv'
  OBVIOUS
<1>1. TypeOK /\ Record /\ Attempted /\ ServesAll /\ Paid
  BY DEF IInv, Attempted
<1>2. RecordStep /\ Attempted' /\ faults' \in 0 .. MaxFaults
  BY <1>1, StepKeeps
<1>3. call' \in Call /\ lateCall' \subseteq Call /\ undispatched' \subseteq Exchanges /\ Record'
  BY <1>1, <1>2, RecordMoves
<1>4. ServesAll' /\ handler' \in [Handlers -> [at : HandlerPoints, pod : Pods, seen : Call]]
  BY <1>1, RequestsKept
<1>5. /\ Paid'
      /\ charge' \subseteq Charge /\ Cardinality(charge') <= 1
      /\ lateCharge' \subseteq Exchanges
  BY <1>1, LedgerKept
<1>6. manifest' \in [Exchanges -> {"none", "good", "bad"}]
  BY <1>1, ManifestKept
<1>7. TypeOK'
  BY <1>1, <1>2, <1>3, <1>4, <1>5, <1>6, PlaceTypes DEF TypeOK, HandlerPoints, Points
<1> QED BY <1>2, <1>3, <1>4, <1>5, <1>7 DEF IInv, Attempted

THEOREM Invariance == Spec => []IInv
BY Beginning, Step, PTL DEF Spec

\* The variables keep their types.
THEOREM TypeCorrectness == Spec => []TypeOK
<1>1. IInv => TypeOK
  BY DEF IInv
<1> QED BY <1>1, Invariance, PTL

\* While a result is the call's, the ledger has its attempt's settled charge: no
\* retry, drop, late PUT or other Pod's recovery discards or replaces it.
THEOREM ResultIsPaidFor == Spec => []IssuedIsSettled
<1>1. IInv => IssuedIsSettled
  BY DEF IInv, Paid, Committed, IssuedIsSettled
<1> QED BY <1>1, Invariance, PTL

-----------------------------------------------------------------------------
(* The call implements Attempts.                                           *)

LEMMA PromiseBegins == Init => Promise!Init
BY DEF Init, NewCall, Promise!Init

LEMMA PromiseStep == IInv /\ [Next]_vars => [Promise!Next]_(Promise!vars)
<1> SUFFICES ASSUME IInv, [Next]_vars PROVE [Promise!Next]_(Promise!vars)
  OBVIOUS
<1>1. TypeOK /\ Record /\ Attempted /\ Paid
  BY DEF IInv, Attempted
<1>2. call' \in Call /\ Moves
  BY <1>1, StepKeeps, RecordMoves
<1>3. /\ call.exchange \in Exchanges /\ call.exchange \in Nat
      /\ call.phase \in {"reserved", "assigned", "capturing", "issued", "failed"}
      /\ call'.phase \in {"reserved", "assigned", "capturing", "issued", "failed"}
  BY <1>1, <1>2, ExchangeNat DEF TypeOK, Call
<1>4. ASSUME NEW p \in Pods, NEW x \in Exchanges, job[p][x] = "release",
             sent' = [sent EXCEPT ![x] = @ + 1], UNCHANGED record
      PROVE Promise!Send(x)
  <2>1. sent[x] = 0 /\ x \notin undispatched
    BY <1>1, <1>4 DEF Attempted, Tokens, Token
  <2>2. sent' = [sent EXCEPT ![x] = 1]
    BY <1>1, <1>4, <2>1 DEF TypeOK
  <2> QED BY <1>4, <2>1, <2>2 DEF Promise!Send, record
<1>5. CASE sent' = sent
  <2>1. CASE Again
    <3>1. call'.exchange # call.exchange
      BY <1>3, <2>1 DEF Again
    <3>2. undispatched' = undispatched
      BY <1>2, <3>1 DEF Moves, Undispatches
    <3>3. Promise!Retry
      BY <1>5, <2>1, <3>2 DEF Again, Promise!Retry
    <3> QED BY <3>3 DEF Promise!Next
  <2>2. CASE Same
    <3>1. CASE call.phase \in {"issued", "failed"}
      <4>1. /\ call'.exchange = call.exchange /\ call'.phase = call.phase
            /\ undispatched' = undispatched
        BY <1>2, <2>2, <3>1 DEF Same, Moves, Undispatches
      <4> QED BY <1>5, <4>1 DEF Promise!vars
    <3>2. CASE call.phase \notin {"issued", "failed"} /\ call'.phase = "issued"
      <4>1. Committed /\ call'.exchange = call.exchange /\ undispatched' = undispatched
        BY <1>2, <2>2, <3>2 DEF Same, Moves, Undispatches
      <4>2. sent[call.exchange] = 1
        BY <1>1, <1>3, <4>1 DEF Paid, Attempted, Evidence
      <4>3. Promise!Complete
        BY <1>5, <3>2, <4>1, <4>2 DEF Promise!Complete
      <4> QED BY <4>3 DEF Promise!Next
    <3>3. CASE call.phase \notin {"issued", "failed"} /\ call'.phase = "failed"
      <4>1. call'.exchange = call.exchange
        BY <2>2 DEF Same
      <4>2. \/ undispatched' = undispatched
            \/ /\ undispatched' = undispatched \cup {call.exchange}
               /\ ~call.authorized
        BY <1>2, <4>1 DEF Moves, Undispatches
      <4>3. ~call.authorized => sent[call.exchange] = 0
        BY <1>1, <1>3 DEF Attempted, SentOnce
      <4>4. Promise!Fail
        BY <1>5, <3>3, <4>1, <4>2, <4>3 DEF Promise!Fail
      <4> QED BY <4>4 DEF Promise!Next
    <3>4. CASE /\ call.phase \notin {"issued", "failed"}
               /\ call'.phase \notin {"issued", "failed"}
      <4>1. call'.exchange = call.exchange /\ undispatched' = undispatched
        BY <1>2, <2>2, <3>4 DEF Same, Moves, Undispatches
      <4> QED BY <1>5, <3>4, <4>1 DEF Promise!vars
    <3> QED BY <1>3, <3>1, <3>2, <3>3, <3>4
  <2> QED BY <1>2, <2>1, <2>2 DEF Moves
<1> QED BY <1>4, <1>5, OnlyReleaseSends DEF Promise!Next

\* A call sends one request per attempt at most, none for an attempt it reported
\* as not dispatched, and its result is that of a request that was sent.
THEOREM CallKeepsAttempts == Spec => KeepsAttempts
<1>1. Init => Promise!Init
  BY PromiseBegins
<1>2. IInv /\ [Next]_vars => [Promise!Next]_(Promise!vars)
  BY PromiseStep
<1> QED BY <1>1, <1>2, Invariance, PTL DEF Spec, KeepsAttempts, Promise!Spec

-----------------------------------------------------------------------------
(* The previews a Pod renders (modules RenderService and PodRender): who is  *)
(* in which line, who holds a slot, and whose the open contexts are.         *)

\* Everybody in the line is in phase ph of f, and is in it once.
InLine(s, f, ph) ==
  /\ \A i \in DOMAIN s : f[s[i]] = ph
  /\ \A i, j \in DOMAIN s : s[i] = s[j] => i = j

WorkersServe ==
  /\ \A w \in Workers : serving[w] # None => phase[serving[w]] = "validating"
  /\ \A v, w \in Workers : serving[v] = serving[w] /\ serving[v] # None => v = w

Lines == WorkersServe /\ InLine(waiting, phase, "waiting") /\ InLine(queue, phase, "queued")

Rendering == {"slot", "launch", "context", "drawn", "broken"}
Holding == {r \in Requests : phase[r] \in Rendering}

\* No slot is lost, and none is given twice.
SlotsKept == free + Cardinality(Holding) = Slots

TwoAttempts ==
  \A r \in Requests : /\ phase[r] \in {"none", "waiting", "validating", "queued"} => attempt[r] = 0
                      /\ phase[r] = "slot" => attempt[r] <= 1

ServiceInv ==
  ServiceTypeOK /\ Lines /\ SlotsKept /\ TwoAttempts /\ browser >= 1 /\ CleanBrowser

LEMMA LineKept ==
  ASSUME NEW s \in Seq(Requests), NEW f, NEW g, NEW ph, InLine(s, f, ph),
         \A x \in Requests : f[x] = ph => g[x] = ph
  PROVE  InLine(s, g, ph)
<1>1. \A i \in DOMAIN s : s[i] \in Requests
  OBVIOUS
<1> QED BY <1>1 DEF InLine

LEMMA LineAppend ==
  ASSUME NEW s \in Seq(Requests), NEW f, NEW g, NEW ph, InLine(s, f, ph), NEW r \in Requests,
         f[r] # ph, g[r] = ph, \A x \in Requests : f[x] = ph => g[x] = ph
  PROVE  InLine(Append(s, r), g, ph)
<1> DEFINE t == Append(s, r)
<1>1. /\ DOMAIN t = 1 .. Len(s) + 1 /\ DOMAIN s = 1 .. Len(s) /\ Len(s) \in Nat
      /\ t[Len(s) + 1] = r
      /\ \A i \in 1 .. Len(s) : t[i] = s[i] /\ s[i] \in Requests
  BY AppendProperties
<1> HIDE DEF t
<1>2. \A i \in 1 .. Len(s) : f[s[i]] = ph /\ s[i] # r
  BY <1>1 DEF InLine
<1>3. \A i \in DOMAIN t : g[t[i]] = ph
  BY <1>1, <1>2
<1>4. ASSUME NEW i \in DOMAIN t, NEW j \in DOMAIN t, t[i] = t[j]
      PROVE  i = j
  BY <1>1, <1>2, <1>4 DEF InLine
<1>5. InLine(t, g, ph)
  BY <1>3, <1>4 DEF InLine
<1> QED BY <1>5 DEF t

LEMMA LineHead ==
  ASSUME NEW s \in Seq(Requests), s # <<>>, NEW f, NEW ph, InLine(s, f, ph)
  PROVE  Head(s) \in Requests /\ f[Head(s)] = ph
BY HeadTailProperties, EmptySeq DEF InLine

LEMMA LineTail ==
  ASSUME NEW s \in Seq(Requests), s # <<>>, NEW f, NEW g, NEW ph, InLine(s, f, ph),
         \A x \in Requests : f[x] = ph /\ x # Head(s) => g[x] = ph
  PROVE  Tail(s) \in Seq(Requests) /\ InLine(Tail(s), g, ph)
<1> DEFINE t == Tail(s)
<1>1. /\ Len(s) \in Nat /\ Len(s) >= 1 /\ DOMAIN s = 1 .. Len(s)
      /\ t \in Seq(Requests) /\ DOMAIN t = 1 .. Len(s) - 1
      /\ Head(s) = s[1]
      /\ \A i \in 1 .. Len(s) - 1 : t[i] = s[i + 1]
      /\ \A i \in 1 .. Len(s) : s[i] \in Requests
  BY HeadTailProperties, EmptySeq
<1> HIDE DEF t
<1>2. \A i \in DOMAIN t : i + 1 \in DOMAIN s /\ t[i] = s[i + 1] /\ i + 1 # 1
  BY <1>1
<1>3. \A i \in DOMAIN t : t[i] # Head(s) /\ t[i] \in Requests /\ f[t[i]] = ph
  BY <1>1, <1>2 DEF InLine
<1>4. ASSUME NEW i \in DOMAIN t, NEW j \in DOMAIN t, t[i] = t[j]
      PROVE  i = j
  <2>1. i + 1 = j + 1
    BY <1>2, <1>4 DEF InLine
  <2> QED BY <1>1, <2>1
<1>5. InLine(t, g, ph)
  BY <1>3, <1>4 DEF InLine
<1> QED BY <1>1, <1>5 DEF t, InLine

LEMMA LineEmpty == ASSUME NEW g, NEW ph PROVE InLine(<<>>, g, ph)
BY DEF InLine

-----------------------------------------------------------------------------
(* What the changes of the phases preserve.                                 *)

LEMMA HoldingFinite == IsFiniteSet(Holding) /\ Cardinality(Holding) \in Nat
<1>1. Holding \subseteq Requests /\ IsFiniteSet(Requests)
  BY RenderServiceAssumption DEF Holding
<1> QED BY <1>1, FS_Subset, FS_CardinalityType

\* The same requests hold a slot.
LEMMA SlotsStay ==
  ASSUME SlotsKept, free' = free,
         \A x \in Requests : phase'[x] \in Rendering <=> phase[x] \in Rendering
  PROVE  SlotsKept'
<1>1. Holding' = Holding
  BY DEF Holding
<1> QED BY <1>1 DEF SlotsKept

\* One more does.
LEMMA SlotTaken ==
  ASSUME SlotsKept, NEW r \in Requests, free \in Nat, free > 0, free' = free - 1,
         phase[r] \notin Rendering, phase'[r] \in Rendering,
         \A x \in Requests \ {r} : phase'[x] \in Rendering <=> phase[x] \in Rendering
  PROVE  SlotsKept'
<1>1. Holding' = Holding \cup {r} /\ r \notin Holding
  BY DEF Holding
<1>2. Cardinality(Holding)' = Cardinality(Holding) + 1 /\ Cardinality(Holding) \in Nat
  BY <1>1, HoldingFinite, FS_AddElement
<1> QED BY <1>2 DEF SlotsKept

\* One does no longer.
LEMMA SlotGiven ==
  ASSUME SlotsKept, NEW r \in Requests, free \in Nat, free' = free + 1,
         phase[r] \in Rendering, phase'[r] \notin Rendering,
         \A x \in Requests \ {r} : phase'[x] \in Rendering <=> phase[x] \in Rendering
  PROVE  SlotsKept' /\ free < Slots
<1>1. Holding' = Holding \ {r} /\ r \in Holding
  BY DEF Holding
<1>2. /\ Cardinality(Holding)' = Cardinality(Holding) - 1
      /\ Cardinality(Holding) \in Nat /\ Cardinality(Holding)' \in Nat
  BY <1>1, HoldingFinite, FS_RemoveElement, FS_CardinalityType
<1> QED BY <1>2, RenderServiceAssumption DEF SlotsKept

\* One does instead of another.
LEMMA SlotPassed ==
  ASSUME SlotsKept, NEW r \in Requests, NEW q \in Requests, q # r, free' = free,
         phase[r] \in Rendering, phase'[r] \notin Rendering,
         phase[q] \notin Rendering, phase'[q] \in Rendering,
         \A x \in Requests \ {q, r} : phase'[x] \in Rendering <=> phase[x] \in Rendering
  PROVE  SlotsKept'
<1> DEFINE rest == Holding \ {r}
<1>1. Holding' = rest \cup {q} /\ r \in Holding /\ q \notin rest
  BY DEF Holding
<1>2. IsFiniteSet(rest) /\ Cardinality(rest) = Cardinality(Holding) - 1
  BY <1>1, HoldingFinite, FS_RemoveElement
<1>3. Cardinality(rest \cup {q}) = Cardinality(rest) + 1
  BY <1>1, <1>2, FS_AddElement
<1> QED BY <1>1, <1>2, <1>3, HoldingFinite DEF SlotsKept

\* The open contexts stay whose they are, unless their browser ends.
LEMMA ContextsStay ==
  ASSUME ServiceTypeOK, CleanBrowser, contexts' \subseteq contexts, browser' = browser,
         connected' => connected,
         \A x \in Requests : phase[x] \in {"context", "drawn"} /\ using[x] = browser /\ connected'
            => phase'[x] \in {"context", "drawn"} /\ using'[x] = using[x]
  PROVE  CleanBrowser'
<1> SUFFICES ASSUME NEW c \in contexts', c.browser = browser', connected'
             PROVE  phase'[c.request] \in {"context", "drawn"} /\ using'[c.request] = browser'
  BY DEF CleanBrowser
<1>1. c.request \in Requests /\ c \in contexts
  BY DEF ServiceTypeOK
<1>2. phase[c.request] \in {"context", "drawn"} /\ using[c.request] = browser
  BY <1>1 DEF CleanBrowser
<1> QED BY <1>1, <1>2

\* Validation moves nobody who renders.
LEMMA RenderersStay ==
  ASSUME ServiceInv, UNCHANGED <<chrome, attempts>>,
         \A x \in Requests : phase'[x] # phase[x] => phase[x] \in {"none", "waiting", "validating"}
  PROVE  TwoAttempts' /\ browser' >= 1 /\ CleanBrowser'
<1>1. UNCHANGED <<browser, connected, attempt, using, contexts>>
  BY DEF chrome, attempts
<1>2. TwoAttempts'
  BY <1>1 DEF ServiceInv, TwoAttempts, ServiceTypeOK
<1>3. CleanBrowser'
  BY <1>1, ContextsStay DEF ServiceInv
<1> QED BY <1>1, <1>2, <1>3 DEF ServiceInv

\* Rendering moves nobody who waits for a worker.
LEMMA ValidationStays ==
  ASSUME ServiceInv, UNCHANGED pool,
         \A x \in Requests : phase[x] \in {"waiting", "validating"} => phase'[x] = phase[x]
  PROVE  WorkersServe' /\ InLine(waiting', phase', "waiting")
<1>1. UNCHANGED <<serving, waiting>> /\ waiting \in Seq(Requests)
  BY DEF pool, ServiceInv, ServiceTypeOK
<1>2. InLine(waiting, phase', "waiting")
  BY <1>1, LineKept DEF ServiceInv, Lines
<1>3. WorkersServe'
  BY <1>1 DEF ServiceInv, Lines, WorkersServe, ServiceTypeOK
<1> QED BY <1>1, <1>2, <1>3

LEMMA QueueStays ==
  ASSUME ServiceInv, queue' = queue,
         \A x \in Requests : phase[x] = "queued" => phase'[x] = phase[x]
  PROVE  InLine(queue', phase', "queued")
BY LineKept DEF ServiceInv, ServiceTypeOK, Lines

\* A request ends and its slot goes to the first in the queue.
LEMMA SlotHanded ==
  ASSUME ServiceInv, NEW r \in Requests, phase[r] \in Rendering, NEW a \in Replies,
         FinishRender(r, a)
  PROVE  /\ phase' \in [Requests -> Waits \cup {"done"}] /\ reply' \in [Requests -> Replies]
         /\ attempt' \in [Requests -> 0 .. 2] /\ using' \in [Requests -> Nat]
         /\ free' \in 0 .. Slots /\ queue' \in Seq(Requests)
         /\ InLine(queue', phase', "queued") /\ SlotsKept' /\ TwoAttempts'
         /\ phase'[r] = "done"
         /\ \A x \in Requests \ {r} :
              /\ attempt'[x] = attempt[x] /\ using'[x] = using[x]
              /\ phase[x] # "queued" => phase'[x] = phase[x]
<1> USE DEF ServiceInv
<1>1. /\ phase \in [Requests -> Waits \cup {"done"}] /\ reply \in [Requests -> Replies]
      /\ attempt \in [Requests -> 0 .. 2] /\ using \in [Requests -> Nat]
      /\ free \in 0 .. Slots /\ queue \in Seq(Requests) /\ Slots \in Nat
      /\ InLine(queue, phase, "queued") /\ SlotsKept
  BY RenderServiceAssumption DEF ServiceTypeOK, Lines
<1>2. /\ reply' \in [Requests -> Replies] /\ attempt' \in [Requests -> 0 .. 2]
      /\ using' \in [Requests -> Nat] /\ attempt'[r] = 0
      /\ \A x \in Requests \ {r} : attempt'[x] = attempt[x] /\ using'[x] = using[x]
  BY <1>1 DEF FinishRender
<1>3. phase' \in [Requests -> Waits \cup {"done"}] /\ phase'[r] = "done"
  BY <1>1 DEF FinishRender, Waits
<1>4. CASE queue = <<>>
  <2>1. /\ queue' = queue /\ free' = free + 1
        /\ \A x \in Requests \ {r} : phase'[x] = phase[x]
    BY <1>1, <1>4 DEF FinishRender
  <2>2. InLine(queue', phase', "queued")
    BY <1>4, <2>1, LineEmpty
  <2>3. SlotsKept' /\ free < Slots
    <3>1. /\ \A x \in Requests \ {r} : phase'[x] \in Rendering <=> phase[x] \in Rendering
          /\ phase'[r] \notin Rendering /\ free \in Nat
      BY <1>1, <1>3, <2>1 DEF Rendering
    <3> QED BY <1>1, <2>1, <3>1, SlotGiven
  <2>4. TwoAttempts'
    BY <1>2, <1>3, <2>1 DEF TwoAttempts
  <2> QED BY <1>1, <1>2, <1>3, <2>1, <2>2, <2>3, <2>4
<1>5. CASE queue # <<>>
  <2>1. Head(queue) \in Requests /\ phase[Head(queue)] = "queued" /\ Head(queue) # r
    BY <1>1, <1>5, LineHead DEF Rendering
  <2>2. /\ queue' = Tail(queue) /\ free' = free
        /\ phase'[Head(queue)] = "slot"
        /\ \A x \in Requests \ {r, Head(queue)} : phase'[x] = phase[x]
    BY <1>1, <1>5, <2>1 DEF FinishRender
  <2>3. queue' \in Seq(Requests) /\ InLine(queue', phase', "queued")
    <3>1. \A x \in Requests : phase[x] = "queued" /\ x # Head(queue) => phase'[x] = "queued"
      BY <2>1, <2>2 DEF Rendering
    <3> QED BY <1>1, <1>5, <2>2, <3>1, LineTail
  <2>4. SlotsKept'
    <3>1. /\ \A x \in Requests \ {Head(queue), r} : phase'[x] \in Rendering <=> phase[x] \in Rendering
          /\ phase'[r] \notin Rendering /\ phase[Head(queue)] \notin Rendering
          /\ phase'[Head(queue)] \in Rendering
      BY <1>3, <2>1, <2>2 DEF Rendering
    <3> QED BY <1>1, <2>1, <2>2, <3>1, SlotPassed
  <2>5. TwoAttempts'
    <3>1. attempt[Head(queue)] = 0
      BY <2>1 DEF TwoAttempts
    <3>2. attempt'[Head(queue)] = 0 /\ 0 <= 1
      BY <1>2, <2>1, <3>1
    <3> QED BY <1>2, <1>3, <2>2, <3>2 DEF TwoAttempts
  <2> QED BY <1>1, <1>2, <1>3, <2>1, <2>2, <2>3, <2>4, <2>5
<1> QED BY <1>4, <1>5

Verdicts == {"passed", "rejection", "unavailable"}

\* A validated request ends, takes a slot or joins the queue.
LEMMA RequestSettled ==
  ASSUME ServiceInv, NEW r \in Requests, phase[r] = "validating", NEW v \in Verdicts,
         NEW STATE ph, ph \in [Requests -> Waits \cup {"done"}], ph[r] = "validating",
         \A x \in Requests : ph[x] # phase[x] => phase[x] = "waiting" /\ ph[x] = "validating",
         SettleRequest(r, v, ph)
  PROVE  /\ phase' \in [Requests -> Waits \cup {"done"}] /\ reply' \in [Requests -> Replies]
         /\ free' \in 0 .. Slots /\ queue' \in Seq(Requests)
         /\ InLine(queue', phase', "queued") /\ SlotsKept'
         /\ phase'[r] \in {"done", "slot", "queued"}
         /\ \A x \in Requests \ {r} : phase'[x] = ph[x]
<1> USE DEF ServiceInv
<1>1. /\ phase \in [Requests -> Waits \cup {"done"}] /\ reply \in [Requests -> Replies]
      /\ free \in 0 .. Slots /\ queue \in Seq(Requests) /\ Slots \in Nat
      /\ InLine(queue, phase, "queued") /\ SlotsKept
  BY RenderServiceAssumption DEF ServiceTypeOK, Lines
<1>2. /\ phase' \in [Requests -> Waits \cup {"done"}] /\ reply' \in [Requests -> Replies]
      /\ \A x \in Requests \ {r} : phase'[x] = ph[x]
      /\ phase'[r] = IF v # "passed" THEN "done" ELSE IF free > 0 THEN "slot" ELSE "queued"
  BY <1>1 DEF SettleRequest, Validated, Verdicts, Replies, Waits
<1>3. \A x \in Requests : phase[x] = "queued" => phase'[x] = "queued"
  BY <1>2
<1>4. \A x \in Requests \ {r} : phase'[x] \in Rendering <=> phase[x] \in Rendering
  BY <1>2 DEF Rendering
<1>5. CASE v = "passed" /\ free > 0
  <2>1. queue' = queue /\ free' = free - 1 /\ phase'[r] = "slot"
    BY <1>1, <1>2, <1>5 DEF SettleRequest
  <2>2. SlotsKept'
    BY <1>1, <1>4, <1>5, <2>1, SlotTaken DEF Rendering
  <2>3. InLine(queue', phase', "queued")
    BY <1>1, <1>3, <2>1, LineKept
  <2> QED BY <1>1, <1>2, <1>5, <2>1, <2>2, <2>3
<1>6. CASE v = "passed" /\ free = 0
  <2>1. queue' = Append(queue, r) /\ free' = free /\ phase'[r] = "queued"
    BY <1>1, <1>2, <1>6 DEF SettleRequest
  <2>2. SlotsKept'
    BY <1>1, <1>4, <2>1, SlotsStay DEF Rendering
  <2>3. InLine(queue', phase', "queued") /\ queue' \in Seq(Requests)
    BY <1>1, <1>3, <2>1, LineAppend
  <2> QED BY <1>1, <1>2, <2>1, <2>2, <2>3
<1>7. CASE v # "passed"
  <2>1. queue' = queue /\ free' = free /\ phase'[r] = "done"
    BY <1>1, <1>2, <1>7 DEF SettleRequest
  <2>2. SlotsKept'
    BY <1>1, <1>4, <2>1, SlotsStay DEF Rendering
  <2>3. InLine(queue', phase', "queued")
    BY <1>1, <1>3, <2>1, LineKept
  <2> QED BY <1>1, <1>2, <2>1, <2>2, <2>3
<1> QED BY <1>1, <1>5, <1>6, <1>7

\* The first who waits is served.
LEMMA ServedPhases ==
  ASSUME ServiceInv
  PROVE  /\ Served(phase) \in [Requests -> Waits \cup {"done"}]
         /\ \A x \in Requests :
              Served(phase)[x] # phase[x] => phase[x] = "waiting" /\ Served(phase)[x] = "validating"
         /\ waiting # <<>> => /\ Head(waiting) \in Requests /\ phase[Head(waiting)] = "waiting"
                              /\ Served(phase)[Head(waiting)] = "validating"
                              /\ \A x \in Requests \ {Head(waiting)} : Served(phase)[x] = phase[x]
<1>1. /\ phase \in [Requests -> Waits \cup {"done"}] /\ waiting \in Seq(Requests)
      /\ InLine(waiting, phase, "waiting")
  BY DEF ServiceInv, ServiceTypeOK, Lines
<1>2. waiting # <<>> => Head(waiting) \in Requests /\ phase[Head(waiting)] = "waiting"
  BY <1>1, LineHead
<1> QED BY <1>1, <1>2 DEF Served, Waits

LEMMA WorkerReleased ==
  ASSUME ServiceInv, NEW w \in Workers, ReleaseWorker(w),
         \A x \in Requests : x # serving[w] => phase'[x] = Served(phase)[x],
         serving[w] # None => phase'[serving[w]] # "waiting"
  PROVE  /\ serving' \in [Workers -> Requests \cup {None}] /\ available' \subseteq Workers
         /\ waiting' \in Seq(Requests)
         /\ WorkersServe' /\ InLine(waiting', phase', "waiting")
<1> USE DEF ServiceInv
<1>1. /\ phase \in [Requests -> Waits \cup {"done"}] /\ waiting \in Seq(Requests)
      /\ serving \in [Workers -> Requests \cup {None}] /\ available \subseteq Workers
      /\ InLine(waiting, phase, "waiting") /\ None \notin Requests
  BY RenderServiceAssumption DEF ServiceTypeOK, Lines
<1>2. \A v \in Workers : serving[v] # None => serving[v] \in Requests /\ phase[serving[v]] = "validating"
  BY <1>1 DEF Lines, WorkersServe
<1>3. \A v \in Workers \ {w} : serving[v] # None => phase'[serving[v]] = "validating"
  <2>1. \A v \in Workers \ {w} : serving[v] # None => serving[v] # serving[w]
    BY DEF Lines, WorkersServe
  <2> QED BY <1>2, <2>1, ServedPhases
<1>4. CASE waiting = <<>>
  <2>1. /\ serving' = [serving EXCEPT ![w] = None] /\ waiting' = <<>>
        /\ available' = available \cup {w}
    BY <1>4 DEF ReleaseWorker
  <2>2. WorkersServe'
    BY <1>1, <1>3, <2>1 DEF Lines, WorkersServe
  <2> QED BY <1>1, <2>1, <2>2, LineEmpty
<1>5. CASE waiting # <<>>
  <2>1. /\ serving' = [serving EXCEPT ![w] = Head(waiting)] /\ waiting' = Tail(waiting)
        /\ available' = available
    BY <1>5 DEF ReleaseWorker
  <2>2. Head(waiting) \in Requests /\ phase[Head(waiting)] = "waiting" /\ Head(waiting) # None
    BY <1>1, <1>5, ServedPhases
  <2>3. phase'[Head(waiting)] = "validating"
    BY <1>2, <1>5, <2>2, ServedPhases
  <2>4. \A v \in Workers : serving[v] # Head(waiting)
    BY <1>2, <2>2
  <2>5. WorkersServe'
    BY <1>1, <1>3, <2>1, <2>3, <2>4 DEF Lines, WorkersServe
  <2>6. \A x \in Requests : phase[x] = "waiting" /\ x # Head(waiting) => phase'[x] = "waiting"
    <3> SUFFICES ASSUME NEW x \in Requests, phase[x] = "waiting", x # Head(waiting)
                 PROVE  phase'[x] = "waiting"
      OBVIOUS
    <3>1. x # serving[w]
      BY <1>1, <1>2
    <3> QED BY <1>5, <3>1, ServedPhases
  <2>7. InLine(waiting', phase', "waiting") /\ waiting' \in Seq(Requests)
    BY <1>1, <1>5, <2>1, <2>6, LineTail
  <2> QED BY <1>1, <2>1, <2>2, <2>5, <2>7
<1> QED BY <1>4, <1>5

\* A worker loses its request.
LEMMA WorkerEmptied ==
  ASSUME ServiceInv, NEW w \in Workers, serving' = [serving EXCEPT ![w] = None],
         waiting' = waiting,
         \A x \in Requests : x # serving[w] => phase'[x] = phase[x]
  PROVE  /\ serving' \in [Workers -> Requests \cup {None}]
         /\ WorkersServe' /\ InLine(waiting', phase', "waiting")
<1> USE DEF ServiceInv
<1>1. /\ waiting \in Seq(Requests) /\ serving \in [Workers -> Requests \cup {None}]
      /\ InLine(waiting, phase, "waiting") /\ None \notin Requests
  BY RenderServiceAssumption DEF ServiceTypeOK, Lines
<1>2. \A v \in Workers : serving[v] # None => serving[v] \in Requests /\ phase[serving[v]] = "validating"
  BY <1>1 DEF Lines, WorkersServe
<1>3. \A v \in Workers \ {w} : serving[v] # None => serving[v] # serving[w]
  BY DEF Lines, WorkersServe
<1>4. WorkersServe'
  BY <1>1, <1>2, <1>3 DEF Lines, WorkersServe
<1>5. \A x \in Requests : phase[x] = "waiting" => phase'[x] = "waiting"
  BY <1>1, <1>2
<1> QED BY <1>1, <1>4, <1>5, LineKept

-----------------------------------------------------------------------------
(* The render service's actions.                                            *)

LEMMA FailureType == ServiceTypeOK /\ (Failure \/ UNCHANGED failures) => failures' \in 0 .. MaxFailures
BY RenderServiceAssumption DEF ServiceTypeOK, Failure

\* What the other conjuncts are proved from.
LEMMA PoolStep ==
  ASSUME ServiceInv, UNCHANGED <<cancelled, chrome, attempts>>, Failure \/ UNCHANGED failures,
         phase' \in [Requests -> Waits \cup {"done"}], reply' \in [Requests -> Replies],
         worker' \in [Workers -> {"live", "killed", "failed", "replacing", "lost"}],
         serving' \in [Workers -> Requests \cup {None}], available' \subseteq Workers,
         waiting' \in Seq(Requests), queue' \in Seq(Requests), free' \in 0 .. Slots,
         \A x \in Requests : phase'[x] # phase[x] => phase[x] \in {"none", "waiting", "validating"},
         WorkersServe', InLine(waiting', phase', "waiting"), InLine(queue', phase', "queued"),
         SlotsKept'
  PROVE  ServiceInv'
<1>1. ServiceTypeOK'
  BY FailureType DEF ServiceInv, ServiceTypeOK, chrome, attempts
<1>2. Lines'
  BY DEF Lines
<1> QED BY <1>1, <1>2, RenderersStay DEF ServiceInv

LEMMA ResultKept ==
  ASSUME ServiceInv, NEW w \in Workers, Result(w)
  PROVE  ServiceInv'
<1> DEFINE r == serving[w]
<1>1. /\ r \in Requests /\ phase[r] = "validating" /\ r # None
      /\ worker \in [Workers -> {"live", "killed", "failed", "replacing", "lost"}]
  BY DEF Result, ServiceInv, ServiceTypeOK, Lines, WorkersServe
<1>2. PICK v \in {"passed", "rejection"} : SettleRequest(r, v, Served(phase))
  BY DEF Result
<1> HIDE DEF r
<1>3. Served(phase)[r] = "validating"
  BY <1>1, ServedPhases
<1>4. /\ phase' \in [Requests -> Waits \cup {"done"}] /\ reply' \in [Requests -> Replies]
      /\ free' \in 0 .. Slots /\ queue' \in Seq(Requests)
      /\ InLine(queue', phase', "queued") /\ SlotsKept'
      /\ phase'[r] \in {"done", "slot", "queued"}
      /\ \A x \in Requests \ {r} : phase'[x] = Served(phase)[x]
  <2>1. v \in Verdicts
    BY DEF Verdicts
  <2> QED BY <1>1, <1>2, <1>3, <2>1, ServedPhases, RequestSettled
<1>5. ReleaseWorker(w) /\ UNCHANGED <<cancelled, worker, chrome, attempts, failures>>
  BY DEF Result
<1>6. /\ serving' \in [Workers -> Requests \cup {None}] /\ available' \subseteq Workers
      /\ waiting' \in Seq(Requests)
      /\ WorkersServe' /\ InLine(waiting', phase', "waiting")
  <2>1. \A x \in Requests : x # serving[w] => phase'[x] = Served(phase)[x]
    BY <1>4 DEF r
  <2>2. serving[w] # None => phase'[serving[w]] # "waiting"
    BY <1>4 DEF r
  <2> QED BY <1>5, <2>1, <2>2, WorkerReleased
<1>7. \A x \in Requests : phase'[x] # phase[x] => phase[x] \in {"none", "waiting", "validating"}
  BY <1>1, <1>4, ServedPhases
<1> QED BY <1>1, <1>4, <1>5, <1>6, <1>7, PoolStep

\* A worker that ends answers the request it serves, if it serves one.
LEMMA WorkerEnds ==
  ASSUME ServiceInv, NEW w \in Workers, NEW v \in {"rejection", "unavailable"},
         NEW st \in {"killed", "failed", "replacing"},
         IF serving[w] # None THEN SettleRequest(serving[w], v, phase)
                              ELSE UNCHANGED <<phase, reply, slots>>,
         worker' = [worker EXCEPT ![w] = st], serving' = [serving EXCEPT ![w] = None],
         available' \subseteq available, waiting' = waiting,
         UNCHANGED <<cancelled, chrome, attempts>>, Failure \/ UNCHANGED failures
  PROVE  ServiceInv'
<1> DEFINE r == serving[w]
<1>1. /\ phase \in [Requests -> Waits \cup {"done"}] /\ reply \in [Requests -> Replies]
      /\ worker' \in [Workers -> {"live", "killed", "failed", "replacing", "lost"}]
      /\ available' \subseteq Workers /\ waiting' \in Seq(Requests)
      /\ r # None => r \in Requests /\ phase[r] = "validating"
      /\ r \in Requests \cup {None} /\ None \notin Requests
  BY RenderServiceAssumption DEF ServiceInv, ServiceTypeOK, Lines, WorkersServe
<1>2. /\ phase' \in [Requests -> Waits \cup {"done"}] /\ reply' \in [Requests -> Replies]
      /\ free' \in 0 .. Slots /\ queue' \in Seq(Requests)
      /\ InLine(queue', phase', "queued") /\ SlotsKept'
      /\ \A x \in Requests \ {r} : phase'[x] = phase[x]
  <2>1. CASE r # None
    <3>1. SettleRequest(r, v, phase) /\ v \in Verdicts
      BY <2>1 DEF Verdicts
    <3> HIDE DEF r
    <3> QED BY <1>1, <2>1, <3>1, RequestSettled
  <2>2. CASE r = None
    <3>1. UNCHANGED <<phase, reply, free, queue>>
      BY <2>2 DEF slots
    <3> QED BY <3>1 DEF ServiceInv, ServiceTypeOK, Lines, SlotsKept, Holding
  <2> QED BY <2>1, <2>2
<1>3. \A x \in Requests : x # serving[w] => phase'[x] = phase[x]
  BY <1>2
<1>4. serving' \in [Workers -> Requests \cup {None}] /\ WorkersServe' /\ InLine(waiting', phase', "waiting")
  BY <1>3, WorkerEmptied
<1>5. \A x \in Requests : phase'[x] # phase[x] => phase[x] \in {"none", "waiting", "validating"}
  BY <1>1, <1>2
<1> QED BY <1>1, <1>2, <1>4, <1>5, PoolStep

LEMMA TimeoutKept ==
  ASSUME ServiceInv, NEW w \in Workers, Timeout(w)
  PROVE  ServiceInv'
BY WorkerEnds DEF Timeout

LEMMA WorkerErrorKept ==
  ASSUME ServiceInv, NEW w \in Workers, WorkerError(w)
  PROVE  ServiceInv'
<1>1. PICK v \in {"rejection", "unavailable"} : Retire(w, v)
  BY DEF WorkerError
<1> QED BY <1>1, WorkerEnds DEF WorkerError, Retire

LEMMA ExitKept ==
  ASSUME ServiceInv, NEW w \in Workers, Exit(w)
  PROVE  ServiceInv'
<1>1. Retire(w, "unavailable")
  BY DEF Exit
<1> QED BY <1>1, WorkerEnds DEF Exit, Retire

LEMMA ReplacedKept ==
  ASSUME ServiceInv, NEW w \in Workers, Replaced(w)
  PROVE  ServiceInv'
<1>1. /\ phase' = Served(phase) /\ ReleaseWorker(w)
      /\ worker' = [worker EXCEPT ![w] = "live"]
      /\ UNCHANGED <<reply, cancelled, free, queue, chrome, attempts, failures>>
  BY DEF Replaced, slots
<1>2. /\ worker' \in [Workers -> {"live", "killed", "failed", "replacing", "lost"}]
      /\ reply' \in [Requests -> Replies] /\ free' \in 0 .. Slots /\ queue' \in Seq(Requests)
      /\ SlotsKept
      /\ serving[w] # None => serving[w] \in Requests /\ phase[serving[w]] = "validating"
  BY <1>1 DEF ServiceInv, ServiceTypeOK, Lines, WorkersServe
<1>3. /\ phase' \in [Requests -> Waits \cup {"done"}]
      /\ \A x \in Requests : phase'[x] # phase[x] => phase[x] = "waiting" /\ phase'[x] = "validating"
  BY <1>1, ServedPhases
<1>4. /\ serving' \in [Workers -> Requests \cup {None}] /\ available' \subseteq Workers
      /\ waiting' \in Seq(Requests)
      /\ WorkersServe' /\ InLine(waiting', phase', "waiting")
  BY <1>1, <1>2, <1>3, WorkerReleased
<1>5. SlotsKept'
  BY <1>1, <1>2, <1>3, SlotsStay DEF Rendering
<1>6. InLine(queue', phase', "queued")
  BY <1>1, <1>3, QueueStays
<1> QED BY <1>1, <1>2, <1>3, <1>4, <1>5, <1>6, PoolStep

LEMMA ReplaceFailsKept ==
  ASSUME ServiceInv, NEW w \in Workers, ReplaceFails(w)
  PROVE  ServiceInv'
<1>1. /\ worker' = [worker EXCEPT ![w] = "lost"] /\ Failure
      /\ UNCHANGED <<cancelled, serving, available, free, queue, chrome, attempts>>
      /\ \/ UNCHANGED <<phase, reply, waiting>>
         \/ /\ phase' = [x \in Requests |-> IF x \in Members(waiting) THEN "done" ELSE phase[x]]
            /\ reply' = [x \in Requests |-> IF x \in Members(waiting) THEN "unavailable" ELSE reply[x]]
            /\ waiting' = <<>>
  BY DEF ReplaceFails, slots
<1>2. /\ worker' \in [Workers -> {"live", "killed", "failed", "replacing", "lost"}]
      /\ serving' \in [Workers -> Requests \cup {None}] /\ available' \subseteq Workers
      /\ waiting' \in Seq(Requests) /\ queue' \in Seq(Requests) /\ free' \in 0 .. Slots
      /\ phase \in [Requests -> Waits \cup {"done"}] /\ reply \in [Requests -> Replies]
      /\ SlotsKept
  <2>1. waiting' = waiting \/ waiting' = <<>>
    BY <1>1
  <2>2. <<>> \in Seq(Requests)
    BY EmptySeq
  <2> QED BY <1>1, <2>1, <2>2 DEF ServiceInv, ServiceTypeOK
<1>3. /\ phase' \in [Requests -> Waits \cup {"done"}] /\ reply' \in [Requests -> Replies]
  BY <1>1, <1>2 DEF Replies, Waits
<1>4. \A x \in Requests : phase'[x] # phase[x] => phase[x] = "waiting" /\ phase'[x] = "done"
  BY <1>1, <1>2 DEF ServiceInv, Lines, InLine, Members
<1>5. InLine(waiting', phase', "waiting")
  BY <1>1, <1>2, LineEmpty DEF ServiceInv, Lines
<1>6. WorkersServe'
  BY <1>1, <1>2, <1>4, RenderServiceAssumption DEF ServiceInv, ServiceTypeOK, Lines, WorkersServe
<1>7. SlotsKept'
  BY <1>1, <1>2, <1>4, SlotsStay DEF Rendering
<1>8. InLine(queue', phase', "queued")
  BY <1>1, <1>4, QueueStays
<1> QED BY <1>1, <1>2, <1>3, <1>4, <1>5, <1>6, <1>7, <1>8, PoolStep

LEMMA ArriveKept ==
  ASSUME ServiceInv, NEW r \in Requests, Arrive(r)
  PROVE  ServiceInv'
<1>1. /\ phase[r] = "none" /\ UNCHANGED <<cancelled, free, queue, chrome, attempts, failures>>
      /\ phase' = [phase EXCEPT ![r] = phase'[r]]
      /\ phase'[r] \in {"done", "validating", "waiting"}
  BY DEF Arrive, slots, ServiceInv, ServiceTypeOK
<1>2. /\ phase \in [Requests -> Waits \cup {"done"}] /\ reply \in [Requests -> Replies]
      /\ worker \in [Workers -> {"live", "killed", "failed", "replacing", "lost"}]
      /\ serving \in [Workers -> Requests \cup {None}] /\ available \subseteq Workers
      /\ waiting \in Seq(Requests) /\ queue \in Seq(Requests) /\ free \in 0 .. Slots
      /\ SlotsKept /\ WorkersServe /\ InLine(waiting, phase, "waiting") /\ None \notin Requests
  BY RenderServiceAssumption DEF ServiceInv, ServiceTypeOK, Lines
<1>3. /\ phase' \in [Requests -> Waits \cup {"done"}]
      /\ \A x \in Requests : phase'[x] # phase[x] => x = r
  BY <1>1, <1>2 DEF Waits
<1>4. SlotsKept' /\ InLine(queue', phase', "queued")
  BY <1>1, <1>2, <1>3, SlotsStay, QueueStays DEF Rendering
<1>5. CASE UNCHANGED <<reply, worker, serving, available>> /\ waiting' = Append(waiting, r)
           /\ phase'[r] = "waiting"
  <2>1. \A x \in Requests : phase[x] = "waiting" => phase'[x] = "waiting"
    BY <1>5, <1>3
  <2>2. InLine(waiting', phase', "waiting") /\ waiting' \in Seq(Requests)
    <3>1. phase[r] # "waiting" /\ phase'[r] = "waiting" /\ waiting' = Append(waiting, r)
      BY <1>1, <1>5
    <3>2. InLine(Append(waiting, r), phase', "waiting")
      BY <1>2, <2>1, <3>1, LineAppend
    <3> QED BY <1>2, <3>1, <3>2, AppendProperties
  <2>3. WorkersServe'
    BY <1>1, <1>2, <1>3, <1>5 DEF WorkersServe
  <2> QED BY <1>1, <1>2, <1>3, <1>4, <1>5, <2>2, <2>3, PoolStep
<1>6. CASE UNCHANGED pool /\ reply' \in [Requests -> Replies] /\ phase'[r] = "done"
  <2>1. WorkersServe' /\ InLine(waiting', phase', "waiting")
    BY <1>1, <1>3, <1>6, ValidationStays
  <2> QED BY <1>1, <1>2, <1>3, <1>4, <1>6, <2>1, PoolStep DEF pool
<1>7. CASE UNCHANGED <<reply, worker, waiting>> /\ phase'[r] = "validating"
           /\ \E w \in available : available' = available \ {w} /\ serving' = [serving EXCEPT ![w] = r]
  <2>1. PICK w \in available : available' = available \ {w} /\ serving' = [serving EXCEPT ![w] = r]
    BY <1>7
  <2>2. InLine(waiting', phase', "waiting")
    BY <1>1, <1>2, <1>3, <1>7, LineKept
  <2>3. \A v \in Workers : serving[v] # r
    BY <1>1, <1>2 DEF WorkersServe
  <2>4. WorkersServe'
    BY <1>1, <1>2, <1>3, <1>7, <2>1, <2>3 DEF WorkersServe
  <2> QED BY <1>1, <1>2, <1>3, <1>4, <1>7, <2>1, <2>2, <2>4, PoolStep
<1>8. \/ UNCHANGED <<reply, worker, serving, available>> /\ waiting' = Append(waiting, r) /\ phase'[r] = "waiting"
      \/ UNCHANGED pool /\ reply' \in [Requests -> Replies] /\ phase'[r] = "done"
      \/ UNCHANGED <<reply, worker, waiting>> /\ phase'[r] = "validating"
         /\ \E w \in available : available' = available \ {w} /\ serving' = [serving EXCEPT ![w] = r]
  BY <1>2 DEF Arrive, Replies
<1> QED BY <1>5, <1>6, <1>7, <1>8

LEMMA SlotStep ==
  ASSUME ServiceInv, UNCHANGED <<cancelled, pool>>, Failure \/ UNCHANGED failures,
         phase' \in [Requests -> Waits \cup {"done"}], reply' \in [Requests -> Replies],
         free' \in 0 .. Slots, queue' \in Seq(Requests),
         browser' \in Nat, browser' >= 1, connected' \in BOOLEAN, launch' \in BOOLEAN,
         launching' \subseteq Requests,
         attempt' \in [Requests -> 0 .. 2], using' \in [Requests -> Nat],
         contexts' \subseteq [request : Requests, browser : Nat],
         \A x \in Requests : phase[x] \in {"waiting", "validating"} => phase'[x] = phase[x],
         InLine(queue', phase', "queued"), SlotsKept', TwoAttempts', CleanBrowser'
  PROVE  ServiceInv'
<1>1. ServiceTypeOK'
  BY FailureType DEF ServiceInv, ServiceTypeOK, pool
<1>2. Lines'
  BY ValidationStays DEF Lines
<1> QED BY <1>1, <1>2 DEF ServiceInv

\* Requests that hold a slot go on holding it.
LEMMA HoldersStep ==
  ASSUME ServiceInv, UNCHANGED slots, phase' \in [Requests -> Waits \cup {"done"}],
         \A x \in Requests : phase'[x] # phase[x] => phase[x] \in Rendering /\ phase'[x] \in Rendering
  PROVE  /\ free' \in 0 .. Slots /\ queue' \in Seq(Requests)
         /\ InLine(queue', phase', "queued") /\ SlotsKept'
         /\ \A x \in Requests : phase[x] \in {"waiting", "validating"} => phase'[x] = phase[x]
<1>1. UNCHANGED <<free, queue>> /\ SlotsKept
  BY DEF slots, ServiceInv
<1>2. SlotsKept'
  BY <1>1, SlotsStay
<1>3. InLine(queue', phase', "queued")
  BY <1>1, QueueStays DEF Rendering
<1> QED BY <1>1, <1>2, <1>3 DEF ServiceInv, ServiceTypeOK, Rendering

LEMMA ServiceTypes ==
  ASSUME ServiceInv
  PROVE  /\ phase \in [Requests -> Waits \cup {"done"}] /\ reply \in [Requests -> Replies]
         /\ free \in 0 .. Slots /\ queue \in Seq(Requests)
         /\ browser \in Nat /\ browser >= 1 /\ connected \in BOOLEAN /\ launch \in BOOLEAN
         /\ launching \subseteq Requests
         /\ attempt \in [Requests -> 0 .. 2] /\ using \in [Requests -> Nat]
         /\ contexts \subseteq [request : Requests, browser : Nat]
         /\ TwoAttempts /\ CleanBrowser
BY DEF ServiceInv, ServiceTypeOK

LEMMA BeginKept ==
  ASSUME ServiceInv, NEW r \in Requests, Begin(r)
  PROVE  ServiceInv'
<1>1. phase[r] = "slot" /\ UNCHANGED <<cancelled, pool, failures>>
  BY DEF Begin
<1>2. CASE FinishRender(r, "error") /\ UNCHANGED <<chrome, contexts>>
  <2>1. "error" \in Replies /\ phase[r] \in Rendering
    BY <1>1 DEF Replies, Rendering
  <2>2. /\ UNCHANGED <<browser, connected, launching, launch, contexts>>
        /\ \A x \in Requests : phase[x] \in {"waiting", "validating"} => phase'[x] = phase[x]
        /\ \A x \in Requests : phase[x] \in {"context", "drawn"}
              => phase'[x] = phase[x] /\ using'[x] = using[x]
    BY <1>1, <1>2, <2>1, SlotHanded DEF chrome
  <2>3. CleanBrowser'
    BY <2>2, ContextsStay DEF ServiceInv
  <2> QED BY <1>1, <1>2, <2>1, <2>2, <2>3, SlotHanded, SlotStep, ServiceTypes
<1>3. CASE /\ (phase' = [phase EXCEPT ![r] = "context"] \/ phase' = [phase EXCEPT ![r] = "launch"])
           /\ attempt' = [attempt EXCEPT ![r] = @ + 1]
           /\ UNCHANGED <<reply, slots>>
  <2>1. attempt[r] <= 1 /\ attempt[r] \in 0 .. 2
    BY <1>1, ServiceTypes DEF TwoAttempts
  <2>2. attempt' \in [Requests -> 0 .. 2] /\ \A x \in Requests \ {r} : attempt'[x] = attempt[x]
    BY <1>3, <2>1, ServiceTypes
  <2>3. /\ phase' \in [Requests -> Waits \cup {"done"}] /\ phase'[r] \in {"context", "launch"}
        /\ \A x \in Requests \ {r} : phase'[x] = phase[x]
    BY <1>3, ServiceTypes DEF Waits
  <2>4. TwoAttempts'
    BY <2>2, <2>3, ServiceTypes DEF TwoAttempts
  <2>5. /\ free' \in 0 .. Slots /\ queue' \in Seq(Requests)
        /\ InLine(queue', phase', "queued") /\ SlotsKept'
        /\ \A x \in Requests : phase[x] \in {"waiting", "validating"} => phase'[x] = phase[x]
    <3>1. \A x \in Requests : phase'[x] # phase[x] => phase[x] \in Rendering /\ phase'[x] \in Rendering
      BY <1>1, <2>3 DEF Rendering
    <3> QED BY <1>3, <2>3, <3>1, HoldersStep
  <2>6. CASE /\ connected /\ phase' = [phase EXCEPT ![r] = "context"]
             /\ using' = [using EXCEPT ![r] = browser]
             /\ contexts' = contexts \cup {[request |-> r, browser |-> browser]}
             /\ UNCHANGED chrome
    <3>1. /\ UNCHANGED <<browser, connected, launching, launch>>
          /\ using' \in [Requests -> Nat]
          /\ contexts' \subseteq [request : Requests, browser : Nat]
      BY <2>6, ServiceTypes DEF chrome
    <3>2. CleanBrowser'
      <4> SUFFICES ASSUME NEW c \in contexts', c.browser = browser
                   PROVE  phase'[c.request] \in {"context", "drawn"} /\ using'[c.request] = browser
        BY <3>1 DEF CleanBrowser
      <4>1. CASE c.request = r
        BY <2>6, <4>1, ServiceTypes
      <4>2. CASE c.request # r
        <5>1. c \in contexts /\ c.request \in Requests
          BY <2>6, <4>2, ServiceTypes
        <5> QED BY <2>6, <4>2, <5>1, ServiceTypes DEF CleanBrowser
      <4> QED BY <4>1, <4>2
    <3> QED BY <1>1, <1>3, <2>2, <2>3, <2>4, <2>5, <3>1, <3>2, SlotStep, ServiceTypes
  <2>7. CASE /\ ~connected /\ phase' = [phase EXCEPT ![r] = "launch"]
             /\ using' = [using EXCEPT ![r] = 0]
             /\ launching' = launching \cup {r} /\ launch' = TRUE
             /\ UNCHANGED <<browser, connected, contexts>>
    <3>1. CleanBrowser'
      BY <2>7 DEF CleanBrowser
    <3>2. using' \in [Requests -> Nat] /\ launching' \subseteq Requests
      BY <2>7, ServiceTypes
    <3> QED BY <1>1, <1>3, <2>2, <2>3, <2>4, <2>5, <2>7, <3>1, <3>2, SlotStep, ServiceTypes
  <2> QED BY <1>1, <1>3, <2>3, <2>6, <2>7, ServiceTypes DEF Begin, FinishRender
<1>4. \/ FinishRender(r, "error") /\ UNCHANGED <<chrome, contexts>>
      \/ /\ (phase' = [phase EXCEPT ![r] = "context"] \/ phase' = [phase EXCEPT ![r] = "launch"])
         /\ attempt' = [attempt EXCEPT ![r] = @ + 1]
         /\ UNCHANGED <<reply, slots>>
  BY DEF Begin
<1> QED BY <1>2, <1>3, <1>4

LEMMA LaunchedKept ==
  ASSUME ServiceInv, Launched
  PROVE  ServiceInv'
<1>1. /\ launch' = FALSE /\ launching' = {} /\ browser' = browser + 1 /\ connected' = TRUE
      /\ phase' = [x \in Requests |-> IF x \in Continue THEN "context" ELSE phase[x]]
      /\ using' = [x \in Requests |-> IF x \in Continue THEN browser + 1 ELSE using[x]]
      /\ contexts' = [request : Continue, browser : {browser + 1}]
      /\ UNCHANGED <<reply, cancelled, pool, slots, attempt, failures>>
  BY DEF Launched
<1>2. Continue \subseteq Requests /\ \A x \in Continue : phase[x] = "launch"
  BY ServiceTypes DEF Continue
<1>3. phase' \in [Requests -> Waits \cup {"done"}] /\ using' \in [Requests -> Nat]
  BY <1>1, ServiceTypes DEF Waits
<1>4. \A x \in Requests : phase'[x] # phase[x] => phase[x] = "launch" /\ phase'[x] = "context"
  BY <1>1, <1>2
<1>5. /\ free' \in 0 .. Slots /\ queue' \in Seq(Requests)
      /\ InLine(queue', phase', "queued") /\ SlotsKept'
      /\ \A x \in Requests : phase[x] \in {"waiting", "validating"} => phase'[x] = phase[x]
  BY <1>1, <1>3, <1>4, HoldersStep DEF Rendering
<1>6. TwoAttempts'
  BY <1>1, <1>4, ServiceTypes DEF TwoAttempts
<1>7. CleanBrowser'
  BY <1>1, <1>2 DEF CleanBrowser
<1>8. browser' \in Nat /\ browser' >= 1 /\ contexts' \subseteq [request : Requests, browser : Nat]
  BY <1>1, <1>2, ServiceTypes
<1> QED BY <1>1, <1>3, <1>5, <1>6, <1>7, <1>8, SlotStep, ServiceTypes

LEMMA LaunchFailsKept ==
  ASSUME ServiceInv, LaunchFails
  PROVE  ServiceInv'
<1>1. /\ launch' = FALSE /\ launching' = {} /\ Failure
      /\ phase' = [x \in Requests |-> IF x \in Continue THEN "broken" ELSE phase[x]]
      /\ UNCHANGED <<reply, cancelled, pool, slots, browser, connected, attempt, using, contexts>>
  BY DEF LaunchFails, attempts
<1>2. /\ phase' \in [Requests -> Waits \cup {"done"}]
      /\ \A x \in Requests : phase'[x] # phase[x] => phase[x] = "launch" /\ phase'[x] = "broken"
  BY <1>1, ServiceTypes DEF Waits, Continue
<1>3. /\ free' \in 0 .. Slots /\ queue' \in Seq(Requests)
      /\ InLine(queue', phase', "queued") /\ SlotsKept'
      /\ \A x \in Requests : phase[x] \in {"waiting", "validating"} => phase'[x] = phase[x]
  BY <1>1, <1>2, HoldersStep DEF Rendering
<1>4. TwoAttempts'
  BY <1>1, <1>2, ServiceTypes DEF TwoAttempts
<1>5. CleanBrowser'
  BY <1>1, <1>2, ContextsStay DEF ServiceInv
<1> QED BY <1>1, <1>2, <1>3, <1>4, <1>5, SlotStep, ServiceTypes

LEMMA BrowserDiesKept ==
  ASSUME ServiceInv, BrowserDies
  PROVE  ServiceInv'
<1>1. /\ connected' = FALSE /\ Failure
      /\ UNCHANGED <<phase, reply, cancelled, pool, free, queue, browser, launching, launch,
                     attempt, using, contexts>>
  BY DEF BrowserDies, attempts, slots
<1>2. CleanBrowser' /\ TwoAttempts' /\ SlotsKept' /\ InLine(queue', phase', "queued")
  BY <1>1 DEF ServiceInv, CleanBrowser, TwoAttempts, SlotsKept, Holding, Lines
<1> QED BY <1>1, <1>2, SlotStep, ServiceTypes

\* The page has drawn, or the browser is no longer there.
LEMMA DrawKept ==
  ASSUME ServiceInv, NEW r \in Requests, Draw(r) \/ Break(r)
  PROVE  ServiceInv'
<1>1. /\ phase[r] = "context"
      /\ \/ phase' = [phase EXCEPT ![r] = "drawn"]
         \/ phase' = [phase EXCEPT ![r] = "broken"] /\ ~(using[r] = browser /\ connected)
      /\ UNCHANGED <<cancelled, pool, slots, browser, connected, launching, launch,
                     attempt, using, contexts, failures>>
  BY DEF Draw, Break, chrome, attempts
<1>2. reply' \in [Requests -> Replies]
  BY ServiceTypes DEF Draw, Break, Replies
<1>3. /\ phase' \in [Requests -> Waits \cup {"done"}] /\ phase'[r] \in {"drawn", "broken"}
      /\ \A x \in Requests \ {r} : phase'[x] = phase[x]
  BY <1>1, ServiceTypes DEF Waits
<1>4. /\ free' \in 0 .. Slots /\ queue' \in Seq(Requests)
      /\ InLine(queue', phase', "queued") /\ SlotsKept'
      /\ \A x \in Requests : phase[x] \in {"waiting", "validating"} => phase'[x] = phase[x]
  BY <1>1, <1>3, HoldersStep DEF Rendering
<1>5. TwoAttempts'
  BY <1>1, <1>3, ServiceTypes DEF TwoAttempts
<1>6. \A x \in Requests : phase[x] \in {"context", "drawn"} /\ using[x] = browser /\ connected'
         => phase'[x] \in {"context", "drawn"} /\ using'[x] = using[x]
  BY <1>1, <1>3, ServiceTypes
<1>7. CleanBrowser'
  BY <1>1, <1>6, ContextsStay DEF ServiceInv
<1> QED BY <1>1, <1>2, <1>3, <1>4, <1>5, <1>7, SlotStep, ServiceTypes

\* A rendering may end when none of its contexts is open in the browser.
LEMMA RenderEnds ==
  ASSUME ServiceInv, NEW r \in Requests, phase[r] \in Rendering, NEW a \in Replies,
         FinishRender(r, a), UNCHANGED <<cancelled, pool, browser, launching, launch>>,
         Failure \/ UNCHANGED failures, connected' \in BOOLEAN, connected' => connected,
         contexts' \subseteq contexts,
         connected' => \A c \in contexts' : c.request = r => c.browser # browser
  PROVE  ServiceInv'
<1>1. /\ \A x \in Requests : phase[x] \in {"waiting", "validating"} => phase'[x] = phase[x]
      /\ \A x \in Requests \ {r} : phase[x] \in {"context", "drawn"}
           => phase'[x] = phase[x] /\ using'[x] = using[x]
  <2>1. phase[r] \notin {"waiting", "validating"}
    BY DEF Rendering
  <2> QED BY <2>1, SlotHanded
<1>2. CleanBrowser'
  <2> SUFFICES ASSUME NEW c \in contexts', c.browser = browser, connected'
               PROVE  phase'[c.request] \in {"context", "drawn"} /\ using'[c.request] = browser
    BY DEF CleanBrowser
  <2>1. c \in contexts /\ c.request \in Requests \ {r}
    BY ServiceTypes
  <2> QED BY <1>1, <2>1, ServiceTypes DEF CleanBrowser
<1>3. contexts' \subseteq [request : Requests, browser : Nat]
  BY ServiceTypes
<1> QED BY <1>1, <1>2, <1>3, SlotHanded, SlotStep, ServiceTypes

\* The first attempt is repeated when the browser has died.
LEMMA RenderedAgain ==
  ASSUME ServiceInv, NEW r \in Requests, phase[r] \in Rendering, attempt[r] = 1,
         phase' = [phase EXCEPT ![r] = "slot"], ~connected, ~connected', connected' \in BOOLEAN,
         UNCHANGED <<cancelled, pool, slots, reply, attempt, using, browser, launching, launch>>,
         Failure \/ UNCHANGED failures, contexts' \subseteq contexts
  PROVE  ServiceInv'
<1>1. /\ phase' \in [Requests -> Waits \cup {"done"}] /\ phase'[r] = "slot"
      /\ \A x \in Requests \ {r} : phase'[x] = phase[x]
  BY ServiceTypes DEF Waits
<1>2. /\ free' \in 0 .. Slots /\ queue' \in Seq(Requests)
      /\ InLine(queue', phase', "queued") /\ SlotsKept'
      /\ \A x \in Requests : phase[x] \in {"waiting", "validating"} => phase'[x] = phase[x]
  <2>1. \A x \in Requests : phase'[x] # phase[x] => phase[x] \in Rendering /\ phase'[x] \in Rendering
    BY <1>1 DEF Rendering
  <2> QED BY <1>1, <2>1, HoldersStep
<1>3. TwoAttempts'
  BY <1>1, ServiceTypes DEF TwoAttempts
<1>4. CleanBrowser'
  BY DEF CleanBrowser
<1>5. contexts' \subseteq [request : Requests, browser : Nat]
  BY ServiceTypes
<1> QED BY <1>1, <1>2, <1>3, <1>4, <1>5, SlotStep, ServiceTypes

LEMMA CatchKept ==
  ASSUME ServiceInv, NEW r \in Requests, Catch(r)
  PROVE  ServiceInv'
<1>1. /\ phase[r] = "broken" /\ phase[r] \in Rendering /\ "error" \in Replies
      /\ UNCHANGED <<cancelled, pool, contexts, failures>>
  BY DEF Catch, Rendering, Replies
<1>2. CASE /\ attempt[r] = 1 /\ ~connected /\ phase' = [phase EXCEPT ![r] = "slot"]
           /\ UNCHANGED <<reply, slots, chrome, attempt, using>>
  BY <1>1, <1>2, RenderedAgain, ServiceTypes DEF chrome
<1>3. CASE /\ FinishRender(r, "error")
           /\ IF using[r] # 0 THEN Terminate(using[r]) ELSE UNCHANGED connected
           /\ UNCHANGED <<browser, launching, launch>>
  <2>1. connected' \in BOOLEAN /\ (connected' => connected)
    BY <1>3, ServiceTypes DEF Terminate
  <2>2. connected' => \A c \in contexts' : c.request = r => c.browser # browser
    BY <1>1, <2>1, ServiceTypes DEF CleanBrowser
  <2> QED BY <1>1, <1>3, <2>1, <2>2, RenderEnds
<1> QED BY <1>2, <1>3 DEF Catch

LEMMA CloseKept ==
  ASSUME ServiceInv, NEW r \in Requests, Close(r)
  PROVE  ServiceInv'
<1>1. /\ phase[r] = "drawn" /\ phase[r] \in Rendering /\ reply[r] \in Replies
      /\ UNCHANGED <<cancelled, pool, browser, launching, launch>>
      /\ Failure \/ UNCHANGED failures
  BY ServiceTypes DEF Close, Rendering
<1>2. \/ /\ contexts' = contexts \ {[request |-> r, browser |-> using[r]]}
         /\ connected' = connected
      \/ Terminate(using[r]) /\ contexts' = contexts
  BY DEF Close
<1>3. /\ connected' \in BOOLEAN /\ (connected' => connected) /\ contexts' \subseteq contexts
  BY <1>2, ServiceTypes DEF Terminate
\* Its only context in the browser is the one its attempt uses.
<1>4. connected' => \A c \in contexts' : c.request = r => c.browser # browser
  <2> SUFFICES ASSUME connected', NEW c \in contexts', c.request = r, c.browser = browser
               PROVE  FALSE
    OBVIOUS
  <2>1. c \in [request : Requests, browser : Nat] /\ c \in contexts /\ using[r] = browser
    BY <1>3, ServiceTypes DEF CleanBrowser
  <2>2. c = [request |-> r, browser |-> using[r]]
    BY <2>1
  <2> QED BY <1>2, <2>1, <2>2 DEF Terminate
<1>5. CASE /\ attempt[r] = 1 /\ ~connected /\ phase' = [phase EXCEPT ![r] = "slot"]
           /\ UNCHANGED <<reply, slots, attempt, using>>
  BY <1>1, <1>3, <1>5, RenderedAgain
<1>6. CASE FinishRender(r, reply[r])
  BY <1>1, <1>3, <1>4, <1>6, RenderEnds
<1> QED BY <1>5, <1>6 DEF Close

LEMMA DeadlineKept ==
  ASSUME ServiceInv, NEW r \in Requests, Deadline(r)
  PROVE  ServiceInv'
<1>1. /\ phase[r] \in Rendering /\ "error" \in Replies /\ FinishRender(r, "error")
      /\ IF using[r] # 0 THEN Terminate(using[r]) ELSE UNCHANGED connected
      /\ UNCHANGED <<cancelled, pool, browser, launching, launch, contexts, failures>>
  BY DEF Deadline, Rendering, Replies
<1>2. connected' \in BOOLEAN /\ (connected' => connected)
  BY <1>1, ServiceTypes DEF Terminate
<1>3. connected' => \A c \in contexts' : c.request = r => c.browser # browser
  <2> SUFFICES ASSUME connected', NEW c \in contexts, c.request = r, c.browser = browser
               PROVE  FALSE
    BY <1>1
  <2>1. using[r] = browser /\ browser # 0
    BY <1>2, ServiceTypes DEF CleanBrowser
  <2> QED BY <1>1, <2>1 DEF Terminate
<1> QED BY <1>1, <1>2, <1>3, RenderEnds

LEMMA ServiceInitially == ServiceInit => ServiceInv
<1> SUFFICES ASSUME ServiceInit PROVE ServiceInv
  OBVIOUS
<1>1. ServiceTypeOK
  <2>1. waiting \in Seq(Requests) /\ queue \in Seq(Requests)
    BY DEF ServiceInit
  <2>2. phase \in [Requests -> Waits \cup {"done"}] /\ reply \in [Requests -> Replies]
    BY DEF ServiceInit, Waits, Replies
  <2>3. 0 \in 0 .. 2 /\ 0 \in Nat /\ 1 \in Nat /\ Slots \in 0 .. Slots /\ 0 \in 0 .. MaxFailures
    BY RenderServiceAssumption
  <2> QED BY <2>1, <2>2, <2>3 DEF ServiceInit, ServiceTypeOK
<1>2. Lines
  <2>1. WorkersServe
    BY DEF ServiceInit, WorkersServe
  <2>2. InLine(waiting, phase, "waiting") /\ InLine(queue, phase, "queued")
    BY LineEmpty DEF ServiceInit
  <2> QED BY <2>1, <2>2 DEF Lines
<1>3. SlotsKept
  <2>1. Holding = {}
    BY DEF ServiceInit, Holding, Rendering
  <2> QED BY <2>1, FS_EmptySet, RenderServiceAssumption DEF ServiceInit, SlotsKept
<1>4. TwoAttempts /\ browser >= 1 /\ CleanBrowser
  BY DEF ServiceInit, TwoAttempts, CleanBrowser
<1> QED BY <1>1, <1>2, <1>3, <1>4 DEF ServiceInv

LEMMA ServiceStep == ServiceInv /\ (ServiceNext \/ UNCHANGED serviceVars) => ServiceInv'
<1>1. ServiceInv /\ ServiceNext => ServiceInv'
  BY BeginKept, DrawKept, CatchKept, CloseKept, DeadlineKept, ResultKept, TimeoutKept,
     WorkerErrorKept, ExitKept, ReplacedKept, ReplaceFailsKept, LaunchedKept, LaunchFailsKept,
     BrowserDiesKept DEF ServiceNext
<1>2. ServiceInv /\ UNCHANGED serviceVars => ServiceInv'
  BY DEF serviceVars, pool, slots, chrome, attempts, ServiceInv, ServiceTypeOK, Lines, WorkersServe,
     InLine, SlotsKept, Holding, TwoAttempts, CleanBrowser
<1> QED BY <1>1, <1>2

-----------------------------------------------------------------------------
(* The Pod: who holds the lock of a key, and what is saved of it.           *)

LockHeld ==
  \A q, r \in Requests :
    pod[q] \in {"held", "posted"} /\ pod[r] \in {"held", "posted"} /\ KeyOf[q] = KeyOf[r] => q = r

\* While a request is posted nothing is saved of its key.
PostedUnsaved ==
  \A r \in Requests : pod[r] = "posted" => Kept(r, "png") \notin saved /\ Kept(r, "rejection") \notin saved

AnswersSaved == \A r \in Requests : outcome[r] \in {"png", "rejection"} => Kept(r, outcome[r]) \in saved

OneOutcome == \A r \in Requests : Kept(r, "png") \notin saved \/ Kept(r, "rejection") \notin saved

Previews == {o \in saved : o.kind = "png"}
PreviewsCounted == Cardinality(Previews) <= MaxRenders

CacheInv == LockHeld /\ PostedUnsaved /\ AnswersSaved /\ OneOutcome /\ PreviewsCounted /\ stored = saved

RenderInv == RenderTypeOK /\ ServiceInv /\ (~LosesReplies => CacheInv)

LEMMA PreviewsFinite ==
  ASSUME RenderTypeOK
  PROVE  IsFiniteSet(Previews) /\ Cardinality(Previews) \in Nat
<1> DEFINE kept == {Kept(r, "png") : r \in Requests}
           keep == [r \in Requests |-> Kept(r, "png")]
<1>1. keep \in Surjection(Requests, kept)
  BY DEF Surjection
<1>2. IsFiniteSet(kept)
  BY <1>1, RenderServiceAssumption, FS_Surjection
<1>3. Previews \subseteq kept
  <2> SUFFICES ASSUME NEW o \in saved, o.kind = "png"
               PROVE  o \in kept
    BY DEF Previews
  <2>1. o \in [key : Key, kind : {"png", "rejection"}]
    BY DEF RenderTypeOK, Outcome
  <2>2. PICK r \in Requests : o.key = KeyOf[r]
    BY <2>1 DEF Key
  <2> QED BY <2>1, <2>2 DEF Kept
<1> QED BY <1>2, <1>3, FS_Subset, FS_CardinalityType

\* The handler of a request ends, with an answer that is saved or with none.
LEMMA HandlerEnds ==
  ASSUME RenderTypeOK, CacheInv, NEW r \in Requests, NEW a, Answer(r, a), UNCHANGED cache,
         a \in {"png", "rejection"} => Kept(r, a) \in saved
  PROVE  CacheInv'
<1>1. /\ pod' = [pod EXCEPT ![r] = "done"] /\ outcome' = [outcome EXCEPT ![r] = a]
      /\ saved' = saved /\ stored' = stored
      /\ pod \in [Requests -> {"none", "lock", "held", "posted", "done"}]
      /\ outcome \in [Requests -> Replies \cup {"exhausted"}]
  BY DEF Answer, cache, RenderTypeOK
<1>2. LockHeld' /\ PostedUnsaved'
  BY <1>1 DEF CacheInv, LockHeld, PostedUnsaved, Kept
<1>3. AnswersSaved'
  BY <1>1 DEF CacheInv, AnswersSaved, Kept
<1> QED BY <1>1, <1>2, <1>3 DEF CacheInv, OneOutcome, PreviewsCounted, Previews, Kept

\* Nothing but the place of a handler changes.
LEMMA HandlerMoves ==
  ASSUME RenderTypeOK, CacheInv, NEW r \in Requests,
         NEW st \in {"lock", "held", "posted"}, pod' = [pod EXCEPT ![r] = st],
         UNCHANGED <<outcome, cache>>,
         st \in {"held", "posted"} =>
           \A q \in Requests \ {r} : KeyOf[q] = KeyOf[r] => pod[q] \notin {"held", "posted"},
         st = "posted" => Kept(r, "png") \notin saved /\ Kept(r, "rejection") \notin saved
  PROVE  CacheInv'
<1>1. /\ saved' = saved /\ stored' = stored /\ outcome' = outcome
      /\ pod \in [Requests -> {"none", "lock", "held", "posted", "done"}]
  BY DEF cache, RenderTypeOK
<1>2. LockHeld'
  BY <1>1 DEF CacheInv, LockHeld
<1>3. PostedUnsaved'
  BY <1>1 DEF CacheInv, PostedUnsaved, Kept
<1> QED BY <1>1, <1>2, <1>3 DEF CacheInv, AnswersSaved, OneOutcome, PreviewsCounted, Previews, Kept

\* An outcome is saved: the only one of its key, and a preview only within the allowance.
LEMMA OutcomeSaved ==
  ASSUME RenderTypeOK, CacheInv, NEW r \in Requests, pod[r] = "posted",
         NEW a \in {"png", "rejection"}, a = "png" => ~Full, Answer(r, a),
         saved' = saved \cup {Kept(r, a)}, stored' = stored \cup {Kept(r, a)}
  PROVE  CacheInv'
<1>1. /\ pod' = [pod EXCEPT ![r] = "done"] /\ outcome' = [outcome EXCEPT ![r] = a]
      /\ pod \in [Requests -> {"none", "lock", "held", "posted", "done"}]
      /\ outcome \in [Requests -> Replies \cup {"exhausted"}]
  BY DEF Answer, RenderTypeOK
<1>2. Kept(r, "png") \notin saved /\ Kept(r, "rejection") \notin saved
  BY DEF CacheInv, PostedUnsaved
<1>3. LockHeld'
  BY <1>1 DEF CacheInv, LockHeld
<1>4. PostedUnsaved'
  <2> SUFFICES ASSUME NEW q \in Requests, pod'[q] = "posted"
               PROVE  Kept(q, "png") \notin saved' /\ Kept(q, "rejection") \notin saved'
    BY DEF PostedUnsaved, Kept
  <2>1. q # r /\ pod[q] = "posted" /\ KeyOf[q] # KeyOf[r]
    BY <1>1 DEF CacheInv, LockHeld
  <2> QED BY <2>1 DEF CacheInv, PostedUnsaved, Kept
<1>5. AnswersSaved'
  BY <1>1 DEF CacheInv, AnswersSaved, Kept
<1>6. OneOutcome'
  BY <1>2 DEF CacheInv, OneOutcome, Kept
<1>7. PreviewsCounted'
  <2>1. IsFiniteSet(Previews) /\ Cardinality(Previews) \in Nat /\ Cardinality(Previews) <= MaxRenders
    BY PreviewsFinite DEF CacheInv, PreviewsCounted
  <2>2. CASE a = "png"
    <3>1. Previews' = Previews \cup {Kept(r, a)}
      BY <2>2 DEF Previews, Kept
    <3>2. Cardinality(Previews) < MaxRenders
      BY <2>1, <2>2, PodRenderAssumption DEF Full, Previews
    <3>3. Kept(r, a) \notin Previews
      BY <1>2, <2>2 DEF Previews
    <3>4. Cardinality(Previews \cup {Kept(r, a)}) = Cardinality(Previews) + 1
      BY <2>1, <3>3, FS_AddElement
    <3>5. Cardinality(Previews) + 1 <= MaxRenders
      BY <2>1, <3>2, PodRenderAssumption
    <3> QED BY <3>1, <3>4, <3>5 DEF PreviewsCounted
  <2>3. CASE a = "rejection"
    <3>1. Previews' = Previews
      BY <2>3 DEF Previews, Kept
    <3> QED BY <2>1, <3>1 DEF PreviewsCounted
  <2> QED BY <2>2, <2>3
<1> QED BY <1>3, <1>4, <1>5, <1>6, <1>7 DEF CacheInv

-----------------------------------------------------------------------------
(* The steps of the Pod.                                                    *)

LEMMA AskKept ==
  ASSUME RenderInv, NEW r \in Requests, Ask(r)
  PROVE  RenderInv'
<1>1. /\ pod' = [pod EXCEPT ![r] = "lock"] /\ UNCHANGED <<serviceVars, outcome, cache>>
      /\ saved' = saved /\ stored' = stored
  BY DEF Ask, cache
<1>2. ServiceInv'
  BY <1>1, ServiceStep DEF RenderInv
<1>3. RenderTypeOK'
  BY <1>1, <1>2 DEF RenderInv, RenderTypeOK, ServiceInv, Outcome, Key
<1>4. ~LosesReplies => CacheInv'
  BY <1>1, HandlerMoves DEF RenderInv
<1> QED BY <1>2, <1>3, <1>4 DEF RenderInv

LEMMA LockKept ==
  ASSUME RenderInv, NEW r \in Requests, Lock(r)
  PROVE  RenderInv'
<1>1. /\ pod' = [pod EXCEPT ![r] = "held"] /\ UNCHANGED <<serviceVars, outcome, cache>>
      /\ saved' = saved /\ stored' = stored
      /\ \A q \in Requests \ {r} : KeyOf[q] = KeyOf[r] => pod[q] \notin {"held", "posted"}
  BY DEF Lock, cache
<1>2. ServiceInv'
  BY <1>1, ServiceStep DEF RenderInv
<1>3. RenderTypeOK'
  BY <1>1, <1>2 DEF RenderInv, RenderTypeOK, ServiceInv, Outcome, Key
<1>4. ~LosesReplies => CacheInv'
  <2>1. ASSUME CacheInv PROVE CacheInv'
    <3>1. RenderTypeOK
      BY DEF RenderInv
    <3>2. "held" \in {"lock", "held", "posted"} /\ "held" # "posted"
      OBVIOUS
    <3> QED BY <1>1, <2>1, <3>1, <3>2, HandlerMoves
  <2> QED BY <2>1 DEF RenderInv
<1> QED BY <1>2, <1>3, <1>4 DEF RenderInv

\* The answer of a handler and what the cache becomes are of their types.
LEMMA AnswerTyped ==
  ASSUME RenderTypeOK, ServiceTypeOK', NEW r \in Requests, NEW a \in Replies \cup {"exhausted"},
         Answer(r, a), saved' \subseteq Outcome, stored' \subseteq Outcome
  PROVE  RenderTypeOK'
BY DEF Answer, RenderTypeOK, Outcome, Key

LEMMA LookupKept ==
  ASSUME RenderInv, NEW r \in Requests, Lookup(r)
  PROVE  RenderInv'
<1> USE DEF RenderInv
<1>1. /\ pod[r] = "held" /\ saved' = saved /\ stored' = stored /\ UNCHANGED cache
      /\ saved \subseteq Outcome /\ stored \subseteq Outcome
  BY DEF Lookup, cache, RenderTypeOK
<1>2. ASSUME NEW a \in {"png", "rejection", "exhausted"}, Answer(r, a), UNCHANGED serviceVars,
             a \in {"png", "rejection"} => Kept(r, a) \in saved
      PROVE  RenderInv'
  <2>1. ServiceInv'
    BY <1>2, ServiceStep
  <2>2. RenderTypeOK'
    BY <1>1, <1>2, <2>1, AnswerTyped DEF ServiceInv, Replies
  <2>3. ~LosesReplies => CacheInv'
    BY <1>1, <1>2, HandlerEnds
  <2> QED BY <2>1, <2>2, <2>3
<1>3. ASSUME Kept(r, "png") \notin saved, Kept(r, "rejection") \notin saved,
             Arrive(r), pod' = [pod EXCEPT ![r] = "posted"], outcome' = outcome
      PROVE  RenderInv'
  <2>1. ServiceInv'
    BY <1>3, ArriveKept
  <2>2. RenderTypeOK'
    BY <1>1, <1>3, <2>1 DEF RenderTypeOK, ServiceInv, Outcome, Key
  <2>3. ASSUME CacheInv PROVE CacheInv'
    <3>1. \A q \in Requests \ {r} : KeyOf[q] = KeyOf[r] => pod[q] \notin {"held", "posted"}
      BY <1>1, <2>3 DEF CacheInv, LockHeld
    <3>2. "posted" \in {"lock", "held", "posted"} /\ UNCHANGED <<outcome, cache>>
      BY <1>1, <1>3
    <3> QED BY <1>3, <2>3, <3>1, <3>2, HandlerMoves
  <2> QED BY <2>1, <2>2, <2>3
<1> QED BY <1>2, <1>3 DEF Lookup

LEMMA SaveKept ==
  ASSUME RenderInv, NEW r \in Requests, Save(r)
  PROVE  RenderInv'
<1> USE DEF RenderInv
<1>1. /\ pod[r] = "posted" /\ reply[r] \in Replies
      /\ saved \subseteq Outcome /\ stored \subseteq Outcome
  BY DEF Save, RenderTypeOK, ServiceTypeOK
<1>2. ServiceInv'
  BY ServiceStep DEF Save
<1>3. ASSUME NEW a \in Replies \cup {"exhausted"}, a \notin {"png", "rejection"},
             Answer(r, a), UNCHANGED cache
      PROVE  RenderInv'
  <2>1. RenderTypeOK'
    BY <1>1, <1>2, <1>3, AnswerTyped DEF ServiceInv, cache
  <2> QED BY <1>2, <1>3, <2>1, HandlerEnds
<1>4. ASSUME reply[r] \in {"png", "rejection"}, reply[r] = "rejection" \/ ~Full,
             saved' = saved \cup {Kept(r, reply[r])}, stored' = stored \cup {Kept(r, reply[r])},
             Answer(r, reply[r])
      PROVE  RenderInv'
  <2>1. Kept(r, reply[r]) \in Outcome
    BY <1>4 DEF Kept, Outcome, Key
  <2>2. RenderTypeOK'
    BY <1>1, <1>2, <1>4, <2>1, AnswerTyped DEF ServiceInv
  <2>3. ~LosesReplies => CacheInv'
    BY <1>1, <1>4, OutcomeSaved
  <2> QED BY <1>2, <2>2, <2>3
<1> QED BY <1>1, <1>3, <1>4 DEF Save

LEMMA SaveFailsKept ==
  ASSUME RenderInv, NEW r \in Requests, SaveFails(r)
  PROVE  RenderInv'
<1> USE DEF RenderInv
<1>1. /\ reply[r] \in {"png", "rejection"} /\ Failure /\ Answer(r, "error") /\ saved' = saved
      /\ UNCHANGED <<phase, reply, cancelled, worker, serving, available, waiting, free, queue,
                     browser, connected, launching, launch, attempt, using, contexts>>
  BY DEF SaveFails, pool, slots, chrome, attempts
<1>2. ServiceInv'
  <2>1. ServiceTypeOK'
    BY <1>1, FailureType DEF ServiceInv, ServiceTypeOK
  <2>2. Lines' /\ TwoAttempts' /\ CleanBrowser'
    BY <1>1 DEF ServiceInv, Lines, WorkersServe, InLine, TwoAttempts, CleanBrowser
  <2>3. SlotsKept' /\ browser' >= 1
    BY <1>1 DEF ServiceInv, SlotsKept, Holding
  <2> QED BY <2>1, <2>2, <2>3 DEF ServiceInv
<1>3. stored' \subseteq Outcome /\ saved' \subseteq Outcome
  BY <1>1 DEF SaveFails, RenderTypeOK, Kept, Outcome, Key
<1>4. RenderTypeOK'
  BY <1>1, <1>2, <1>3, AnswerTyped DEF ServiceInv, Replies
<1>5. ASSUME ~LosesReplies PROVE CacheInv'
  <2>1. stored' = stored
    BY <1>5 DEF SaveFails
  <2>2. UNCHANGED cache
    BY <1>1, <2>1 DEF cache
  <2> QED BY <1>1, <1>5, <2>2, HandlerEnds
<1> QED BY <1>2, <1>4, <1>5

LEMMA GiveUpKept ==
  ASSUME RenderInv, NEW r \in Requests, GiveUp(r)
  PROVE  RenderInv'
<1> USE DEF RenderInv
<1>1. /\ Answer(r, "error") /\ cancelled' = cancelled \cup {r} /\ UNCHANGED cache
      /\ saved' = saved /\ stored' = stored
      /\ UNCHANGED <<phase, reply, worker, serving, available, waiting, free, queue, failures,
                     browser, connected, launching, launch, attempt, using, contexts>>
  BY DEF GiveUp, pool, slots, chrome, attempts, cache
<1>2. ServiceInv'
  <2>1. ServiceTypeOK'
    BY <1>1 DEF ServiceInv, ServiceTypeOK
  <2>2. Lines' /\ TwoAttempts' /\ CleanBrowser'
    BY <1>1 DEF ServiceInv, Lines, WorkersServe, InLine, TwoAttempts, CleanBrowser
  <2>3. SlotsKept' /\ browser' >= 1
    BY <1>1 DEF ServiceInv, SlotsKept, Holding
  <2> QED BY <2>1, <2>2, <2>3 DEF ServiceInv
<1>3. RenderTypeOK'
  BY <1>1, <1>2, AnswerTyped DEF ServiceInv, Replies, RenderTypeOK
<1> QED BY <1>1, <1>2, <1>3, HandlerEnds

LEMMA RestartKept ==
  ASSUME RenderInv, Restart
  PROVE  RenderInv'
<1> USE DEF RenderInv
<1>1. /\ phase' = [x \in Requests |-> IF phase[x] = "none" THEN "none" ELSE "done"]
      /\ waiting' = <<>> /\ queue' = <<>> /\ free' = Slots
      /\ serving' = [w \in Workers |-> None]
      /\ attempt' = [x \in Requests |-> 0] /\ contexts' = {} /\ browser' = browser + 1
  BY DEF Restart
<1>2. phase' \in [Requests -> {"none", "done"}]
  BY <1>1
<1>3. ServiceTypeOK'
  <2>1. waiting' \in Seq(Requests) /\ queue' \in Seq(Requests)
    BY <1>1
  <2>2. failures' \in 0 .. MaxFailures
    BY FailureType DEF Restart, ServiceInv
  <2>3. phase' \in [Requests -> Waits \cup {"done"}]
    BY <1>2 DEF Waits
  <2>4. /\ worker' \in [Workers -> {"live", "killed", "failed", "replacing", "lost"}]
        /\ serving' \in [Workers -> Requests \cup {None}] /\ available' \subseteq Workers
        /\ connected' \in BOOLEAN /\ launch' \in BOOLEAN /\ launching' \subseteq Requests
    BY <1>1 DEF Restart
  <2>5. /\ free' \in 0 .. Slots /\ browser' \in Nat
        /\ attempt' \in [Requests -> 0 .. 2] /\ using' \in [Requests -> Nat]
        /\ contexts' \subseteq [request : Requests, browser : Nat]
    BY <1>1, ServiceTypes, RenderServiceAssumption DEF Restart
  <2>6. reply' \in [Requests -> Replies] /\ cancelled' \subseteq Requests
    BY DEF Restart, ServiceInv, ServiceTypeOK
  <2> QED BY <2>1, <2>2, <2>3, <2>4, <2>5, <2>6 DEF ServiceTypeOK
<1>4. ServiceInv'
  <2>1. WorkersServe'
    BY <1>1 DEF WorkersServe
  <2>2. Lines'
    BY <1>1, <2>1, LineEmpty DEF Lines
  <2>3. Holding' = {}
    BY <1>2 DEF Holding, Rendering
  <2>4. SlotsKept'
    BY <1>1, <2>3, FS_EmptySet, RenderServiceAssumption DEF SlotsKept
  <2>5. TwoAttempts' /\ CleanBrowser' /\ browser' >= 1
    BY <1>1, ServiceTypes DEF TwoAttempts, CleanBrowser
  <2> QED BY <1>3, <2>2, <2>4, <2>5 DEF ServiceInv
<1>5. /\ pod' = [x \in Requests |-> IF pod[x] = "none" THEN "none" ELSE "done"]
      /\ saved' = stored /\ stored' = stored /\ outcome' = outcome
  BY DEF Restart
<1>6. RenderTypeOK'
  BY <1>3, <1>5 DEF RenderTypeOK, Outcome, Key
<1>7. ASSUME CacheInv PROVE CacheInv'
  <2>1. LockHeld' /\ PostedUnsaved'
    BY <1>5 DEF LockHeld, PostedUnsaved
  <2>2. saved' = saved
    BY <1>5, <1>7 DEF CacheInv
  <2> QED BY <1>5, <1>7, <2>1, <2>2
          DEF CacheInv, AnswersSaved, OneOutcome, PreviewsCounted, Previews, Kept
<1> QED BY <1>4, <1>6, <1>7

LEMMA RenderInitially == RenderInit => RenderInv
<1> SUFFICES ASSUME RenderInit PROVE RenderInv
  OBVIOUS
<1>1. ServiceInv
  BY ServiceInitially DEF RenderInit
<1>2. RenderTypeOK
  BY <1>1 DEF RenderInit, RenderTypeOK, ServiceInv, Replies
<1>3. CacheInv
  <2>1. Previews = {}
    BY DEF RenderInit, Previews
  <2>2. PreviewsCounted
    BY <2>1, FS_EmptySet, PodRenderAssumption DEF PreviewsCounted
  <2> QED BY <2>2 DEF RenderInit, CacheInv, LockHeld, PostedUnsaved, AnswersSaved, OneOutcome
<1> QED BY <1>1, <1>2, <1>3 DEF RenderInv

LEMMA RenderStep == RenderInv /\ [RenderNext]_renderVars => RenderInv'
<1> SUFFICES ASSUME RenderInv, [RenderNext]_renderVars PROVE RenderInv'
  OBVIOUS
<1>1. ASSUME NEW r \in Requests, Handle(r) PROVE RenderInv'
  BY <1>1, AskKept, LockKept, LookupKept, SaveKept, SaveFailsKept, GiveUpKept DEF Handle
<1>2. ASSUME ServiceNext \/ UNCHANGED serviceVars, UNCHANGED <<pod, outcome, cache>>
      PROVE  RenderInv'
  <2>1. ServiceInv'
    BY <1>2, ServiceStep DEF RenderInv
  <2>2. saved' = saved /\ stored' = stored /\ pod' = pod /\ outcome' = outcome
    BY <1>2 DEF cache
  <2>3. RenderTypeOK'
    BY <2>1, <2>2 DEF RenderInv, RenderTypeOK, ServiceInv, Outcome, Key
  <2>4. CacheInv => CacheInv'
    BY <2>2 DEF CacheInv, LockHeld, PostedUnsaved, AnswersSaved, OneOutcome, PreviewsCounted,
                Previews, Kept
  <2> QED BY <2>1, <2>3, <2>4 DEF RenderInv
<1> QED BY <1>1, <1>2, RestartKept DEF RenderNext, renderVars

LEMMA RenderInvariant == RenderSpec => []RenderInv
BY RenderInitially, RenderStep, PTL DEF RenderSpec

\* Every request of a preview is in one place of its handlers, its line and its slot
\* (render-pool.js, validation-pool.js and direct.py).
THEOREM RenderType == RenderSpec => []RenderTypeOK
<1>1. RenderInv => RenderTypeOK
  BY DEF RenderInv
<1> QED BY <1>1, RenderInvariant, PTL

\* A context that is open in the browser belongs to a rendering that holds a slot
\* (render-pool.js:82-127, browser.js:54-58).
THEOREM BrowserIsClean == RenderSpec => []CleanBrowser
<1>1. RenderInv => CleanBrowser
  BY DEF RenderInv, ServiceInv
<1> QED BY <1>1, RenderInvariant, PTL

\* No slot is lost or given twice, whatever times out, is abandoned or dies
\* (render-pool.js:56-127).
THEOREM NoSlotLost == RenderSpec => []SlotsKept
<1>1. RenderInv => SlotsKept
  BY DEF RenderInv, ServiceInv
<1> QED BY <1>1, RenderInvariant, PTL

\* When a failed upload has stored nothing, identical requests are answered alike
\* (direct.py:316-358, renderer.py:50-79).
THEOREM IdenticalRequestsAgree == ~LosesReplies => (RenderSpec => []AnswersAgree)
<1> SUFFICES ASSUME ~LosesReplies PROVE RenderSpec => []AnswersAgree
  OBVIOUS
<1>1. ASSUME RenderInv PROVE AnswersAgree
  <2> SUFFICES ASSUME NEW q \in Requests, NEW r \in Requests, KeyOf[q] = KeyOf[r],
                      outcome[q] \in {"png", "rejection"}, outcome[r] \in {"png", "rejection"}
               PROVE  outcome[q] = outcome[r]
    BY DEF AnswersAgree
  <2>1. Kept(q, outcome[q]) \in saved /\ Kept(r, outcome[r]) \in saved
    BY <1>1 DEF RenderInv, CacheInv, AnswersSaved
  <2> QED BY <1>1, <2>1 DEF RenderInv, CacheInv, OneOutcome, Kept
<1> QED BY <1>1, RenderInvariant, PTL

\* And a miner has no more previews than a round allows (direct.py:333,
\* renderer.py:66-79).
THEOREM PreviewsWithinAllowance == ~LosesReplies => (RenderSpec => []WithinAllowance)
<1> SUFFICES ASSUME ~LosesReplies PROVE RenderSpec => []WithinAllowance
  OBVIOUS
<1>1. RenderInv => WithinAllowance
  BY DEF RenderInv, CacheInv, PreviewsCounted, Previews, WithinAllowance
<1> QED BY <1>1, RenderInvariant, PTL
=============================================================================
