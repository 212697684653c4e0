------------------------------ MODULE Attempts ------------------------------
(***************************************************************************)
(* What the witness promises about one logical call: it is attempted again  *)
(* only after a failure, an attempt sends at most one request to the        *)
(* provider, one that is called undispatched never sends any, and a result  *)
(* comes from a request that was sent and is final.                         *)
(***************************************************************************)
EXTENDS Naturals

CONSTANT Exchanges       \* the attempts, numbered in their order

VARIABLES attempt,       \* the current one
          state,         \* of the current attempt
          sent,          \* requests sent to the provider for each attempt
          undispatched   \* attempts reported as never dispatched

vars == <<attempt, state, sent, undispatched>>

Init ==
    /\ attempt = 1
    /\ state = "open"
    /\ sent = [x \in Exchanges |-> 0]
    /\ undispatched = {}

Send(x) ==
    /\ sent[x] = 0
    /\ x \notin undispatched
    /\ sent' = [sent EXCEPT ![x] = 1]
    /\ UNCHANGED <<attempt, state, undispatched>>

Fail ==
    /\ state = "open"
    /\ state' = "failed"
    /\ \/ UNCHANGED undispatched
       \/ sent[attempt] = 0 /\ undispatched' = undispatched \cup {attempt}
    /\ UNCHANGED <<attempt, sent>>

Retry ==
    /\ state = "failed"
    /\ attempt' = attempt + 1
    /\ state' = "open"
    /\ UNCHANGED <<sent, undispatched>>

Complete ==
    /\ state = "open"
    /\ sent[attempt] = 1
    /\ state' = "issued"
    /\ UNCHANGED <<attempt, sent, undispatched>>

Next == (\E x \in Exchanges : Send(x)) \/ Fail \/ Retry \/ Complete

Spec == Init /\ [][Next]_vars
=============================================================================
