-------------------------------- MODULE Reign --------------------------------
(***************************************************************************)
(* What the competition promises about its leader: rounds end one after    *)
(* another, each with one result that never changes, and leader.json takes *)
(* a new entry exactly when a round ends with a source that is not the     *)
(* leader's.                                                               *)
(***************************************************************************)
EXTENDS Naturals, Sequences

CONSTANTS Sources,  \* what a leader runs: a repository and a commit of it
          First     \* the leader before the first round

VARIABLES results, \* the source each ended round declared, in order
          reign    \* the sources of leader.json, in order
vars == <<results, reign>>

Leader == reign[Len(reign)]

Init == results = <<>> /\ reign = <<First>>

EndRound(s) ==
  /\ results' = Append(results, s)
  /\ reign' = IF s = Leader THEN reign ELSE Append(reign, s)

Next == \E s \in Sources : EndRound(s)

Spec == Init /\ [][Next]_vars

=============================================================================
