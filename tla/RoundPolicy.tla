---------------------------- MODULE RoundPolicy ----------------------------
(***************************************************************************)
(* When a witness Pod may start new work: the competition repository's      *)
(* state, the gateway's RoundController that reads it and leases it out      *)
(* (rounds.py), and the Pods that keep the lease (pod.py).  One round, one   *)
(* gateway, several Pods.                                                  *)
(*                                                                         *)
(* A unit of time is 12 seconds, the expected time of a block; blocks come   *)
(* that often or slower, as the lease assumes.  One clock: the code allows   *)
(* a skew of 5 seconds.                                                    *)
(***************************************************************************)
EXTENDS Integers, Sequences

CONSTANTS
    Pods,        \* in the order they are created: 1..n
    Inputs,      \* fingerprints of the inputs that a commit may publish
    Ttl,         \* WITNESS_ROUND_POLICY_SECONDS
    Fresh,       \* age at which the head's block is stale (60 seconds)
    Deadline,    \* generation_deadline_block, the same in every commit
    MaxTime,     \* bound: the time
    MaxFaults    \* bound: commits, failures, restarts and losses together

NoInputs == "none"

ASSUME PolicyAssumption ==
    /\ Pods \subseteq Nat \ {0} /\ 1 \in Pods
    /\ NoInputs \notin Inputs
    /\ {Ttl, Fresh, Deadline, MaxTime, MaxFaults} \subseteq Nat

NoPolicy == [revision |-> 0, open |-> FALSE, inputs |-> NoInputs, observed |-> 0, expires |-> 0]

VARIABLES
    now, block, blockAt,
    commits,     \* the branch: stage MINER_GENERATION or not, inputs, time
    faults,
    pin,         \* the inputs saved for the round in R2
    policy, inputs,  \* RoundController.policy, .inputs
    refreshed,   \* when its last refresh ended
    frozen,      \* WITNESS_ROUND_INPUTS of each Pod, NoInputs before it exists
    lease        \* round_policy of each Pod

time == <<now, block, blockAt>>
gateway == <<pin, policy, inputs, refreshed>>
policyVars == <<time, commits, faults, gateway, frozen, lease>>

Tip == Len(commits)

States == [open : BOOLEAN, inputs : Inputs, at : 0..MaxTime]
Policies == [revision : 0..(MaxFaults + 1), open : BOOLEAN, inputs : Inputs \cup {NoInputs},
             observed : 0..MaxTime, expires : 0..(MaxTime + Ttl)]

PolicyTypeOK ==
    /\ now \in 0..MaxTime /\ block \in 0..MaxTime /\ blockAt \in 0..now
    /\ commits \in Seq(States) /\ Tip \in 1..(faults + 1)
    /\ faults \in 0..MaxFaults /\ refreshed \in 0..now
    /\ pin \in Inputs /\ inputs \in Inputs \cup {NoInputs} /\ policy \in Policies
    /\ frozen \in [Pods -> Inputs \cup {NoInputs}] /\ lease \in [Pods -> Policies]

Earlier(s, t) == IF s < t THEN s ELSE t

\* A lease whose time starts when the refresh ends (mutant).
LateLease(r, o, i) ==
    [revision |-> r, open |-> commits[r].open, inputs |-> i, observed |-> now,
     expires |-> IF commits[r].open
                 THEN Earlier(now + Ttl, blockAt + (Deadline - block)) ELSE now + Ttl]

\* A lease that lives to the end of its time, deadline or not (mutant).
LongLease(r, o, i) ==
    [revision |-> r, open |-> commits[r].open, inputs |-> i, observed |-> o, expires |-> o + Ttl]

\* The policy ends with its time to live and, in an open stage, no later than the
\* deadline's estimated block.
Lease(r, o, i) ==
    [revision |-> r, open |-> commits[r].open, inputs |-> i, observed |-> o,
     expires |-> IF commits[r].open
                 THEN Earlier(o + Ttl, blockAt + (Deadline - block)) ELSE o + Ttl]

\* The first refresh has succeeded and the first Pod has its policy.
PolicyInit ==
    /\ now = 0 /\ block = 0 /\ blockAt = 0 /\ faults = 0 /\ refreshed = 0
    /\ \E i \in Inputs : /\ commits = <<[open |-> TRUE, inputs |-> i, at |-> 0]>>
                         /\ pin = i /\ inputs = i
                         /\ frozen = [p \in Pods |-> IF p = 1 THEN i ELSE NoInputs]
    /\ policy = Lease(1, 0, inputs)
    /\ lease = [p \in Pods |-> IF p = 1 THEN policy ELSE NoPolicy]

Fault == faults < MaxFaults /\ faults' = faults + 1

-----------------------------------------------------------------------------
(***************************************************************************)
(* Time, the chain and the repository.                                     *)
(***************************************************************************)
Tick ==
    /\ now < MaxTime
    /\ now' = now + 1
    /\ UNCHANGED <<block, blockAt, commits, faults, gateway, frozen, lease>>

NewBlock ==
    /\ now > blockAt
    /\ block' = block + 1 /\ blockAt' = now
    /\ UNCHANGED <<now, commits, faults, gateway, frozen, lease>>

\* Someone pushes a pause, a later stage, or changed inputs.
Commit ==
    /\ Fault
    /\ \E o \in BOOLEAN, i \in Inputs :
          commits' = Append(commits, [open |-> o, inputs |-> i, at |-> now])
    /\ UNCHANGED <<time, gateway, frozen, lease>>

-----------------------------------------------------------------------------
(***************************************************************************)
(* The gateway.  refresh() reads the clock, then the branch, then the files  *)
(* of that revision and the chain, and takes any time.  It is one step at its *)
(* end: o is the time it began, r a revision that was the tip since then.     *)
(* The policy that it withdraws on its way (on_close) is a lease that a Pod   *)
(* loses: Install gives any Pod none at any time.                            *)
(***************************************************************************)
Observed(o, r) ==
    /\ o >= refreshed
    /\ r < Tip => commits[r + 1].at >= o

\* A round that takes whatever a commit publishes (mutant).
AnyInputs(i) == i \in Inputs

\* _pin(): the round keeps the inputs that were published first.
Pinned(i) == i = pin

\* The head's block is not stale for a refresh that began at o.
IsFresh(o) == o - Fresh <= blockAt

\* An open stage needs its inputs resolved and a block; a closed one keeps the
\* inputs the gateway has, or those that were retained for the round.
Resolves(r, o) == commits[r].open => Pinned(commits[r].inputs) /\ IsFresh(o)
InputsFor(r) ==
    IF commits[r].open THEN commits[r].inputs ELSE IF inputs = NoInputs THEN pin ELSE inputs

Refresh ==
    \E o \in 0..now, r \in 1..Tip :
        /\ Observed(o, r)
        /\ Resolves(r, o)
        /\ inputs' = InputsFor(r)
        /\ policy' = Lease(r, o, inputs')
        /\ refreshed' = now
        /\ UNCHANGED <<time, commits, faults, pin, frozen, lease>>

\* A refresh that fails has withdrawn a policy of another revision, or of a stage
\* that is closed, if it has come to read the branch.
RefreshFails ==
    /\ Fault
    /\ \/ UNCHANGED policy
       \/ /\ \E o \in 0..now, r \in 1..Tip :
                Observed(o, r) /\ (r # policy.revision \/ ~commits[r].open)
          /\ policy' = NoPolicy
    /\ refreshed' = now
    /\ UNCHANGED <<time, commits, pin, inputs, frozen, lease>>

\* The gateway's process restarts with nothing but what is in R2.
Restart ==
    /\ inputs # NoInputs /\ Fault
    /\ policy' = NoPolicy /\ inputs' = NoInputs
    /\ UNCHANGED <<time, commits, pin, refreshed, frozen, lease>>

\* _require_round() for the replacement of a Pod: state_expires_at bounds it.
MayCreate ==
    /\ policy # NoPolicy /\ inputs # NoInputs
    /\ policy.inputs = inputs /\ now < policy.observed + Ttl

-----------------------------------------------------------------------------
(***************************************************************************)
(* The Pods.                                                               *)
(***************************************************************************)
\* install_policy(): each message replaces the policy.  The gateway sends one on
\* connection and after every refresh, and none when it is not live; a message
\* that is late or lost leaves the Pod with an earlier one.
Install(p) ==
    /\ frozen[p] # NoInputs
    /\ lease[p] # policy
    /\ lease' = [lease EXCEPT ![p] = policy]
    /\ UNCHANGED <<time, commits, faults, gateway, frozen>>

Withdraw(p) ==
    /\ lease[p] # NoPolicy /\ Fault
    /\ lease' = [lease EXCEPT ![p] = NoPolicy]
    /\ UNCHANGED <<time, commits, gateway, frozen>>

\* RoundPolicy.require() for new work under the inputs i.
Permits(l, i) == now < l.expires /\ l.inputs = i /\ l.open

\* require_generation().
CanGenerate(p) == lease[p] # NoPolicy /\ Permits(lease[p], frozen[p])

PolicyNext ==
    \/ Tick \/ NewBlock \/ Commit
    \/ Refresh \/ RefreshFails \/ Restart
    \/ \E p \in Pods : Install(p) \/ Withdraw(p)

-----------------------------------------------------------------------------
(***************************************************************************)
(* Properties.                                                             *)
(***************************************************************************)
\* A Pod that may start work holds permission for its own inputs that was true of
\* the branch less than the time to live ago, whatever messages were late or lost
\* and however long a refresh took (the clock is read before the branch).
ClosedIsFenced ==
    \A p \in Pods : CanGenerate(p) =>
        \E k \in DOMAIN commits :
            /\ commits[k].open /\ commits[k].inputs = frozen[p]
            /\ k = Tip \/ now < commits[k + 1].at + Ttl

\* No Pod starts work once the chain has reached the deadline, with no message
\* from anyone at that time: the lease ran out with the estimated block.
DeadlineStands == \A p \in Pods : CanGenerate(p) => block < Deadline

=============================================================================
