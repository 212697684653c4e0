---------------------------- MODULE WeightsSetter ----------------------------
(***************************************************************************)
(* One validator's weights-setter (weights_service.py): a loop that pays   *)
(* the acting leader of leader.json on the chain.  Time is counted in      *)
(* turns of the loop's sleep; blocks are counted in the same unit.  Leader *)
(* i is the i-th entry of leader.json, 0 the subnet owner.                 *)
(***************************************************************************)
EXTENDS Integers, Sequences, FiniteSetsExt

CONSTANTS
  Interval,        \* set_weights_interval_sec
  Timeout,         \* set_weights_iteration_timeout_sec
  Retries,         \* from set_weights_min_ to set_weights_max_retry_interval_sec
  WaitForNext,     \* next_leader_wait_interval_sec
  Leads,           \* how long before its block a leader is published
  Reign,           \* how long a leader acts at least: round_duration_days
  MaxTime, MaxLeaders, MaxFailures   \* bounds

\* The round-manager publishes a leader finalization_buffer_hours ahead, more
\* than an iteration takes (config.py:19-21, settings.py:11-15).
ASSUME TimingAssumption ==
  /\ {Interval, Timeout, WaitForNext, Reign, MaxTime, MaxLeaders, MaxFailures} \subseteq Nat
  /\ MaxLeaders >= 1
  /\ Retries \subseteq Nat /\ Retries # {}
  /\ Leads \subseteq Nat /\ \A d \in Leads : d > Timeout

\* Neither an iteration nor a retry takes longer than the interval, which is
\* at least a turn of the loop (settings.py:10-29).
ASSUME IntervalAssumption ==
  Interval >= 1 /\ Interval >= Timeout /\ \A r \in Retries : r <= Interval

VARIABLES
  now,        \* the time, and the block
  leaders,    \* the effective blocks of leader.json
  pc,         \* where the iteration is
  start, ref, \* when it started, and the block it read first
  seen,       \* the entries of leader.json it read
  target,     \* whom it resolved to pay, at which block
  due,        \* _next_set_weights_time
  paid,       \* on the chain: who is paid, and since when by this validator
  failures

weightsVars == <<now, leaders, pc, start, ref, seen, target, due, paid, failures>>
world == <<now, leaders>>

WeightsInit ==
  /\ now = 0 /\ leaders = <<0>>
  /\ pc = "sleep" /\ start = 0 /\ ref = 0 /\ seen = 0 /\ due = 0
  /\ target = [leader |-> 0, at |-> 0] /\ paid = [leader |-> 0, update |-> -1]
  /\ failures = 0

\* LeaderState.get_leader: the last entry whose block has come.
Acting(n, b) == Max({0} \cup {i \in 1 .. n : leaders[i] <= b})

\* The iteration is over; the loop sleeps before it looks at the time again.
\* A retry is counted from the given time.
SleepUntil(time) == pc' = "sleep" /\ due' = Max({time, now + 1})
Success == SleepUntil(start + Interval)
RetryFrom(time) == \E r \in Retries : SleepUntil(time + r)

-----------------------------------------------------------------------------

Failure == failures < MaxFailures /\ failures' = failures + 1

\* _fetch_leader_state, the first await of the iteration.
FetchLeaders ==
  /\ pc = "sleep" /\ now >= due
  /\ start' = now /\ seen' = Len(leaders)
  /\ pc' = "fetched"
  /\ UNCHANGED <<world, ref, target, due, paid, failures>>

\* Mutant: also after the next leader's block.
PostponesAlways(next) == next - now <= WaitForNext

Postpones(next) == now < next /\ next - now <= WaitForNext

\* The block is read; shortly before the next leader's block nothing is set.
ReadBlock ==
  /\ pc = "fetched"
  /\ ref' = now
  /\ IF Postpones(leaders[seen]) THEN Success ELSE pc' = "resolve" /\ UNCHANGED due
  /\ UNCHANGED <<world, start, seen, target, paid, failures>>

\* _resolve_leader reads the block again, and falls back to the owner when
\* there is no leader or no uid for its hotkey.
ResolveTo(leader) ==
  /\ pc = "resolve"
  /\ \/ target' = [leader |-> leader, at |-> now] /\ UNCHANGED failures
     \/ target' = [leader |-> 0, at |-> now] /\ Failure
  /\ pc' = "set"
  /\ UNCHANGED <<world, start, ref, seen, due, paid>>

\* Mutant: the latest entry instead of the acting one.
ResolveLatest == ResolveTo(seen)

ResolveLeader == ResolveTo(Acting(seen, now))

\* set_weights is included in a block.  With commit-reveal that is the end.
SetWeights ==
  /\ pc = "set"
  /\ paid' = [leader |-> target.leader, update |-> now]
  /\ \/ Success
     \/ pc' = "verify" /\ UNCHANGED due
  /\ UNCHANGED <<world, start, ref, seen, target, failures>>

SetWeightsFails ==
  /\ pc = "set" /\ Failure
  /\ RetryFrom(start)
  /\ UNCHANGED <<world, start, ref, seen, target, paid>>

\* _check_weights_updated: within three blocks the validator's last_update
\* reaches ref, or it is not seen to.
VerifyWeights ==
  /\ pc = "verify"
  /\ paid.update >= ref
  /\ Success
  /\ UNCHANGED <<world, start, ref, seen, target, paid, failures>>

VerificationFails ==
  /\ pc = "verify" /\ Failure
  /\ RetryFrom(start)
  /\ UNCHANGED <<world, start, ref, seen, target, paid>>

\* An exception of any await, also after the weights were set.
IterationRaises ==
  /\ pc # "sleep" /\ Failure
  /\ RetryFrom(now)
  /\ UNCHANGED <<world, start, ref, seen, target, paid>>

IterationTimesOut ==
  /\ pc # "sleep" /\ now = start + Timeout /\ Failure
  /\ RetryFrom(start)
  /\ UNCHANGED <<world, start, ref, seen, target, paid>>

-----------------------------------------------------------------------------

\* The loop wakes when it is due and wait_for bounds an iteration.
Tick ==
  /\ now < MaxTime /\ now' = now + 1
  /\ IF pc = "sleep" THEN now < due ELSE now < start + Timeout
  /\ UNCHANGED <<leaders, pc, start, ref, seen, target, due, paid, failures>>

\* The round-manager's next leader (module Competition, LeadersTakeTurns).
PublishLeader ==
  /\ Len(leaders) < MaxLeaders
  /\ \E d \in Leads : /\ now + d >= leaders[Len(leaders)] + Reign
                      /\ leaders' = Append(leaders, now + d)
  /\ UNCHANGED <<now, pc, start, ref, seen, target, due, paid, failures>>

Iteration == \/ FetchLeaders \/ ReadBlock \/ ResolveLeader \/ SetWeights \/ SetWeightsFails
             \/ VerifyWeights \/ VerificationFails \/ IterationRaises \/ IterationTimesOut

WeightsNext == Iteration \/ Tick \/ PublishLeader

WeightsSpec == WeightsInit /\ [][WeightsNext]_weightsVars

-----------------------------------------------------------------------------
(* Properties.                                                             *)

WeightsTypeOK ==
  /\ now \in 0 .. MaxTime /\ leaders \in Seq(Nat) /\ Len(leaders) \in 1 .. MaxLeaders
  /\ pc \in {"sleep", "fetched", "resolve", "set", "verify"}
  /\ start \in 0 .. now /\ ref \in 0 .. now /\ seen \in 0 .. Len(leaders)
  /\ target \in [leader : 0 .. Len(leaders), at : 0 .. now]
  /\ paid \in [leader : 0 .. Len(leaders), update : -1 .. now]
  /\ due \in Nat /\ failures \in 0 .. MaxFailures

\* Whom the weights pay is the leader acting when it was resolved, by the
\* leader.json of now and not only by the one the iteration read, and that
\* was at most an iteration's timeout before (weights_service.py:128-162).
PaysActingLeader ==
  [][paid' # paid => /\ paid'.leader \in {0, Acting(Len(leaders), target.at)}
                     /\ paid'.leader = 0 => failures > 0
                     /\ now - target.at <= Timeout]_weightsVars

\* When a leader has acted for an interval and an iteration, its predecessor is
\* no longer paid, and without failures the leader is.  What fails costs at most
\* another interval and iteration.  Where that may take until the wait for the
\* next leader, nothing is said of the wait (weights_service.py:87-146).
Lateness == (failures + 1) * (Interval + Timeout)
AwaitsNext == \E j \in 1 .. Len(leaders) : leaders[j] \in now + 1 .. now + WaitForNext
PaidInTime ==
  LET i == Acting(Len(leaders), now)
  IN  now > leaders[i] + Lateness /\ (AwaitsNext => Lateness + WaitForNext < Reign)
        => paid.leader = i \/ (failures > 0 /\ paid.leader = 0)

=============================================================================
