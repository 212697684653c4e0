# TLA+ verification of the 404-GEN subnet

404-GEN is a competition of Bittensor subnet 17: miners submit a repository
that turns prompts into 3D scenes, rounds of duels find the best one, and the
validators pay its owner. The services that run a round share no database:
they read and commit files of one Git repository, each on its own schedule,
and every one of them may crash, lose a reply or meet somebody else's commit.
A miner's model calls go through witness Pods, which record them, charge them
and save the results, and which a gateway creates and replaces. This project
models those services and checks and proves what keeps a round honest: that no
write is lost, that a restarted judge cannot choose another winner, that a
round ends once, that one Pod serves a miner at a time, that a model call is
dispatched and paid at most once, that a saved result stays, and that the right
miner is paid.

Paths below are relative to the repository's root (`src/` here).

## 1. Inventory

| Part | State it keeps | Operations | Correct when |
|---|---|---|---|
| GitBatcher and GitHub client (`shared/subnet_common/git_batcher.py`, `github.py`) | queued files, `base_sha`, the flag of a commit in progress | `write`, `write_many`, `flush`, `refresh_base_sha`, `read`, `commit_files` | no write is lost or reordered, nobody else's file is undone, what `flush` confirms is committed |
| judge-service (`judge_service/round_runner.py`, `timeline.py`) | match matrix, reports, validation requests, last verdicts read; all of it rebuilt from the repository at a restart | qualify, play timeline matches, explore, wait for verdicts, finalize, change stage | the committed round is a tournament whose winner no later evidence contradicts, over restarts |
| duel judges (`judge_service/judges/`) | the answers of one duel, a semaphore of a match | four stages of model calls in both orders, early stops, an explanation | neither the name nor, but for a pair with a lone failure, the position of a submission decides; a failed call holds nothing up |
| submission-collector (`collection_iteration.py`, `download.py`, `submission.py`) | nothing between iterations | close the reveal window, publish a round's inputs, wait for the deadline, collect results, open the duels | every miner enters with its last commitment of the window; published inputs stand; duels find all results |
| round-manager (`finalize_round.py`) | nothing between iterations | end a round: leader, schedule and stage in one commit | a round is ended once; leaders take turns at the window's end |
| weights-setter (`weights_service.py`) | time of the next attempt | fetch leaders, postpone, resolve, set and verify weights | nobody but the acting leader or the owner is paid, and a new leader soon is |
| repository and chain | state.json, leader.json, a directory per round; block height, commitments | | they are the only channels between the services above |
| witness-gateway, Pods (`pod_gateway/admission.py`, `server.py`, `lifecycle.py`, `revivor.py`) | a durable start queue, the selection record in R2, lifecycles in Pod names | admit, create, select, grant, replace, drain and retire worker Pods; the revivor retires what the gateway left | no double create, the Pod limit kept, one selected Pod per miner and connection, no capture cut off, no queue that stops |
| witness-gateway, round policy (`rounds.py`, `membership.py`) | the last policy, the round's inputs, frozen in R2 | refresh from branch and chain, lease to the Pods, withdraw, close | no work is admitted after a close that was seen or after the deadline; one set of inputs per round |
| worker Pod, calls (`witness-server/worker/witness_pod/records.py`, `budget.py`, `pod.py`, `worker.py`, `recovery.py`) | call records, a ledger and a manifest in R2, changed by compare-and-swap | start, claim, reserve, authorize, dispatch, issue, fail, interrupt, recover | an attempt reaches the provider at most once, nothing is issued unpaid, an attempt that was begun ends |
| worker Pod, results (`direct.py`, `results.py`, `artifacts.py`, `renderer.py`) | a queue of saves, a copy of the index, previews in R2 | save a final result, list results, render a preview | results once saved stay, and are of the round's inputs; identical previews answer alike |
| witness-client (`witness_client/`) | slots, a snapshot per call, the session of the Pod | `create()`, start and replace the Pod, submit and list results | a call that may have been dispatched is not repeated, starts join, every call ends |
| miner-runtime (`miner_runtime/batch.py`) | prompts that remain, passes | generate, submit, retry what is missing | what it drops is saved |
| render-service (`render-service-js/`) | a pool of validation workers, render slots, one browser | validate, render, time out, replace | every request is answered, and no rendering uses a browser that an abandoned one still uses |
| renderer-client, miner-reference, Discord notifiers, docs and data | none that outlives a call | HTTP, model prompts, messages | |

How they interact. The stages of `state.json` hand a round from service to
service (OPEN, MINER_GENERATION and COLLECTING belong to the collector, DUELS
to the judge, FINALIZING to the round-manager, PAUSED to the operator). A
service reads the head commit, works from that snapshot for seconds to days,
and commits. A plain commit of the collector and the round-manager is refused
when the head has moved and the iteration starts over; the judge, and the
collector while it collects, use a GitBatcher, which puts its files on top of
the new head at its next try. Verdicts and source audits come from producers
outside the repository, through files of the round. The weights-setter only
reads `leader.json` and the chain. During MINER_GENERATION the gateway reads
stage, inputs and deadline from the branch and leases them to its Pods; a
miner's runtime asks the gateway for a Pod through the client, makes its model
calls and previews in it and submits results to it; Pods, gateway and revivor
share R2, where a conditional put is the only thing that orders them.

What is hard: writes queued during a commit; commits refused, or made and their
reply lost; snapshots that are stale when used; a crash between two writes that
belong together; verdicts that arrive after a decision; windows and leaders
that meet at one block; two supervisors that retire the same Pod; two Pods that
finish the same call; retries of what took effect; slots that are returned on
many paths. PROJECT.json lists these at their lines as hazards, with the
properties that watch them.

## 2. Plan

In the order of writing; a module further down uses the ones above. All of it
is written; what is left is at the end.

1. **GitBatcher**, and its abstract specification **WriteBehind**. Proved.
2. **Timeline** (the pure derivation), **Tournament** (what a round promises),
   **Judge** (the runner, implements Tournament). Proved.
3. **Competition** (collector, judge's commits, round-manager, operator and
   chain), with **Reign** (what it promises about results and leaders). Safety
   is proved as long as no batcher reply is lost.
4. **WeightsSetter**. Proved.
5. The witness gateway: **Allocation** (durable start requests, at most one
   create for each) and **Fencing** (the selection record, and the gateway and
   the revivor that retire the same Pods). Safety of both is proved.
6. The Pod's calls: **Calls** with its promise **Attempts**. Proved.
7. **RoundPolicy** (the lease) and, on it, **Submissions** (results under the
   lease, batch and Pods). Proved.
8. **RenderService** (pool, slots, browser) and, around it, **PodRender** (the
   Pod's previews). Safety is proved.
9. **DuelVerdict** (what stages make of answers) and, on it, **MultiStage** (a
   duel). Safety is proved.
10. **Client** (`create()` over the view that Calls gives) and **PodClient**
    (getting and replacing a Pod). Safety of both is proved.

Every safety property that a run checks is also a theorem (section 6); the runs
alone answer for liveness. Left: a composition of Client with Calls in place of
Client's record of the Pods.

## 3. Modules

**GitBatcher** models one process's batcher and GitHub's side of
`commit_files`. `pending` is `_pending_files` (per path, the number of the write
queued, 0 for none), `base` is `base_sha` as an index of `log`, the commits of
the branch; `commit` is the commit in progress with its phase: sent, applied on
the branch, or failed. `late` holds ref updates whose request was given up but
that may still arrive. `queued`, `prefixes` and `mark` are history: the writes
made, the states of the queue so far, and the newest own write on the branch.
Blobs, trees and commits are a map from paths to contents. Any coroutine may
write or flush at any await. **WriteBehind** is what callers may rely on: the
branch shows, for the files that nobody else changed since, a prefix of the
accepted writes.

**Timeline** is `Timeline.derive`: from the matrix, validations and audits it
computes defender, pending matches, local winners, the winner and whether the
timeline is finalized. The chain is a recursive function over the submissions
in their order. A margin is `reached` or `below` the `win_margin`, which is in
(0, 1], so a draw is `below`.

**Tournament** says that evidence only grows and that a winner is declared once,
from conclusive evidence. **Judge** is the service: `repo` the round's files at
the head, `mem` the runner's copies, `pending` the files queued in its batcher,
`stale` whether its base is behind, `pc` the point of `RoundRunner.run`. Each
await where other committers matter is a point of its own; `Commit` is the
batcher's attempt at any of them. A commit after a write happens at any write,
a superset of what the batcher's interval allows. `Abort` is an exception or a
crash anywhere, `RequestShutdown` the signal. Only the judge writes the matrix,
the reports, the requests and the winner.

**Competition** has the branch (`repo`), the chain (`block`, `reveals`), what
each service holds in memory, and per service a flag `stale` set by anybody
else's commit. The judge is reduced to its commits: a winner out of those a
finalized timeline can name, then the stage. The next round's start, a date
computed from the block, is a delay out of `Delays`. **Reign** is its promise:
rounds end one after another, each with one result, and `leader.json` takes an
entry exactly when the result's source is not the leader's.

**WeightsSetter** is the loop of one validator, with time in turns of the loop's
sleep and blocks in the same unit. `pc` is the await an iteration is in;
leaders are published at any time, as far ahead as the round-manager does.

**Allocation** is the gateway's queue and worker thread. `journal` is the saved
`QueueState` and `cache` the gateway's copy; `late` holds saves that timed out
and may still be applied, `ops` and `finished` the allocator's operations and
the results not completed yet, `task` the point of `_advance` the worker is at,
`flight` the creates whose effect is open and `pods` the provider's inventory.
`overdue` holds the creates whose round and whose 600 s of grace are over, so that
nothing counts them any more, whatever became of them; `stray` is history, those
of them that were carried out after that.
A create, and the Pod it makes, is the scope and start id it was sent for.
Start requests reach the journal on a thread of their own, and a new round
rolls it over while the worker is at work. Retirement is one step here, of the
gateway's or of the revivor's, which drains a fleet that exceeds its limit.

**Fencing** takes one miner's Pods in a round apart: `life` is the lifecycle in
each Pod's name, `sel` the selection record, `lateSel` its writes that timed
out, `job` the gateway's call, `retire` each supervisor's retirement in
progress, `local` and `busy` the Pod's own acceptance and captures. A step is
one rename, delete or record write, so that the two supervisors, the Pods and
late copies of a create meet in every order. Copies of a create have its epoch,
so `revoked` and the refusal of `update` are one operator. `grantees`,
`chosen`, `replaced` and `killed` are history. The revivor follows the
competition, as it does in production; a Pod of another image is left out.

**Calls** is one logical model call in the Pods that serve it one after the
other. `record`, `ledger` and `manifest` are what R2 holds; every read of one
and every conditional put is a step, so that the captures of two Pods, a
handler that reads, starts or interrupts the call, recovery after a restart and
an uncertain write interleave. `job` is what a capture's thread has read, `sent`
the requests to the provider. **Attempts** is its promise: attempts follow each
other after failures only, each sends at most one request, one called
undispatched sends none, and a result is final and comes from a request sent.

**RoundPolicy** is the branch's state, `RoundController` and the leases in the
Pods, with time in ticks of 12 s, a block's expected interval. `refresh()`
reads clock, branch, files and chain in that order and takes any time; it is one
step at its end, with the time it began and a revision that was the tip since.
**Submissions** adds the batch runner (`attempt`, `remaining`, `todo`), the
saves queued in two Pods, each Pod's copy of the index with its entity tag, and
the index. A result's files (images, views, embeddings) are not modelled.

**RenderService** is the Node process: `waiting`, `available` and `serving` of
the validation pool, `queue` and `free` of the render slots, the browser's
number and its open contexts. JavaScript runs a callback to its end, so a step
is what happens between two waits. **PodRender** puts the Pod's handler, its
lock per key, its cache in R2 and the allowance of previews around it; a Pod
restart starts both anew.

**DuelVerdict** has the arithmetic of the four stages as operators on answers,
means kept doubled; **MultiStage** is `evaluate_duel` with its concurrent calls,
the semaphore, the stages that may end the duel and the explanation beside them.

**Client** is `create()`, once for each caller: `at` is its point, `seen` the
snapshot it read, `attempted` and `retries` what it remembers, `slots` and
`preparations` the client's limits, `call` the record behind the Pods' answers
and `paid` the attempts that may have been dispatched (history). The two clients
differ in `await` only. **PodClient** is `ensure_pod` and `replace_pod` for the
operations of one client and the gateway's answers, with POSTs that are lost or
arrive after they were given up. The gateway shows an entry's outcome before the
journal takes the entry off the queue (`Created`, `Completed`). An operation
that has ended may begin again; `MaxReplaces` bounds the replacements asked for,
`asked` is history.

`*Proofs` modules hold the theorems of the module they are named after, and
four of them those of a second component: CompetitionProofs of WeightsSetter,
CallsProofs of PodRender, JudgeProofs of MultiStage, ClientProofs of PodClient.
Definitions of two modules that meet there have different names, which is why
those components say `WeightsSpec`, `RenderSpec`, `DuelSpec` and `PodSpec`.
`MC*` modules give sets to constants. Definitions marked as mutants are never part of
the specification: each is a plausible error of the definition that follows it.

## 4. Runs

| Run | Instance | Question |
|---|---|---|
| git_batcher | 2 paths, 3 writes, 1 foreign commit, 1 fault, a refreshing coroutine | Does any order of writes, flushes, conflicts, failures and late updates lose, hide or reorder a write, or leave it uncommitted? |
| judge | 4 submissions, the last without results and audited early; two that play with 1 fault or hold, or three without | Is the committed round a Tournament, do reports and matrix agree, is the round decided? |
| competition | 2 rounds, 2 miners, one of whom may submit the leader's source, 2 commitments a window, empty rounds, 1 fault and 1 hold or 1 lost batcher reply | Windows, admissions, publications, leaders and the end, under every order of commits |
| weights_setter | 3 leaders, 36 turns, 2 failures | Who is paid, and how late? |
| allocation | 2 hotkeys, 2 start ids each, 2 rounds, a fleet of 1 Pod, 2 queue entries, 2 faults | Is a create ever repeated or one too many, and does the queue drain without faults? |
| fencing | 2 copies of a Pod, one of which the miner uses, and 1 of the next connection, 1 fault | Can two copies be selected, a fenced Pod come back, a capture be cut off, and does the scope settle? |
| calls | 2 Pods, 2 attempts, 1 handler, 1 fault in the first attempt or at its end | Is a result issued unpaid, an attempt sent twice, an attempt left open? |
| render | 3 requests of which 2 are identical, 2 workers, 1 slot, 1 preview allowed, 1 fault | Can renderings share a broken browser, identical requests differ, a request hang? |
| multi_stage | 3 angles, 4 side views, 4 answers, 4 checks, a semaphore of 2 | Can position or order decide, can a duel hang? |
| client | 3 calls of which 2 are the same, one client or two, 2 attempts of that one, 1 of the other, which is not dispatched, 1 slot of each kind | Is a call paid twice, do slots leak, does every `create()` end? |
| pod_client | 2 operations at a time, any number one after the other, 2 queue entries, 1 replacement, 1 late POST | Do repeated starts join, is a replacement new? |
| submissions | 2 prompts, 2 Pods, 2 passes, 2 inputs, lease and deadline of 1 and 2 ticks, 1 fault | Leases against deadline and close; what the batch drops, what the index keeps |

What each property says:

- git_batcher: `flush` confirms only what is committed (`FlushedIsCommitted`),
  the branch implements WriteBehind (`ShowsPrefixOfWrites`), everything gets
  committed (`EventuallyCommitted`).
- judge: reports and matrix agree (`ReportsAgree`), the committed round
  implements Tournament (`IsTournament`), it is decided (`RoundDecided`).
- competition: Reign (`IsReign`), leaders in turn (`LeadersTakeTurns`), a miner
  enters with its last commitment (`AdmittedIsLatest`), published inputs stand
  (`PublicationStands`), the end is reached (`CompetitionEnds`). All but the
  last are stated as long as no reply of a batcher's commit was lost: section 5
  shows what such a loss does. `CompetitionEnds` allows a competition to come to
  a round without a winner, where it stays.
- weights_setter: only the acting leader or the owner is paid
  (`PaysActingLeader`), and a leader within a bounded time (`PaidInTime`).
- allocation: at most one create for a request (`OneCreate`), the fleet's limit
  (`WithinCapacity`: the Pods and the undecided creates, but for a create that the
  provider carries out after its round and the grace are over; section 5), the
  queue drains (`QueueDrains`).
- fencing: one copy ever selected for a connection (`OneCopySelected`), no capture
  cut off by the retirement of an idle or superseded Pod (`CaptureSurvives`), a
  Pod whose selection ended does not come back (`NeverReselected`), the scope
  settles (`Settles`).
- calls: an issued result is settled in the ledger (`IssuedIsSettled`), the call
  implements Attempts (`KeepsAttempts`), an attempt that was begun ends
  (`AttemptEnds`).
- render: a context open in the browser belongs to a rendering with a slot
  (`CleanBrowser`), identical requests get one outcome (`AnswersAgree`), the
  miner's allowance holds over concurrent requests (`WithinAllowance`), every
  request is answered (`Answered`).
- multi_stage: exchanging the submissions exchanges the verdict (`MirrorFair`), a
  model that answers by position alone makes a draw of every stage in which it
  compares the two, that is all but the last, whichever calls of the angles and of
  the checklist fail, and unless just one call of a pair of stage 2 or 3 does
  (`PositionDecidesNothing`; section 5); the duel ends (`DuelEnds`).
- client: at most one attempt that was or may have been dispatched in a
  `create()` (`PaysOnce`), slots bound what is under way (`Bounded`), every call
  ends (`CreatesEnd`).
- pod_client: no start is in the queue while another Pod of the miner is
  allocated, as long as no Pod was asked to be replaced (`RetriesJoin`; section
  5 says what an interrupted replacement does), and no call is given a Pod after
  its replacement was asked for (`ReplacementIsNew`).
- submissions: a Pod that starts work has permission for its inputs that was true
  less than a lease ago (`ClosedIsFenced`), and never at the deadline
  (`DeadlineStands`); what the batch drops is saved (`DroppedIsSaved`), all
  results share the round's inputs (`ResultsShareInputs`), none disappears
  (`ResultsStay`).

Every component has a type invariant (`TypeOK`, or `PolicyTypeOK` and the like),
which is proved; the runs leave it out. The
other properties stated in the modules belong to a theorem or to a configuration
of section 5.

Some instances are cut down further by an action constraint `Bound` in the MC
module; it states the cut in one line. A cut removes steps that no fairness
asks for, or keeps another step of the same fair action, so that liveness is
not met by stopping at it. What is proved holds without the cut.

Why the bounds are enough to be interesting. Two paths are the least for order
between files, two writes to one of them for a newer write that must not be
overwritten, a late update after a retry for its worst order. Two submissions
that play let the chain pass from a miner to another, a third that is rejected
rebuilds it, three give exploratory duels; MCJudge's action constraint splits
the two kinds of behaviour so that neither pays for the other. One fault already puts a
crash, failure or shutdown at each point of the runner, and what is proved
below holds for any number. Two rounds are the least in which windows meet and
a leader of one round defends in the next; that the other miner submits the
leader's source too adds a symmetric case. In weights_setter a reign is longer
than an interval, as a round of a day is than one of half an hour. In
allocation a fleet of one Pod makes every miner wait for another's; two faults
let a gateway crash on top of an uncertain save or a lost reply, and the second
round lets a create of the first run out of its grace and still land. In fencing the
least id may be the copy that comes late, and the next connection is newer than
both; the captures of one copy are enough, since each Pod has its own. In calls
two Pods and two attempts let an old Pod finish an attempt that the new one has
replaced; the fault comes before, which is when the record still tells the two
apart. In render two identical requests and another contend
for the last preview. In multi_stage three angles are the least for a split vote, and the
answers lie on both sides of every threshold. In client two callers share a
call and a slot that the third needs; it competes for the slots, and whether its
own call is sent does not matter to them. In pod_client two entries in the queue
are the one to join and the one after it. In submissions a lease of one tick and a
deadline of two let a refresh begin before and end after a commit, a block and
the deadline; commits, failures, restarts and losses share one bound. A Pod has
room for a save and one that waits for it; a third of the three submissions is
refused.

`CHECK_DEADLOCK FALSE` stands where the system may really stop: a bounded
number of requests or calls, a tournament that is over, the bound of time, and
an empty round, which stops the competition.

### Fairness

- GitBatcher: an HTTP request ends in a reply or an exception; callers flush
  again (strong fairness of `Flush`, as a write's own commit disables it for a
  while; the judge flushes at each turn of its loop).
- Judge, Competition: the services' loops run again after every iteration,
  exception or restart (`main.py` of each), blocks keep coming, the producers of
  verdicts and baselines answer, and the operator ends each hold. Faults and
  holds are finite by their bounds. Nothing is assumed about which of several
  possible steps a service takes.
- Allocation: the worker thread goes on, reloads the journal and adopts new
  rounds; a decided entry comes due every `poll_seconds` and is then served
  before later ones, hence strong fairness of `Settle`; the provider carries out
  what it was sent, in time or not, and idle Pods drain. `QueueDrains` speaks of
  behaviours without a fault: after an uncertain create an entry waits for an
  operator or for the end of its round, as `PODS.md` says.
- Fencing: the worker passes over the scope again and again (strong fairness of
  the pass as a whole, which other jobs of the worker interrupt), a Pod that
  can follow its control socket, finish a capture or drain when idle does one
  of these, and the revivor ends a retirement it began. It need not begin any.
- Calls: a capture's thread and a handler go on, a lost Pod is replaced, and a
  caller polls (strong fairness, since a handler at work disables it).
- PodRender: Node and the event loop run what is ready, timers fire, workers
  that were terminated exit. MultiStage: each call is answered, by a result or a
  failure, and coroutines go on. Client: each caller goes on, and a call that can
  only end in an exception does (strong fairness of `Raise`, as the record behind
  the answers changes meanwhile).

## 5. Disagreements between code and documents

These statements of the repository are violated by what the code does. Each has
a configuration that finds the shortest behaviour; they are not among the runs
above, which are about what holds. Run them as `tlc -config <cfg> <module>`;
FleetNeverExceeds and the last one are edits of a run's.

- **HoldLasts** (`JudgeHold.cfg`, module Judge): an operator's PAUSED committed
  while a runner is active is replaced by the stage of the runner's own, older
  `state.json` (`round_runner.py:362-369`; `README.md:40` and state.py call it a
  manual hold).
- **RoundsOnlyAdvance** (`CompetitionRollback.cfg`, MCCompetition): the judge's
  last commit lands but its reply is lost, the round-manager starts the next
  round, and the batcher commits the old `state.json` on top of it. The old
  round is then ended again. A round set back may also be entered again without
  submissions and stay in FINALIZING. `CompetitionEnds` shows that the
  competition otherwise reaches its end.
- **FinalizingEnds** (`CompetitionEmpty.cfg`, MCCompetition): a round without
  submissions goes to FINALIZING without a `winner.json`, and the round-manager
  raises for ever.
- **FleetNeverExceeds** (module Allocation, with MCAllocation.cfg after putting it
  for the two invariants and the property): the reply of round 1's create is lost
  and the create still under way when round 2 opens. The rollover retains it, but
  for 600 s since its authorization only (`admission.py:178-185`, `303-304`); then
  round 2's create is dispatched, and both may become Pods of a fleet of one.
  `PODS.md:470-471` says that submitted creates retain their headroom until
  reconciled, and `477-480` that an unresolved create continues to count until an
  operator clears it. The code provides for the excess: `Admission.excess`
  (`admission.py:46-64`) names the Pods that the revivor drains. `WithinCapacity`
  therefore leaves out what is carried out after round and grace.
- **ExitedIsRetired** (`AllocationExited.cfg`, Allocation): a stopped Pod holds
  the fleet's last place, its miner asks for a new one behind another miner's
  request. The head of the queue waits for the place, and the pass skips the Pod
  while its miner waits. `PODS.md:470-472` bounds allocation and retirement
  independently.
- **ReservationCleared** (`CallsReservation.cfg`, Calls): a capture of Pod A has
  passed `selected()` in `authorize` and stalls (`pod.py:612-619`). Pod B is
  selected, interrupts attempt 1, discards its charge, and starts attempt 2. A's
  `budget.reserve` then adds a charge for attempt 1 again; its
  `records.authorize` conflicts, and the cleanup sees another attempt in the
  record and returns without a discard. `budget.py:114-115` refuses the charge
  of attempt 2 as long as the one of attempt 1 is there, where `PODS.md:202-203`
  and `251-252` clear a failed attempt's reservation.
- **AnswersAgree** (`PodRenderLost.cfg`, MCPodRender): storing a preview takes
  effect but is reported as failed; an identical request then meets a rejection,
  which is saved and answered; after a restart the cache answers the image.
  `worker/README.md:62-63` promises one outcome for identical requests. Without
  lost replies of the store it holds: the run `render`.
- **CallsAreCapped** (`MultiStageCap.cfg`, MCMultiStage): only the calls of stage
  1 take the match's semaphore (`multi_stage.py:650`); a duel in a later stage
  has more calls under way than `max_concurrent_vlm_calls`
  (`judge_service/settings.py:51`, `match_execution.py:37-38`).
- **FinalSaveStands** (`SubmissionsFinal.cfg`, MCSubmissions): a second Pod is
  selected while the first is past the check for an earlier result; the second
  saves a result, and the first replaces it (`artifacts.py:78-92`), where
  `witness-server/worker/README.md` says that final saves are immutable. With
  one Pod it holds. One prompt is enough.

- **ReplacementResumes** (module PodClient, with MCPodClient.cfg after
  `PodCalls = {c1}`, `MaxEntries = 3` and this invariant for `RetriesJoin`): the
  POST of a replacement is given up and still on its way, and the call ends. The
  next call finds the Pod retiring for a reason of the gateway's own and takes
  its session for the request it is making (`async_pods.py:399-405`), so that the
  request to replace it is forgotten, and ends too. The one after it finds the
  Pod gone and asks for a new one under a fresh id, but the late POST arrives
  between its GET and its POST and becomes a Pod first: the fresh start is a
  second entry, which terminates the new Pod. `witness-client/README.md:182-183`
  says that the next operation resumes the allocation. `RetriesJoin` is
  therefore stated as long as no Pod was asked to be replaced.

Disagreements that can be read off the code and have no configuration: `flush()`
returns True and `read()` misses the process's own files while another
coroutine's commit is in progress (`git_batcher.py:44-48`, `74`; no caller does
either); weights do not decay when a leader defends (`README.md:126`,
`finalize_round.py:224`); the collector never reads its `pause_on_stage_end`
(`submission_collector/settings.py:68`); waiting for the next leader counts as a
success and puts the next attempt off by a whole interval, where
`weights-setter/settings.py:30` says "just after it becomes active";
`witness-client/SEQUENCE.md:26` permits another attempt only after proven
non-dispatch, `PODS.md:202-203` and the code after any failure; when one of two mirrored
model calls fails, stages 2 and 3 decide from the other order and the neutral
answer, and the test of stage 3 for it has no effect (`multi_stage.py:682`);
stage 4 "always runs" (`multi_stage.py:26`) except after a decision of stage 1; of two
concurrent identical `create()` of one client the second waits for the key's
lock and repeats after a paid failure, where the client's README says it joins.

## 6. Proofs

All theorems hold for every value of the constants, under the modules' named
assumptions only: finite sets where the code has finite sets, bounds that are
numbers, times in the order that the settings have. TLC evaluates the assumptions in the runs.

**GitBatcherProofs.** The inductive invariant adds to TypeOK what the history
variables mean: the newest write to a path is queued, in the commit under way
or on the branch; a failed commit may be on the branch already; each late
update is built on an existing commit; the branch shows a prefix. From it
follow `TypeCorrect`, `NothingIsLost`, `NewestIsQueued` (a failed snapshot put
back hides no newer write), `OthersAreKept`, `FlushIsHonest` and the refinement
of WriteBehind (`ImplementsWriteBehind`): a commit by the batcher maps to a step
that shows a longer prefix, everything else to a stutter or to another
committer's step.

**JudgeProofs**, the judge. `FinalIsFinal`: a finalized timeline that settles every
submission has the winner any extension of its evidence gives. The proof goes
by the least submission at which the two chains could differ. It is why the
judge may stop, and restart, at all. The judge's invariant relates each queued
file to the memory and the branch: what is committed is in memory or the runner
is new; a row of the matrix is never changed; the winner in memory is
conclusive for the memory's evidence, and that extends to the branch's by
`FinalIsFinal`. From it: `JudgeTypes`, `FinalizingIsDecided` (FINALIZING has a
justified winner), `ReportsFollowMatrix`, `PartialIsDiscarded`,
`RequestsAreEarned`, that a miner without results never wins
(`WinnerDelivered`), the refinement `ImplementsTournament` and, through it,
`WinnerIsFinal`: a winner once declared stays the winner of the evidence,
whatever is committed later.

**JudgeProofs**, the duel. The invariant says only which calls each stage asked
(`DuelStages`); the work is in the verdicts. One lemma per helper of DuelVerdict
says what it makes of the answers when the two miners change places: a
difference changes its sign, a vote its side, the sums over the clear angles
change places. Such a sum is a fold over a set; that it is a number is shown by
the least size of a set for which it would not be one. With them every stage
comes to the opposite verdict (`DuelFavoursNobody`), and a stage whose answers
are their own mirror image to its own opposite, which is a draw. Where a call
fails the code must first leave out the other order too, which it does for the
angles and the checklist; with that, answers by position alone decide nothing
(`PositionIsIgnored`). Both hold for any angles, side views, integer answers and
checklists, the first whichever calls fail, the second but for a lone failure in
a pair of stage 2 or 3. Assumed is that the angles are finite in number and not
named like the other calls.

**CompetitionProofs**, the competition. The invariant says of each service at work whether its
snapshot is current: a plain commit not marked stale is on the head it read;
a batcher's service is in the round and stage it started in, or held there.
With it `StagesAreInOrder` and `CompetitionIsReign` are proved. A second part
of the invariant counts blocks: a round's files appear after its window; what
the collector is about to publish is the latest of each miner that the chain can
ever show for the window, since a new block is past it; the round-manager's next
start is past the round's window, so that the next leader is later than every
leader before. It gives `LeadersFollowRounds`, `AdmittedStaysLatest` and
`PublishedOnce`. A third part follows a collected result from `done` through the
batcher's queue to the branch, for `DuelsAreCollected`. All of these are stated
as long as no reply of a batcher's commit has been lost (`lost = 0`): the
invariant is lost with it, as CompetitionRollback.cfg shows. `CompetitionType`
holds without.

**CompetitionProofs**, the weights. Leaders are a reign apart, an iteration ends
by its timeout, and it has read every leader who can act before that
(`LeadersOrdered`, `TimeLeft`), so that whom it resolved was acting then
(`ActingLeaderIsPaid`). For the time it takes, the invariant says where the
payment is on its way: only an iteration that started before the acting leader
did can pay another (`StaleStartedBefore`), and either the right one is paid, or
the iteration that will pay it has started, or is due, by a bound that grows with
each failure by an interval and a timeout (`OnTheWay`). `LeaderIsPaidInTime`
follows for any interval, timeout, wait, reign and number of failures; assumed
is that an interval is at least a turn of the loop, a timeout and a retry's
wait (`IntervalAssumption`), which the settings satisfy.

**FencingProofs.** Every record that may come to be written, now or by a late
PUT, succeeds the record it would replace: it selects a Pod which that record
does not fence, or selects nobody and names the same Pod. The record's Pod has
the newest connection of all Pods ever selected, so that a Pod which is not
fenced is new. `SelectionIsUnique` and `FencedForGood` follow for every map of
Pods to connections, any number of Pods, and any faults; `FencingTypes` is the
type invariant.

`NoCaptureIsKilled` needs a second invariant, about what may be deleted. A Pod
is quiet when it has no capture and none can begin: it is stopped, or it drains,
or it was selected, never granted and is selected no more. A quiet Pod stays
quiet whatever happens, so what a supervisor or a job once learned of it stays
true however old it is; the invariant says of each that the Pods it is about to
delete are quiet, or were replaced on request, which is the exception the
property makes.

**AllocationProofs.** There are many copies of the queue: the journal, the
gateway's cache and each save that may still land. The invariant says of every
one of them what it must remember, so that it does not matter which of them a
restart reads or a late save brings back: what was sent in its round, or is
about to be, is marked submitted (`Spent`), the create in hand is an entry
(`Entered`), one that is undecided at the provider and not overdue is counted
(`Recorded`), and the attempts are numbered consistently (`Coherent`). With one lemma for each
operation of the queue, which says that it keeps a faithful copy faithful, what
remains are the steps that touch something other than the queue: the
authorization, the dispatch, a new round, and a save that lands.
`NoCreateIsRepeated` and `FleetIsBounded` follow for any hotkeys, start ids,
rounds, fleets and queues; assumed is that the sets are finite and that the
bounds are numbers.

**CallsProofs**, the calls. Two things carry the proof. The record only moves on: whatever
is written to it, now or by an update that was given up and lands later, is a
legal successor of what it is, because the conditional put is refused
otherwise. So an attempt is authorized once, and an attempt that was claimed
stays with the Pod that claimed it. And an attempt has one response: only the
job that came through the authorization sends the request, stores what it got
and finishes, so whoever reads the manifest, even a handler of another Pod or a
recovery after a restart, reads that response. The ledger follows: once the call is
issued, or somebody who has settled it is about to issue it, the charge is the
settled one; a late update of the ledger is left only while the ledger has no
charge (`ResultIsPaidFor`). `CallKeepsAttempts` is the refinement of Attempts:
each write of the record, the manifest or the provider's counter maps to a step
of Attempts or a stutter. Both hold for any finite sets of Pods and attempts,
any handlers and any number of faults.

**CallsProofs**, the previews. In the render service the invariant counts: free
slots and the requests that hold one are all slots (`NoSlotLost`), every request
that waits is in exactly one line or with one worker (`Lines`), a request takes
a slot at most twice (`TwoAttempts`), and the contexts of the browser are those
of requests in a slot (`BrowserIsClean`): an abandoned rendering's browser is
replaced before the slot is given on. Around it, the Pod has at most one
request per key past the lock, nothing is saved of a key while it is posted, and what was
answered is saved: `IdenticalRequestsAgree` and `PreviewsWithinAllowance`, the
latter by the number of previews saved. These two are stated for a store that
loses no replies (`LosesReplies`), without which section 5 refutes the first.

**ClientProofs**, `create()`. The invariant relates three views of an attempt: the witness's
record, the snapshot a call goes by, which may be old, and what the call has
paid for. An attempt that may have been dispatched stays so until it is
replaced, and a snapshot that a call acts on to repeat its attempt shows that it
never was (`CreatesPayOnce`). For `LimitsHold`, the slots taken are counted as
those of the callers between taking and returning them, on every path.

**ClientProofs**, the Pod. The gateway keeps one Pod and one turn at a time
(`OnePod`), and a start that is over for its queue (`Past`) never becomes a Pod
again. So a Pod that was asked to be replaced is either the one the client is
replacing or gone for good, also for a call that looked before
(`Replaced`), which gives `ReplacedIsNotGiven`. For `StartsJoin` the invariant
follows the one request that the client would make again: while the gateway does
not know it, the queue and the inventory are empty, and every POST still under
way is known or is that request (`Waits`); and a call that is about to make a new
one has seen the queue and the inventory empty since every earlier one was known
(`Finds`). Both hold for any number of calls, entries, replacements and late
POSTs.

**SubmissionsProofs.** A lease only gets older. The invariant relates a lease to
the commit that granted it, to the clock and to the chain (its end is at most
`blockAt` plus the blocks that are left), and none of these moves in its favour;
installing it late or not at all changes nothing. That gives
`ClosedRoundIsFenced` and `DeadlineIsKept`. For the results it says that a
Pod's copy of the index with the index's entity tag is the index, so that a save
that is not refused adds to what is there (`SavedResultsStay`), that everything
running has the inputs that were frozen first (`OneSetOfInputs`), and that a
prompt is dropped only with its result there (`DroppedPromptsAreSaved`).

## 7. Only model-checked

Liveness (`EventuallyCommitted`, `RoundDecided`, `CompetitionEnds`, `QueueDrains`,
`Settles`, `AttemptEnds`, `Answered`, `DuelEnds`, `CreatesEnd`), which is out of
the prover's reach: it has no rule for fairness or ENABLED. What the timeline's
chain computes is recursion over data: TLC evaluates it, and the theorems about
Timeline use its defining equation.

## 8. Not modelled

- Ref updates that arrive after their request was given up are in GitBatcher
  but not in Judge, and Judge's verdicts, once published, are terminal.
- Round inputs besides the submissions (seed, prompts), the contents of results,
  rounds without a generation deadline, the date arithmetic of the round-manager
  and the size of weights. `pause_on_stage_end` is a constant of Judge and
  Competition, and FALSE in the runs: a hold gives the same pauses, at any time.
- A lost reply of a batcher's commit and another disturbance in one behaviour
  of Competition.
- In a match, which duels run: Judge's match is a step that a shutdown may cut,
  and MultiStage is one duel. Prompts, images and retries within a model call.
- Discord messages, which may announce a winner before it is committed.
- Miner downloads that outlive a failed collecting iteration.
- The gateway's queue capacity, create interval and the revivor's replacement of
  the gateway Pod itself; Pods of another image or spec; two gateways that race
  to freeze a round's inputs; the clock skew of 5 s that a lease allows.
- In a worker Pod: notarization, tunnels, diagnostics, a spool that is lost
  before its upload (`pod.py:312-313` then leaves the capture open for the
  deadline), a Pod that restarts while it saves a result, a result's files.
- In the render service: three.js in the page, the PMREM cache, `shutdown()`, the
  start message to a worker that has exited, and rejections that depend on
  timing and are cached like others.
- In the client: signing, proofs, the tunnel's bytes; a cancelled start whose id
  the gateway keeps in its history (`server.py:628-635`), after which the client
  posts again and is refused; two clients whose starts replace each other's Pod.
- Generation by the miner, the miner-reference, the renderer client, the Discord
  notifiers and the competition's data: no state that outlives a call, or none of
  this repository's.
