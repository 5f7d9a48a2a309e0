# agentdescent in TLA+

This directory holds TLA+ modules that model the core of agentdescent, TLC runs that check them on small
instances, and TLAPS proofs of what holds for every instance. Paths such as `ledger.py:466` are relative to
`agentdescent/`. `PROJECT.json` lists the components, the runs, the theorems, the hazards the properties are
aimed at, and the source lines each definition stands for.

1. [The system and its parts](#1-the-system-and-its-parts)
2. [Modules](#2-modules)
3. [Runs, bounds and fairness](#3-runs-bounds-and-fairness)
4. [Proofs](#4-proofs)
5. [Where the code does not do what it says](#5-where-the-code-does-not-do-what-it-says)
6. [Known limits](#6-known-limits)
7. [What is left out](#7-what-is-left-out)
8. [Plan](#8-plan)

## 1. The system and its parts

agentdescent improves an *artifact* (a prompt, a skill, a file tree, a program) by search. Workers run tasks
against a snapshot of the artifact and propose diffs with evidence; an aggregator filters, tests and merges
the diffs into a git-backed ledger; governed layers above decide what is released. `docs/main-path.md` names
three supported paths: **A**, evolve one artifact; **B**, governed release; **C**, the continuous platform.

### Parts of path A, which every product verb uses

**Ledger** (`ledger.py`). *State*: a git repository with the branches `dev`, `stable` and live heads
`head/*`; each branch holds one JSON file per artifact and `versions.json`, the version vector. Each `Ledger`
object caches which branch it last checked out. *Operations*: `snapshot`, `commit` and `commit_atomic`
(compare-and-swap on the version vector), `register`, `promote_to_stable`, `fork_head`, `discard_head`.
*Interacts* with every worker (snapshots) and the aggregator (commits, promotions); several processes may
open one directory, serialised by a file lock. *Hard*: one working tree serves all branches; a git command,
a file write, its rollback or the process may fail between any two of a dozen steps. *Correct when*: a
reader sees the branch it asked for; an acknowledged commit survives; a commit with a stale base is refused;
`stable` only receives what `dev` holds.

**Aggregator** (`aggregator.py`, `defaults.py`, `staleness.py`). *State*: evidence buckets per artifact with
the rounds they have waited, the set of artifacts in flight, rounds survived per artifact, the version last
promoted. *Operations*: `ingest`; `step`, or its phases `begin_step`, `measure` and `finish_step`; promotion
at the end of every step. *Hard*: one batch holds several candidates, any phase may raise, other processes
win the compare-and-swap, cards keep arriving during a measurement. *Correct when*: a diff has one
outcome; a lost race overwrites nothing; only what survived K rounds reaches `stable`, and what has
converged does reach it.

**Asynchronous engine** (`async_evolve.py`, `pipeline.py`). *State*: the intake (cards not yet merged), the
published head, the epochs that force workers to refresh, budgets, stop flag and reason, batches being
measured on a pool. *Operations*: worker threads that wait for room, refresh, roll out and append cards; a
merger thread that sweeps; a main thread that stops, joins and publishes. *Hard*: a worker's snapshot ages
while it works; a budget stops the run with rollouts in flight; any backend call may raise or hang.
*Correct when*: no evidence is lost or counted twice in the hand-overs, backpressure holds, a stale worker is
refreshed, and after a stop the merger drains and ends.

**Synchronous engine** (`evolution.py`, `orchestrator.py`). *State*: the round, the early-stop tracker, the
history. *Operations*: a round (dispatch to workers, barrier, `step`, measure the new head, record, checkpoint),
stop, publish. *Hard*: a round may be unreadable or unmeasurable, the process may die between the ledger commits
of a round and its checkpoint. *Correct when*: a resumed run counts on where the search was and a clean end
publishes the best it had.

**Selection and population** (`selection.py`, `population.py`). *State*: an archive of candidates with node ids,
parents and counts, the islands (live heads `head/*` beside `dev`), and per branch the candidate last selected
onto it. *Operations*: `step` (archive `dev`, merge, archive every head, choose parents, switch the heads to
them), `finalize`, `checkpoint`, `restore`. *Hard*: forks of one snapshot share version numbers; one selection is
several ledger commits; what is restored may name branches that are gone. *Correct when*: ids are unique,
lineages are derivations, workers are only sent to heads that exist.

**Checkpoint and run store** (`checkpoint.py`, `runstore.py`). *State*: `latest.json`, replaced atomically under a
file lock after each recorded round. *Operations*: save, restore. *Hard*: it is written after the ledger, it may fail
without a word, and a clean end does not rewrite it. **Policies** (`policies.py`, `fusion.py`, `tournament.py`,
`governance.py`): pure decisions about the diffs of a bucket: conflict groups, fusion, acceptance, audit.

**Process executor** (`supervisor.py`). *State*: worker processes in numbered slots with their restarts, a
bounded task queue, an unbounded result queue, and per call of `map_rollouts` the leases without an answer,
those in flight and since when, who took each, how often each was sent. *Operations*: `map_rollouts` (send,
receive, reclaim), `shutdown`; the workers' own loop. *Hard*: a process dies with a lease in hand and
messages unwritten, or never answers; one that was given up for lost answers late, perhaps in a later call.
*Correct when*: each lease gets one answer, a poisonous one is not sent for ever, a call returns.

**Sandbox pool** (`sandbox.py`, `runners.py`). *State*: the leases out (placeholders while provisioning) and
the warm sandboxes. *Operations*: `acquire` and `release` around a run, `revoke`, `close`. *Hard*: provisioning
happens outside the lock and may fail; stragglers run on after their slot was taken back. *Correct when*: at
most `max_sandboxes` are worked in, no two threads share a directory, nobody sleeps beside a free slot.

**Evaluation cache** (`evalcache.py`). *State*: values in memory, flights under way, a directory of files.
*Operations*: `get_or_eval` (hit, join or measure), `invalidate`. It is used by `_Runtime.eval_one`
(`evolution.py:630`), whose measurement leases a sandbox, and by the engine after a contract-breaking commit.
*Hard*: threads that wait for a flight whose thread waits at the pool; an invalidation in the middle of a
measurement. *Correct when*: a value is measured once, an old one does not come back, everybody returns.

**Schedulers** (`scheduler.py`, `budget.py`): bandit scores and a bounded resume queue.

**Evidence** (`verifier*.py`, `audit/`, `stats*.py`): estimators over samples; an append-only audit store.

### Parts of path C

**Durable run service** (`durable_runs.py`). *State*: in SQLite, a row per run (status, attempts, lease
owner, lease expiry) and its event log with unique idempotency keys. *Operations*: `run_step` (claim, then
heartbeat, snapshot, call the step, append), `cancel`, `recover`. *Hard*: workers of several processes under
leases that lapse; every SQL transaction is a point of interleaving; the clock is read before the write lock
is obtained; a process may die anywhere. *Correct when*: a run is one log of atomic decisions, terminal states
are sticky, a worker that lost its lease records nothing, attempts are limited.

**Loop kernel and control** (`loop_kernel.py`, `rsi_control.py`, `decisions.py`). *State*: none of its own
beyond the run's events; the controller (accepted rewards, best, rejections in a row, cost, stop) is rebuilt
from them by `restore` at every durable step. *Operations*: one generation: `step`, `observe`, `apply` or
`rollback`, a row in the decision log, the event. *Hard*: the effect precedes the record; `restore` repeats
`observe` in other words; a verdict may differ when a generation is decided again. *Correct when*: what is
recorded as accepted has been applied and as rolled back has been rolled back, the replayed controller is the one
that decided, the run ends.

**Platform** (`platform.py`,
`platform_campaign.py`, `campaign_ops.py`, `ops_fabric.py`): one cycle hands over between five layers;
*hard*: a crash between two layers.

### Path B and the advanced layers

**Governed release** (`trust_evidence.py`, `promotion.py`, `promotion_ledger.py`, `release_pipeline.py`):
immutable records, hashed and signed in one pass. **Approvals** (`approval.py`): an append-only file; *hard*:
two processes decide one request. **Tenancy** (`workspaces.py`, `workspace_store.py`, `tenant_platform.py`):
quota reservations in one snapshot file; *hard*: two processes load, reserve and save. **Meta-learning,
capabilities, algorithm ports, CLI, MCP and adapters**: sequential drivers and surfaces of the above.

### How they meet

```
 workers --snapshot--> Ledger <--commit, promote-- Aggregator <--cards-- intake <--cards-- workers
                                                        ^
                     AsyncEvolve: merger thread --------+---- pool (pipelined measurement)

 evolve() --step, finalize--> PopulationAggregator --commit, fork, discard--> Ledger
     +------ after each round --> checkpoint file --> restore, in the next process

 rollouts  --> SandboxPool <-- eval_one, inside a flight of --> EvalCache <-- invalidate (contract change)
 map_rollouts --> task queue --> worker processes --> result queue --> map_rollouts

 RSIPlatform -> LoopKernel -> DurableRunService (lease, log) -> step -> evolve() / async_evolve()
```

## 2. Modules

| module | what it is |
|---|---|
| `RunLog` | abstract: a log of atomic decisions, one event per key, nothing after a terminal event |
| `DurableRuns` | the durable run service, one action per SQL transaction; implements `RunLog` |
| `DurableRunsProofs` | eight theorems about it |
| `VersionedStore` | abstract: branches of versioned artifacts, each operation one step |
| `Ledger` | the ledger, one action per git command and per file; implements `VersionedStore` |
| `LedgerProofs` | five theorems about it, the refinement of `VersionedStore` among them |
| `Aggregator` | buffer, staleness, the phases of a step, CAS retry, promotion |
| `AggregatorProofs` | four theorems about it |
| `AsyncEvolve` | workers, intake, merger, pool and main thread around one aggregator (EXTENDS `Aggregator`) |
| `AsyncProofs` | six theorems about it (EXTENDS `AggregatorProofs`, whose lemmas about the aggregator's steps it uses) |
| `Supervisor` | the process executor: worker processes, two queues, the supervisor's loop |
| `SupervisorProofs` | four theorems about it |
| `SandboxPool`, `EvalCache` | the pool and the cache: state and operations, without their callers |
| `Evaluation` | rollouts and evaluations over one pool and one cache (EXTENDS both) |
| `EvaluationProofs` | five theorems about the three |
| `Population` | rounds of the synchronous engine around the population archive, with the checkpoint other processes resume |
| `PopulationProofs` | five theorems about it |
| `LoopKernel` | generations of the loop kernel over `RunLog`, with controllers that are replayed |
| `LoopKernelProofs` | three theorems about it |
| `MC*` | constants and symmetry for TLC |

Each definition after a comment `Bug:` is a plausible mistake in the definition below it, kept
beside it to show that some property notices.

**DurableRuns.** `log`, `status`, `attempts`, `owner` are the tables; `left` is `lease_until - now`, so that
time needs no bound (below `-(Lag + 1)` every reading finds the lease lapsed). `Lag` is how old `time.time()`
may be once the write lock is obtained (30 s in the code). `pc`, `turns`, `snap`, `outcome` are the locals of
`run_step` in each process. `snapshot()` is two reads, `ReadRow` and `ReadEvents`. `Stored` and `Refused` are
`append_event`: a key already present is returned *before* the fence, as in the code. `CancelCheck` and
`CancelAppend` are the two transactions of `cancel`. `lost` is history: how many workers used up the retry budget and
left (`Leaves`: died, lost the lease or were refused) before they had recorded the failure. Payloads and costs are
left out.

**Ledger.** `tip`, `head`, `index`, `tree` are git's; `cached` is `_current_branch` of each instance; `cs` is
the critical section of `_exclusive`: who is in it, which method, the branches it still has to visit and how
far it is. `GitCheckout` is git's two-way merge of clean and dirty files, which decides what survives when a
failed commit has left files behind. A state is the set of diffs applied to it. Faults: a git command fails
(`"git"`), a file cannot be replaced (`"write"`), nor its predecessor restored (`"rollback"`), the process dies
(`"crash"`). The contract check and a serializer that refuses are one nondeterministic refusal before the
first write (`CheckCommit`).

**Aggregator.** A diff is named by its card; `content` is what `dev` holds. What depends on scores (screens,
re-verification, the tournament, acceptance, the oracle) is a choice, so the properties hold under any policy of
those kinds. `Prepare` is the whole of one artifact's preparation: drain, screen, staleness, survivors,
candidate. `Commit`, `Rebase` and `GiveUp` are `_commit_with_retry`; `Observe` and `Promote` are
`DefaultPromotion.observe` and `_promote`. `Unwinds` is what any return or exception does to the locals of
`step()`. Each phase has its raise (`Faults`): `PrepareRaises` anywhere in an artifact's preparation, once its
bucket is drained; `MeasureRaises`; `DecideRaises` before the ledger commit of a decision and `CommitRaises`
after it; `PromoteRaises`. `fate` and `since` are history variables: a card's outcome, and the rounds since this
process last committed to an artifact, `None` once the report of that commit is lost.

**AsyncEvolve.** It adds the threads. `epoch` and `commit_epoch` are only ever compared with a worker's copy, so
they are flags (`forced`, `behind`: the counter has moved since the copy). A worker takes its snapshot and reads
the epochs in two actions. The merger's sweep is `TakeIntake`, `GateCards`, `StepBegins`, `StepMeasures` or
`Submit`, `Finishes`, `PublishHead`, `Record`; with the pipelined gate `_collect_gate` walks over the batches on
the pool. `mode` is where the merger is in its life: running, draining for a work budget, last sweep,
`_finish_pipeline`. Any backend call may raise (`Raises`: `PrepareFails`, `StepMeasures`, `Finishes`,
`CollectRaises`, `GateRaises`, `ScoreRaises`); `Recover` is the handler around the sweep and `Breaks` the one
for a caller's bug (`ContractError`), which ends the merger on the spot. `books` is history: per artifact the
commits in the rounds of the history (`recorded`) and those whose sweep was left by an exception (`unrecorded`).

**Supervisor.** `worker` is the process in each slot; `pending`, `inflight`, `owner`, `attempts` and `toSend`
are the locals of `map_rollouts`. `Dies` loses what the worker's feeder thread had not written yet: any suffix
of its messages. The clock is only read in `_reclaim`, so `Reclaim` takes a set of leases found overdue. `Send`
is enabled only when the bounded queue has room, so a supervisor that waits in `put` takes no step. The order in
which dead slots are gone through matters to `Dropped` and is chosen. `answers` and `sent` are history.

**SandboxPool, EvalCache, Evaluation.** A placeholder is named by its thread, a flight by the thread that
computes. `notify` wakes any one waiter, who looks again (`"woken"`); `Tell` is the `notify` of a failed
provisioning. A sandbox name is used again once nobody holds its directory. `disowned` remembers
the stragglers, whose slot was revoked or closed under them: they still use their directory but
hold no slot. A value in the cache is named by the contract in force when its measurement began, which
is all that invalidation is about; `clean` and `measured` are history. `FileCache.invalidate` is
`DropMemory` and one `DeleteFile` per file. `Evaluation` is `eval_one`: each attempt comes to the pool (`Ask`)
from inside its flight, and what raises is tried again (`Raised`) unless it is a `ContractError`.

**LoopKernel.** `log` is the run's event log, written through `RunLog` under a lease (`owner`): `DurableRuns` is
shown to implement `RunLog`, so what holds here holds over it. One durable step is `Decide` (claim, snapshot,
replay, `step`, `observe`), `Effect`, `LooksForRow`, `WritesRow`, `RecordStep`; `Lost` and a second worker's
`Starts` may come between any two. The look for a row and the write of one are two steps because the decision
log does not serialise processes (`decisions.py:117`): a generation may get two rows, so `audit[g]` is a set. An
event carries, as history, the controller that decided it (`ctl`); `returned` is which callback came back for
which generation; `again` is the generations that found a row of an earlier decision. When a generation is run
again neither its score nor the gates need answer the same. `Replay` is a recursive function on the length of
the log, so that it can be proved about.

**Population.** `heads` is the ledger by branch (0 is `dev`, k + 1 is `head/k`), with the version and, as history,
what the state was made from; a state is named by its held-out score, since that is all the search compares.
`disk` is `latest.json`; `mem` is what a process forgets when it ends: archive, tips, islands, tracker, round. A
round is `Merge` (with the archiving of `dev` before it), `Choose`, then `Fork` and `Switch` for each slot, so that
a process can die between the commits of one selection; `Measure`, `Save`. `Merge` stands for the whole merge
pipeline: at most one commit per live head, of any content. A selection policy is any choice, one candidate per
slot, as every `select` in `selection.py` returns. `Stop` covers every budget and deadline, which are looked at
between rounds. `FinalBest`, `Discard` and `End` are `finalize`. `observed`, `start`, `stepped`, `clean` and `trusted`
are history. The code's loops over the live heads (`AdmitAll`) and over the islands of a checkpoint (`LiveForks`) are
recursive functions, so that they can be proved about.

## 3. Runs, bounds and fairness

| run | instance | shows |
|---|---|---|
| `durable_runs` | 2 processes, lease 1 tick, clock lag 1, 1 retry, 2 turns, 2 events seen and one more retry, 1 crash | types, the owner's snapshot is current, `RunLog`, attempts beyond `max_retries` are owed to workers that left |
| `ledger_threads` | 2 threads of 1 process, 1 artifact, 1 live head, 2 commits, 1 failing write | each method is one step of `VersionedStore`; a read returns its branch |
| `ledger_processes` | 2 processes, 2 artifacts, 3 commits, 2 faults of any kind | an acknowledged commit is never lost |
| `ledger_stale_cache` | 2 processes, no faults | violated: section 5 |
| `aggregator` | 2 artifacts, 1 of them shared with other writers, 2 cards, trigger 2, wait 2, K = 3, any phase may raise | types, one outcome, nothing overwritten, promotion, convergence reaches `stable` |
| `async_pipelined` | 1 worker, 2 artifacts, 2 cards, so 2 batches on the pool; preparation, measurement, decision and scoring may raise | no conflict, no card lost, every commit accounted for, a diff committed once |
| `async_ends` | 2 workers that hang or raise, 1 card used again, a budget, every call raises | types, the merger ends after a stop, a work budget drains the intake |
| `async_stall` | lag budget 1, staleness tolerance 0, no resync, a caller's bug | a worker whose cards are all discarded is refreshed |
| `supervisor` | 2 worker slots, 2 calls with 3 leases, 2 deaths, 1 resend, no restarts left | types, no lease forgotten, one answer each, bounded resends, calls return |
| `evaluation` | 2 evaluating threads, 1 rollout, 1 sandbox with warm reuse, 1 key, 2 attempts, 1 revoke, close or contract change | ceiling, exclusive directories, single flight, invalidation, everybody returns |
| `loop_kernel` | 2 workers, 3 generations, patience 2, cost 3, gates that may roll back, 1 retry, 2 faults | types, replay is `observe`, applied or rolled back, and audited, before recorded, the run ends |
| `population` | 3 processes on one ledger, 2 islands, 2 rounds, 2 merges, patience 1, perhaps an island of a former run, 1 fault of five kinds | nothing restored dangles, parents are derivations, the best is published |

**Why the bounds suffice.** *Durable runs*: two processes are enough for every theft of a lease, and the second
can be robbed back after the crash budget is spent; a lease of one tick and a lag of one tick make a lease live,
lapsed, and lapsed-for-some-readings; with `MaxRetries = 1` the second attempt exhausts the budget, and
a step that has seen two events may still ask for one more retry, which is the turn of a worker that makes one
beyond it. What the bounds cut off is covered by the proofs,
which have none of these bounds in them. *Ledger*: two writers, each with a snapshot, are enough for every
conflict; three commits let a loser refresh and win; two faults are a failure and the failure of its repair.
Versions are bounded by the commits. *Aggregator*: a trigger of two with two cards has full, partial and overdue
buckets; K = 3 keeps a round between a commit and a promotion in which another commit can come; two attempts
have a rebase and a give-up; sharing one of two artifacts with other processes keeps both kinds. `MaxVersion`
stops accepting rather than cutting off behaviours: the candidate is rejected, which the code may always do.
*Async*: two workers give the last-to-retire and gate races; on the pool two artifacts put two batches, of which
one fails or is decided while the other waits, and a batch decided is decided again; the second of two cards may
also be for the artifact that is being measured; one worker is enough there, since only the merger touches the
pool; a budget trips with a rollout in flight. In `async_ends` and `async_stall` card names are reused
(`Reuse`), so those runs are unbounded in cards. `AnyPhase` (`aggregator`, `async_ends`) and `WorkPhases`
(`async_pipelined`) include preparations and decisions that raise, which take cards along: `NoEvidenceLost`
names those steps (`Thrown`) and lets no other lose one. *Supervisor*: the code queues two tasks per worker and
sends a lease three times; `PerWorker = 1` and `MaxAgain = 1` keep a queue that fills and a lease that is given
up, with fewer steps. Two calls let an answer of the first arrive in the second; the second death finds a slot
whose owner is stale and the last slot, which is kept in spite of `MaxRestarts`. `MaxBacklog` holds `Take` back
while two messages are unread, unless the queue is full, so that it never causes the supervisor to wait.
*Evaluation*: one sandbox makes everybody wait; two evaluations per thread let a value be invalidated between
them; one event is enough for each of the hazards and two did not fit. *Loop kernel*: three generations have an
accepted one, a rollback and what follows; one reward, below the target, is the first time an improvement and
then none; two faults are a theft and a raise; the gate answer `"rollback"` is the one that moves the controller
differently from the thresholds (`"reject"`, which they also give, is its neighbour). *Population*: two merges
on two heads of one version make the collision of node ids; two islands can be lost one by one; three contents
are a worse, an equal and a better head; three processes are a run, its resume after a crash and a resume after
a clean end, which leaves a checkpoint that names islands it removed. `MaxRounds` bounds the search; `Stop` may
end it earlier anywhere.

Symmetry is used in safety runs only. `CHECK_DEADLOCK FALSE` is given where the system may stop: a terminal run
without lease, a ledger whose commits are used up, a stopped engine in `async_stall`, threads whose requests are
used up in `evaluation`, a supervisor whose workers are all wedged, a search whose processes are used up; the
other async runs check deadlock, with `Ended` as the only place to stop.

**Fairness.** `AggSpec` assumes `WF(Step)`: the orchestrator calls `step()` once per round for as long as the
run lasts; and `SF(Promote(a))`: a promotion that comes due again and again does not raise every time, without
which an artifact whose copying to `stable` always fails would never be published. `FairSpec` assumes that
threads are scheduled, that a measurement on the pool ends and that time passes; it assumes nothing of a
rollout, which may hang, nor of the choices (a raise is never forced). This is enough for `MergerEnds` because
the drain is bounded by `max_seconds`. `BusySpec` is the run before `max_seconds`: rollouts end (agent commands
run under a timeout, `agents.py:402`), and a worker that keeps rolling out keeps finding something to propose
(strong fairness on proposals); without the latter no card would ever be discarded and the stall guard would
have nothing to notice.

`Supervisor`: the supervisor and idle workers are scheduled; a rollout may hang for ever, in as many workers as
there are. A lease that is in flight whenever `_reclaim` looks is at last found overdue (`SF(FindsOverdue(l))`:
the hang timeout). `CallsReturn` assumes that some slot's process comes back for a task again and again; without
it the code does block (section 6). `Evaluation`: a thread in the middle of something is scheduled, and a run
ends because agents run under timeouts; new requests, failures, revocations and contract changes are never
forced. `LoopKernel`: callbacks return or raise, and somebody, whichever worker it is, calls `run` again until
the report is terminal, as `loop_kernel.py:347` asks; faults are bounded by `MaxFaults`, since a run whose
workers are always lost never ends.

## 4. Proofs

**DurableRunsProofs**, from `ServiceAssumption` alone (any processes, ids, lease, lag, retries):

- `TypeCorrect`: `Spec => []TypeOK`.
- `Invariance`: with `DistinctIds`, `Spec => []Inv`. The safety fact wanted is `OwnerIsCurrent`: a worker that
  still owns the lease of a live run holds a snapshot equal to the log. It is not inductive: while the snapshot
  is half read, the row part must already be current (`OwnerIsBetween`), between an attempt and its verdict the
  log is one longer, and the attempt's key must be free or the write would return somebody else's event
  (`KeysFollowLog`); the log's last event must explain the status (`TerminalSticky`). Each step either leaves
  the row alone (`LocalStep`) or pushes an event (`WriteStep`), which the other processes survive because at
  most one of them owns the lease. The lag of the clock plays no role: the half of the fence that
  compares owners carries the proof, and expiry only decides who may take the lease.
- `OwnerStepsOnCurrentSnapshot`: `OwnerIsCurrent` by itself.
- `Refinement`: with `DistinctIds`, `Spec => Promise!Spec`, by `Inv`: each push is a `Record` whose `seen` is
  the length of the log.
- `RetryBudgetHolds`, for finitely many processes with distinct ids: attempts in a row exceed `max_retries` by
  no more than the workers that recorded the last attempt of the budget and left before they could record the
  failure. It is inductive beside `Inv`: an attempt is written on a current snapshot, so its writer counts right
  and joins `Undecided` in time, and leaves that set only by recording the failure, which ends the run of
  attempts, or by adding to `lost`.
- `LogOnlyGrows`: an append-only log, and nothing after a terminal event, whatever ids are shared.

**LedgerProofs**, from `LedgerAssumption` and `NoneIsNoTree` (the value of an absent branch is no tree). What
holds depends on who shares the repository and what can fail, and the theorems say so:

- `LedgerTypeCorrect`, for any instances and every fault. The type invariant needs `Itinerary`: which branches each
  method still has to visit, and that only committing methods write.
- `ReadsItsBranchHolds`, within one process whose git commands succeed while file writes may fail
  (`OneInstance`, `OnlyWritesFail`). A read is right because the cached branch is (`CacheRight`), which is of
  use only if a checkout never meets a dirty tree: `TreeFollows` says, for each stage of a commit, how index and
  tree relate to the tip of `HEAD` and that a failed write has been rolled back. Both hypotheses are needed:
  section 5 is two processes, section 6 a failed `git commit`.
- `StoreImplemented`, with the same hypotheses: every method is one atomic step of `VersionedStore`, and the
  other dozen are stutters. `StoreInv` adds what a method is about to commit (`Wanted`), what it has copied from
  `dev` (`Copied`) and that its commit is in the branch (`Landed`).
- `OneLosesNoUpdate`, from the same `StoreInv`, and `LosesNoUpdate`, for any number of processes, failing git
  commands, failing rollbacks and crashes, as long as they only read and commit `dev` (`DevOnly`). There the
  tree need not match the tip; `DevInv` says instead that every acknowledged update is in tree, index and tip
  alike (`AckedKept`) and that the version vector of the tree never goes back, so that a base that is equal is
  not stale (`SeenNotStale`).

**AggregatorProofs**, from `AggregatorAssumption` (any artifacts, cards, policy, attempts, other writers, and any
phase raising, a preparation half done and a decision whose commit has landed included):

- `AggTypeCorrect`. The type invariant needs `CommitBelowBound`: between `Accept` and the commit there is
  a candidate in hand and its head is at most at the bound on versions.
- `NoDiffOverwritten`: a commit keeps every diff committed before it. Its invariant `Remembers`: a candidate
  was built on an older version of its artifact or holds what `dev` holds, and rebasing re-establishes it.
- `CardsDecidedOnce`: a diff that has an outcome keeps it. Its invariant `OnePlace`: the cards of the buckets
  and of the batch in hand are undecided and all different (`InBuckets`, `InCandidates`, `InOneCandidate`).
- `SurvivorsPromoted`: `stable` only receives what has gone `promote_after_k` rounds without a commit. The policy's
  count may be larger than the rounds since the commit while the report of that commit is under way, so
  the invariant `Clocks` makes the exception precise (`Unheard`), and says that what is up for promotion is past it.

**AsyncProofs**, from `EngineAssumption` and `AggregatorAssumption`: any workers, artifacts, cards and bounds,
with or without the gate, whatever raises. Two of the theorems have hypotheses, each against a behaviour that
does break the property:

- `AsyncTypeCorrect`, without hypotheses. Its invariant `AsyncTyped` adds where the merger can be in each phase
  (`Phased`) and that the history never claims a commit the ledger does not have (`NeverAhead`).
- `DrainsTheIntake`, without early stops (`BudgetOnly`). Its invariant `Drain` follows the hand-over: no worker
  is alive once the merger is past the drain, so what the last sweep took was everything.
- `NeverConflicts`: a candidate is built on the head that `dev` has, or `dev` holds its diff already. Its
  invariant `Fitting` says so of the batch in hand and of all batches on the pool (`Fits`). A commit moves one
  head; the only other candidate for that artifact is the one of the same batch in the list that is being
  walked, and that has just landed (`SameDiffs`). It rests on `Distinct`, below.
- `CommitsAreRecorded`, without hypotheses: between sweeps the rounds of the history and the sweeps that an
  exception left add up to the version in the ledger, whatever raises and however many batches are decided
  twice. Its invariant `Balanced` counts the reports under way (`Pending`) too, and needs that a sweep commits
  an artifact at most once, since a round accounts for one commit of each. With batches that are decided again
  this is no longer plain: it holds because an artifact has a candidate in at most one batch of the list and in
  the batch in hand (`Parted`), is in flight as long as one of its candidates is yet to be decided (`Claims`),
  and is not prepared while it is (`InStep`, `Choosing`); the walk goes through each batch once (`FromBatch`,
  `Walk`). Together these are `Distinct`.
- `EvidenceIsKept`: a step that loses a card is an exception in the middle of a step or of the staleness gate.
  `Kept` says where a card is, without counting the batches the walk has been through, and any step but such a
  one leaves a kept card kept (`TrackedKept`, over the operator `Tracked`). What makes it inductive is `Listed`:
  a card of a batch of the list that has no outcome is kept, although a batch that was walked past comes back
  when its sweep raises.
- `AsyncCardsDecidedOnce`, for card names used once and where no batch is decided twice (`DecidesOnce`: on the
  pool, no decision or promotion raises, and a measurement only if there is one artifact). Its invariant
  `Spread` extends `OnePlace` to intake, batch and pool; over the batches that are still to be decided (`Live`)
  no artifact has two candidates (`Exclusive`).

**SupervisorProofs**, from `SupervisorAssumption` and `DistinctLeases` (a lease id is a fresh uuid,
`workspec.py:232`): `SupTypeCorrect`, `NothingStrandedHolds`, `AnsweredOnceHolds`, `PoisonBoundedHolds`,
whatever dies, hangs or answers late. The invariant `SupInv` adds that what is pending belongs to this call and
has no answer (`PendingIsOpen`), that nothing of a call is left between two (`IdleIsEmpty`), and the count
behind the bound on resends: what was put on the queue plus the places in `toSend`, where a lease may occur
several times, is at most one more than its attempts (`PutsCounted`).

**EvaluationProofs**, from the assumptions of the three modules and `EnoughNames` (the code never runs out of
fresh directories; here one more than threads):

- `CeilingHolds` and `ExclusiveUseHolds`, by `PoolInv`. The ceiling is kept since every thread inside that was
  not disowned has a slot of its own among the live ones (`Slotted`), and every sandbox out is somebody's
  (`Holding`), so the number of slots is the number of those threads.
- `MeasuredOnceHolds` and `NothingOldKeptHolds`, by `CacheInv`: a flight and its thread know each other
  (`FlightsMatch`); what a flight will land is as new as its key asks for (`AnswersFit`); a key that was
  measured has its value in the table or about to land (`CountFits`); a doomed key with a flight is one that
  promises nothing (`CleanFits`).
- `TypeCorrect`, from both.

**LoopKernelProofs**, from `KernelAssumption` and `NoneIsNoAction` (no action is called `None`). One invariant,
`KInv`, for `LoopTypeCorrect`, `ReplayIsObserveHolds` and `EffectsBeforeRecordHolds`. `Replay` is defined by
recursion over the log; the theory of it (it exists, ignores what is not a step, extends event by event, and
only depends on the prefix) is proved by induction over `Nat`, from the well-foundedness of `<`.
`ReplayIsObserve` is not inductive: a verdict is decided on a snapshot and lands in a log that may have grown,
so what a worker read is a prefix of the log (`SnapsAreOld`), the verdict in hand is what a `restore` of that
prefix makes of it (`VerdictKept`), and the fence of `RunLog` rejects it unless the prefix is the whole.
`EffectsInOrder` does the same for the callbacks that came back (`returned`: `apply` for what is recorded as
accepted, `rollback` for what is recorded as rolled back) and the rows of the decision log, with the generations
decided twice apart (`RowOf`).

**PopulationProofs**, from `PopulationAssumption` and `NoneIsNoHead` (the value of an absent branch is no head).
The five invariants of the run, for any contents, islands, workers, bounds, kinds of fault and number of
processes. `AdmitAll` and `LiveForks` are defined by recursion; that such functions exist, and `AdmitAllIn`
(what each `Admit` preserves, all of them do), comes from the well-foundedness of `<`, and so do the minimum and
maximum of a bounded set of numbers.

- `PopulationTypeCorrect`. The type invariant needs `Switching`: a slot under way lies within `Slots`, there is
  one fork for each slot before it, and each has the name that belongs to its place (`HasPlace`). From this
  `FreeName` finds a name: two sets of island names are too few for all branches.
- `NothingDanglesHolds`. `Referenced` says it of memory and checkpoint (`Closed`), and that the islands of the
  switch before are different too, so that a slot that keeps its island does not take another's.
- `CountsOnHolds`, which no run checks: rounds and patience go on from the checkpoint, for the rounds saved
  there and those since. `Counted` relates tracker and rewards in every phase of a round and in the checkpoint;
  `Recorded` is what one more reward does to `Top` and `First`.
- `BestIsPublishedHolds`. `Gathered`: the archive has what `dev` held when the process came, and everything the
  checkpoint holds.
- `LineageIsDerivationHolds`. Between two selections a branch with a tip holds what the tip names (`Settled`),
  and only `dev` and the islands have one (`Tipped`). A merge moves the head one derivation away (`Merged`), and
  then the next selection has to reach every branch with a tip (`Switched`). It does because there is a slot for
  each island (`Fits`, `LastSlot`): as long as there were slots when the island was made, since archives only
  grow. With a single candidate there is no selection, but then there is no tip (`Lone`). The checkpoint has the
  same (`OnDisk`), of use to a resume while nobody else moved a head (`clean`).

**Only model-checked.** Liveness (`ConvergedIsPublished`, `MergerEnds`, `StaleWorkersRefresh`, `CallsReturn`,
`EveryoneReturns`, `LoopEnds`) is out of the prover's reach. `CommittedOnce` is checked with two batches on the
pool. `ReadsItsBranch` with two processes is false (section 5).

## 5. Where the code does not do what it says

**A stale cached branch** (`ledger.py:466`, run `ledger_stale_cache`). The comment at `ledger.py:458` calls
the cache of the checked-out branch safe because callers hold the lock. The lock is released between calls;
when another instance on the same directory promotes, `HEAD` is left on `stable`, and the first instance's
next read of `dev` skips the checkout and reads `stable`.

## 6. Known limits

Behaviour found while modelling, of which no property is claimed:

- *Retry budget* (`durable_runs.py:431`): a crash between the attempt event and the failed event makes the next
  worker evaluate the budget on a log that already holds the attempt; one more attempt than `max_retries`
  allows can be made, once for each such crash (`RetryBudget` is exact about this).
- *Cancel* (`durable_runs.py:372`): if the run ends between the check and the append, `cancel` raises instead of
  returning the terminal snapshot.
- *Shared worker ids* (`durable_runs.py:282`): `claim` is re-entrant on the id, so two processes with the same id
  both hold the lease and `OwnerIsCurrent` is lost; hence `DistinctIds`. The append-only log survives.
- *Torn write* (`ledger.py:425`): a process that dies between two files leaves a mix in the working tree; the
  next checkout refuses, or a later commit includes it.
- *Failed git commit* (`ledger.py:557`): the caller is told the commit failed, but the bumped files stay in the
  working tree. A later checkout between branches that agree carries them over, and `promote_to_stable`
  publishes a state no commit on `dev` holds. This is why `ReadsItsBranch` is checked with a failing write and
  not with a failing git command.
- *Re-forked heads* (`ledger.py:706`): a head that is forked anew starts over with the version numbers of its
  source, so a base from its former life can look current.
- *A raising preparation* (`aggregator.py:1460`): the snapshot, a screen, a re-verification or the tournament
  raises after the bucket was drained: its cards are gone, and so are the reports of the round. With the
  pipelined gate the artifacts that were put forward before it stay in `inFlight` for the rest of the run, since
  nothing will decide them, and get no further candidate.
- *A raising sweep after the collection* (`async_evolve.py:706`): `_collect_gate` has committed, and then
  `begin_step` raises: the commits are in the ledger and in no round of the history. They are what `unrecorded`
  counts in `HistoryAccountsForCommits`.
- *A raising decision* (`aggregator.py:956`): the candidates of the batch after it and all reports are lost, and
  they stay in `inFlight`, which the pipelined gate skips. Among the reports may be one of a commit the
  promotion policy then never hears of: its clock is not restarted, and the artifact is promoted before its
  rounds are over (`aggregator.py:946`; `docs/aggregator.md:57` says "A commit restarts the clock").
  `OnlySurvivorsPromoted` therefore leaves out artifacts whose last commit went unreported.
- *A batch decided twice* (`async_evolve.py:680`): `_collect_gate` prunes `gate_inflight` at the end of its
  walk. If a decision, or a failed measurement of a later batch, raises before that, the batches already decided
  are still listed, and the next sweep decides them again: their candidates lose the compare-and-swap, and their
  cards get a second outcome, but no diff is committed twice (`CommittedOnce`). Hence `DecidesOnce`, and the
  second half of `NoConflicts`.
- *Promotion reads the head late* (`aggregator.py:1076`): beside other writers, what is copied to `stable` is what
  `dev` holds then, not what was confirmed.
- *Missed resync* (`async_evolve.py:773`): a commit between a worker's snapshot and its reading of the epochs is
  noticed at the next commit only.
- *Overshoot* (`async_evolve.py:742`): each worker waiting at the gate when the run stops starts one more rollout.
- *Stop reason* (`async_evolve.py:995`): of several stops the last writer's reason is reported, and decides whether
  the intake is drained.
- *Held-out scoring* (`async_evolve.py:1150`): if it raises, the commit of that sweep is missing from the
  history, and counts in `unrecorded`.
- *A caller's bug* (`async_evolve.py:1279`): a `ContractError` ends the merger at once: the intake is not
  drained and what is measured on the pool is not decided.
- *Re-verification at the gate* (`async_evolve.py:1084`): if it raises, cards of the batch behind it are dropped.
- *Leftovers* (`async_evolve.py:1269`): the last sweep does not empty buckets that are below the trigger.
- *Intake* (`async_evolve.py:745`): the gate looks before the rollout, so the intake may exceed `async_ratio` by
  what the workers in flight bring.
- *A failed measurement* (`async_evolve.py:684`): the failed future stays first in `gate_inflight`; every later sweep
  raises on it, nothing is collected or begun, and after a stop the last sweep fails over and over instead of
  reaching `_finish_pipeline`. The comment at `async_evolve.py:682` says that raising is what keeps the artifact from
  staying in flight. `MergerEnds` is therefore checked without the pool.

*Process executor*
- *Everyone wedged* (`supervisor.py:207`): a hung worker is given up but not replaced; when all of them hang the
  re-sent leases fill the bounded queue, `put` blocks and `map_rollouts` no longer looks at its clock.
- *Stale owner* (`supervisor.py:275`): `owner` keeps naming the worker a lease was first taken by, so a second
  death in that slot charges a lease that waits in the queue. The duplicates can fill the queue while the only
  worker is dead, and the supervisor then waits in `put` for a process it has yet to restart.
- *The queue's lock* (`supervisor.py:98`): a worker killed inside `tasks.get()` holds the queue's read lock, and
  no other worker gets a task; the model has a worker die before or after `get`.
- *Two callers* (`supervisor.py:200`): concurrent `map_rollouts` on one executor take each other's messages;
  `evolve()` never does that.

*Sandbox pool*
- *An idle sandbox is overwritten* (`sandbox.py:340`): there is one warm place per fingerprint; of two released
  together the first is no longer reachable and its directory is left on disk.
- *A reset that fails* loses the warm sandbox without destroying it.
- *Close during provisioning* (`sandbox.py:378`): a placeholder is `None`, its `handle` raises `AttributeError`,
  and what comes after it is not released. The model's `Close` lets go of everything.
- *Use after close*: nothing refuses it. A straggler's provisioning that ends later is entered among the leases,
  so `live` may exceed the maximum.
- *Lease identity* (`sandbox.py:340`): a warm sandbox keeps its `lease_id`; a second release or a late
  revocation by its former holder ends the next holder's lease. No caller in the repository releases twice.

*Evaluation cache*
- *Measured across an invalidation* (`evalcache.py:116`): a measurement begun before `invalidate` is stored
  after it and is served from then on; `NothingOldKept` therefore speaks of keys that no flight was measuring.
- *Stale file* (`evalcache.py:178`): between the memory and the files of `FileCache.invalidate` a reader takes
  the old file back into memory; a file that cannot be removed stays.

*Loop kernel*
- *A superseded verdict* (`loop_kernel.py:469`): the comment says that the replay of the decision row is a
  no-op. With gates that answer differently the second time, a generation that was audited, lost and run again
  keeps its first row while the event records the second verdict; likewise what was applied under `accept` may
  be recorded as rejected.
- *Two rows* (`decisions.py:117`): processes are not serialised between the look for a row and the write, so a
  generation run by two of them may get two rows, with different verdicts.
- *Late effects*: a worker that lost its lease can still call `apply` after its successor.
- *Costs of failed attempts* are not charged against `max_cost`.

*Population search*
- *Resume after a clean end* (`population.py:457`): `finalize` commits the best candidate to `dev` and does not
  rewrite the checkpoint, so the next process still holds the older tip of `dev` and records the first mutation
  under a parent it was not made from. The same after a crash between a switch and its checkpoint.
  `LineageIsDerivation` is stated for resumes that find the ledger as the checkpoint left it (`trusted`);
  `tests/test_population_islands.py:8` says that a resumed run keeps its lineages.
- *A run that ends before its first step* (`population.py:449`), by a budget or after unreadable rounds only,
  publishes the best of the checkpoint over a `dev` that may have become better since; hence `stepped` in
  `BestIsPublished`.
- *A crash between the parent switch and the checkpoint* loses what that round merged: the switched head is all the
  next process finds, unless the policy chose the new candidate.
- *A raise while scoring* (`population.py:161`): the key is reserved before the candidate is scored; if scoring raises
  and the engine goes on, that candidate never enters the archive.
- *Which reward counts* (`evolution.py:4085`): patience sees the reward of the parent switched to, not that of
  what the round committed.
- *Workers during a switch* (`population.py:147`): `head_for_worker` tests `_forks` and then indexes it, while `step`
  replaces the list; with threads that do not wait for `step` it may raise.
- *A busy lock* at the start reads as no checkpoint, and round numbers start again at 0.

## 7. What is left out

*Simplified*: `CopyToStable` reads the head's version (`aggregator.py:1076`) and copies it
(`aggregator.py:1079`) in one step; beside other writers `promotedAt` may in the code be older than what was
copied, and the next promotion then copies the same head again. A worker process dies only while it runs a task
(`Dies`): one that dies idle holds no lease and is replaced, and one that cannot be spawned
(`supervisor.py:296`) raises out of `map_rollouts`. `observed` of `Population` is part of the checkpoint, as the
tracker is: a round that was recorded but never saved is forgotten, and its number is used again. A
compare-and-swap that `Put` loses (`population.py:281`) takes two processes that search on one ledger at once,
which the model leaves out: the next process begins when the one before has ended. An `os.remove` that fails
(`evalcache.py:196`) and the `AttributeError` of a placeholder closed (`sandbox.py:378`) are in section 6 and
not in the models.

*External*: git, SQLite and threads are modelled by what the code relies on. *Not in the models of modelled
parts*: the audit queue, the trust region, contract-breaking diffs with adapters, forked heads and checkpointing
in `Aggregator`; the resume queue, the budget governor and ledger reads that fail in `AsyncEvolve`; the thread
executor, pickling and the meter in `Supervisor`; the provider's own failures on release, several fingerprints
and `SharedSandboxPool` (`sandbox_shared.py`) in `SandboxPool`; other processes on one directory in `EvalCache`;
the workers of a round with their straggler deadline, the budget governor, `refresh_interval`, the scores of
selection policies, malformed checkpoints and those of another artifact in `Population`; telemetry, budget
policies, lineage and a controller used without a kernel in `LoopKernel`; the unlocked bootstrap of a fresh
directory in `Ledger`, which `docs/ledger.md:75` excludes; `list_runs` and several runs at once in
`DurableRuns`, since runs share no rows. *Not modelled yet*: the parts in section 8. *Not planned*: verifiers
and statistics (floating-point estimators), governed release (one pass over immutable records), artifacts and
strategies (pure data), algorithm ports, CLI and MCP surfaces.

## 8. Plan

Done, in this order: `DurableRuns` and its proofs, `Ledger`, `Aggregator` and its proofs, `AsyncEvolve`,
`Supervisor`, `SandboxPool` with `EvalCache` and `Evaluation`, `LoopKernel`, `Population`; then the proofs of
`Evaluation`, `Supervisor`, `Ledger`, `LoopKernel`, `AsyncEvolve` and `Population`. Next:

1. `Quotas`: reservations of two processes over one snapshot file, and their crashes.
2. The workers of a synchronous round with their straggler deadline; the resume queue.
3. Operators for conflict grouping and fusion, checked against reference definitions.
