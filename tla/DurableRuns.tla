---------------------------- MODULE DurableRuns ----------------------------
(***************************************************************************)
(* The durable run service of agentdescent/durable_runs.py: one run, kept  *)
(* as a row and an event log in SQLite, stepped by several processes that  *)
(* share the file.  Ownership is a lease that lapses with time; every      *)
(* write of a worker is fenced on it and deduplicated by a key.            *)
(*                                                                         *)
(* Each SQL transaction is one action.  run_step is broken at every        *)
(* transaction boundary, and snapshot() is two reads (the row, then the    *)
(* events), as in the code: another process may act between them.          *)
(***************************************************************************)
EXTENDS Integers, Sequences, FiniteSets

CONSTANTS
  Procs,       \* processes that call run_step
  Ids,         \* worker ids
  WorkerId,    \* the worker_id each process passes
  None,        \* no lease owner
  TTL,         \* lease_seconds, in ticks
  Lag,         \* how old time.time() may be when the write lock is obtained
  MaxRetries,  \* max_retries
  MaxSteps,    \* max_steps
  EventKeys,   \* the StepOutcome.event_key values a step may choose
  MaxEvents,   \* bound: a step that sees so many events is done, or fails once more
  MaxCrashes   \* bound on process crashes

ASSUME ServiceAssumption ==
  /\ WorkerId \in [Procs -> Ids]
  /\ None \notin Ids
  /\ TTL \in Nat \ {0} /\ Lag \in Nat
  /\ MaxRetries \in Nat /\ MaxSteps \in Nat \ {0}
  /\ EventKeys \subseteq Nat
  /\ MaxEvents \in Nat /\ MaxCrashes \in Nat

VARIABLES
  log,       \* the events table, in seq order
  status,    \* runs.status
  attempts,  \* runs.attempts
  owner,     \* runs.lease_owner
  left,      \* runs.lease_until - now: negative once the lease has lapsed
  pc,        \* where each process is in run_step
  turns,     \* iterations of the loop left
  snap,      \* the local `snapshot`
  outcome,   \* the local `outcome`
  op,        \* the operator's cancel(): idle, checked (saw no terminal), raised
  lost,      \* history: runs of the retry budget that nobody recorded as failed
  crashes    \* crashes so far

row  == <<log, status, attempts>>
lease == <<owner, left>>
local == <<turns, snap, outcome>>
vars == <<row, lease, pc, local, op, lost, crashes>>

Terminal == {"completed", "failed", "cancelled"}
Statuses == {"pending", "running"} \cup Terminal
Kinds    == {"attempt", "step"} \cup Terminal
Verdicts == {"step", "done", "retryable", "fatal"}

\* An idempotency key, e.g. attempt:3 is Key("attempt", 3, 0).
Key(tag, a, n) == [tag |-> tag, a |-> a, n |-> n]
Keys == [tag : Kinds \cup {"event"}, a : Nat, n : Nat]

\* `seen` is history: how many events the writer's snapshot held.
Events == [kind : Kinds, key : Keys, seen : Nat]

Snapshots == [status : Statuses, attempts : Nat, events : Seq(Events)]
Outcomes == [verdict : Verdicts, key : Keys]

NoSnap == [status |-> "pending", attempts |-> 0, events |-> <<>>]
NoOutcome == [verdict |-> "done", key |-> Key("completed", 0, 0)]

StatusIsKind(kind) == kind   \* mutant of StatusFor

StatusFor(kind) == IF kind \in Terminal THEN kind ELSE "running"

\* _consecutive_attempts: the attempts since the last event of another kind.
Consecutive(events) ==
  Cardinality({i \in DOMAIN events :
                 \A j \in i..Len(events) : events[j].kind = "attempt"})

Goto(p, label) == pc' = [pc EXCEPT ![p] = label]

\* run_step returns, or its process dies: its locals are gone.
Forget(p) ==
  /\ Goto(p, "idle")
  /\ turns' = [turns EXCEPT ![p] = 0]
  /\ snap' = [snap EXCEPT ![p] = NoSnap]
  /\ outcome' = [outcome EXCEPT ![p] = NoOutcome]
-----------------------------------------------------------------------------
(* SqliteRunStore                                                          *)

KeyUsed(key) == \E i \in DOMAIN log : log[i].key = key

FencedOnExpiry(p, d) == status \notin Terminal /\ left + d >= 0   \* mutant of Fenced

\* The run accepts a write of p whose clock was read d ticks ago.
Fenced(p, d) ==
  /\ status \notin Terminal
  /\ owner = WorkerId[p]
  /\ left + d >= 0

Push(kind, key, seen) ==
  /\ log' = Append(log, [kind |-> kind, key |-> key, seen |-> seen])
  /\ status' = StatusFor(kind)
  /\ attempts' = attempts + (IF kind = "attempt" THEN 1 ELSE 0)

\* append_event(worker_id=p, require_lease=True) returns an event: the one
\* already stored under the key, whoever wrote it, or a new one.
Stored(p, kind, key) ==
  \/ KeyUsed(key) /\ UNCHANGED row
  \/ /\ ~KeyUsed(key)
     /\ \E d \in 0..Lag : Fenced(p, d)
     /\ Push(kind, key, Len(snap[p].events))

\* append_event raises LeaseLost or RuntimeError.
Refused(p, key) ==
  /\ ~KeyUsed(key)
  /\ \E d \in 0..Lag : ~Fenced(p, d)
  /\ UNCHANGED row

\* A lease granted or extended by a clock reading d ticks old.
Grant(id, d) == owner' = id /\ left' = TTL - d

\* heartbeat: ownership is checked, expiry is not.
Beat(p) ==
  /\ owner = WorkerId[p] /\ status \notin Terminal
  /\ \E d \in 0..Lag : Grant(owner, d)

BeatFails(p) ==
  /\ owner # WorkerId[p] \/ status \in Terminal
  /\ UNCHANGED lease
-----------------------------------------------------------------------------
(* DurableRunService.run_step                                              *)

\* claim succeeds on a free lease, on one's own, or on an expired one.
Claim(p) ==
  /\ pc[p] = "idle"
  /\ status \notin Terminal
  /\ \E d \in 0..Lag :
       /\ owner \in {None, WorkerId[p]} \/ left + d < 0
       /\ Grant(WorkerId[p], d)
  /\ Goto(p, "loop")
  /\ turns' = [turns EXCEPT ![p] = MaxSteps]
  /\ UNCHANGED <<row, snap, outcome, op, lost, crashes>>

LoopTop(p) ==
  /\ pc[p] = "loop"
  /\ \/ /\ turns[p] > 0 /\ Beat(p)
        /\ turns' = [turns EXCEPT ![p] = @ - 1]
        /\ Goto(p, "row")
     \/ /\ turns[p] > 0 /\ BeatFails(p)
        /\ Goto(p, "release") /\ UNCHANGED turns
     \/ /\ turns[p] = 0
        /\ Goto(p, "release") /\ UNCHANGED <<turns, lease>>
  /\ snap' = [snap EXCEPT ![p] = NoSnap]
  /\ outcome' = [outcome EXCEPT ![p] = NoOutcome]
  /\ UNCHANGED <<row, op, lost, crashes>>

ReadRow(p) ==
  /\ pc[p] = "row"
  /\ snap' = [snap EXCEPT ![p] =
                [status |-> status, attempts |-> attempts, events |-> <<>>]]
  /\ Goto(p, "events")
  /\ UNCHANGED <<row, lease, turns, outcome, op, lost, crashes>>

ReadEvents(p) ==
  /\ pc[p] = "events"
  /\ snap' = [snap EXCEPT ![p].events = log]
  /\ Goto(p, IF snap[p].status \in Terminal THEN "release" ELSE "step")
  /\ UNCHANGED <<row, lease, turns, outcome, op, lost, crashes>>

DefaultKey(p) == Key("step", snap[p].attempts, Len(snap[p].events))

\* The caller's step returns, or raises (a retryable error).
StepReturns(p, verdict, key) ==
  /\ pc[p] = "step"
  /\ outcome' = [outcome EXCEPT ![p] = [verdict |-> verdict, key |-> key]]
  /\ Goto(p, CASE verdict = "step" -> "record"
               [] verdict = "done" -> "complete"
               [] OTHER -> "attempt")
  /\ UNCHANGED <<row, lease, turns, snap, op, lost, crashes>>

AnyStep(p) ==
  \/ StepReturns(p, "done", Key("completed", 0, 0))
  \/ /\ Len(snap[p].events) <= MaxEvents
     /\ StepReturns(p, "retryable", Key("attempt", snap[p].attempts + 1, 0))
  \/ /\ Len(snap[p].events) < MaxEvents
     /\ \/ StepReturns(p, "fatal", Key("attempt", snap[p].attempts + 1, 0))
        \/ \E k \in {DefaultKey(p)} \cup {Key("event", e, 0) : e \in EventKeys} :
             StepReturns(p, "step", k)

RecordAttempt(p) ==
  /\ pc[p] = "attempt"
  /\ \/ Stored(p, "attempt", outcome[p].key) /\ Goto(p, "beat")
     \/ Refused(p, outcome[p].key) /\ Goto(p, "release")
  /\ UNCHANGED <<lease, local, op, lost, crashes>>

\* mutant of Exhausted: the attempt just recorded is not counted
ExhaustedLate(p) ==
  outcome[p].verdict = "fatal" \/ Consecutive(snap[p].events) > MaxRetries

Exhausted(p) ==
  \/ outcome[p].verdict = "fatal"
  \/ Consecutive(snap[p].events) + 1 > MaxRetries

\* Workers that have used up the budget and have yet to say so ...
Undecided == {p \in Procs : pc[p] \in {"beat", "fail"} /\ Exhausted(p)}

\* ... and one that leaves without having said so.
Leaves(p) == lost' = lost + (IF p \in Undecided THEN 1 ELSE 0)

AfterAttempt(p) ==
  /\ pc[p] = "beat"
  /\ \/ /\ Beat(p)
        /\ Goto(p, IF Exhausted(p) THEN "fail" ELSE "loop")
        /\ UNCHANGED lost
     \/ BeatFails(p) /\ Goto(p, "release") /\ Leaves(p)
  /\ UNCHANGED <<row, local, op, crashes>>

RecordFailed(p) ==
  /\ pc[p] = "fail"
  /\ \/ Stored(p, "failed", Key("failed", 0, 0)) /\ UNCHANGED lost
     \/ Refused(p, Key("failed", 0, 0)) /\ Leaves(p)
  /\ Goto(p, "release")
  /\ UNCHANGED <<lease, local, op, crashes>>

CheckDone(p) ==
  /\ pc[p] = "complete"
  /\ Goto(p, IF status \in Terminal THEN "release" ELSE "commit")
  /\ UNCHANGED <<row, lease, local, op, lost, crashes>>

RecordCompleted(p) ==
  /\ pc[p] = "commit"
  /\ \/ Stored(p, "completed", outcome[p].key)
     \/ Refused(p, outcome[p].key)
  /\ Goto(p, "release")
  /\ UNCHANGED <<lease, local, op, lost, crashes>>

RecordStep(p) ==
  /\ pc[p] = "record"
  /\ \/ Stored(p, "step", outcome[p].key) /\ Goto(p, "stepped")
     \/ Refused(p, outcome[p].key) /\ Goto(p, "release")
  /\ UNCHANGED <<lease, local, op, lost, crashes>>

AfterStep(p) ==
  /\ pc[p] = "stepped"
  /\ \/ Beat(p) /\ Goto(p, "loop")
     \/ BeatFails(p) /\ Goto(p, "release")
  /\ UNCHANGED <<row, local, op, lost, crashes>>

Unlease == owner' = None /\ left' = 0

\* The finally clause of run_step; the lease is only dropped if still owned.
Release(p) ==
  /\ pc[p] = "release"
  /\ IF owner = WorkerId[p] THEN Unlease ELSE UNCHANGED lease
  /\ Forget(p)
  /\ UNCHANGED <<row, op, lost, crashes>>

\* The process dies: no finally clause, the lease stays until it lapses.
Crash(p) ==
  /\ pc[p] # "idle" /\ crashes < MaxCrashes
  /\ crashes' = crashes + 1
  /\ Leaves(p)
  /\ Forget(p)
  /\ UNCHANGED <<row, lease, op>>
-----------------------------------------------------------------------------
(* DurableRunService.cancel and recover, and time                          *)

CancelCheck ==
  /\ op \in {"idle", "raised"} /\ status \notin Terminal
  /\ op' = "checked"
  /\ UNCHANGED <<row, lease, pc, local, lost, crashes>>

\* mutant of CancelAppend: no second look at the status
CancelBlindly ==
  /\ op = "checked" /\ op' = "idle"
  /\ Push("cancelled", Key("cancelled", 0, 0), Len(log))
  /\ UNCHANGED <<lease, pc, local, lost, crashes>>

\* append_event without a fence; the only writer of the key "cancelled".
CancelAppend ==
  /\ op = "checked"
  /\ IF status \in Terminal
     THEN op' = "raised" /\ UNCHANGED row
     ELSE op' = "idle" /\ Push("cancelled", Key("cancelled", 0, 0), Len(log))
  /\ UNCHANGED <<lease, pc, local, lost, crashes>>

RecoverExpired ==
  /\ status \notin Terminal /\ owner # None
  /\ \E d \in 0..Lag : left + d < 0
  /\ Unlease
  /\ UNCHANGED <<row, pc, local, op, lost, crashes>>

\* Time passes.  Below -(Lag + 1) every clock reading finds the lease lapsed.
Tick ==
  /\ owner # None /\ left > -(Lag + 1)
  /\ left' = left - 1
  /\ UNCHANGED <<row, owner, pc, local, op, lost, crashes>>
-----------------------------------------------------------------------------
\* The store right after create().
Init ==
  /\ log = <<>> /\ status = "pending" /\ attempts = 0
  /\ owner = None /\ left = 0
  /\ pc = [p \in Procs |-> "idle"]
  /\ turns = [p \in Procs |-> 0]
  /\ snap = [p \in Procs |-> NoSnap]
  /\ outcome = [p \in Procs |-> NoOutcome]
  /\ op = "idle" /\ lost = 0 /\ crashes = 0

\* run_step apart from the caller's step.
Service(p) ==
  \/ Claim(p) \/ LoopTop(p) \/ ReadRow(p) \/ ReadEvents(p)
  \/ RecordAttempt(p) \/ AfterAttempt(p) \/ RecordFailed(p)
  \/ CheckDone(p) \/ RecordCompleted(p) \/ RecordStep(p) \/ AfterStep(p)
  \/ Release(p)

Environment == CancelCheck \/ CancelAppend \/ RecoverExpired \/ Tick

Next ==
  \/ \E p \in Procs : Service(p) \/ AnyStep(p) \/ Crash(p)
  \/ Environment

Spec == Init /\ [][Next]_vars
-----------------------------------------------------------------------------
TypeOK ==
  /\ log \in Seq(Events)
  /\ status \in Statuses
  /\ attempts \in Nat
  /\ owner \in Ids \cup {None}
  /\ left \in Int
  /\ pc \in [Procs -> {"idle", "loop", "row", "events", "step", "attempt",
                      "beat", "fail", "complete", "commit", "record",
                      "stepped", "release"}]
  /\ turns \in [Procs -> Nat]
  /\ snap \in [Procs -> Snapshots]
  /\ outcome \in [Procs -> Outcomes]
  /\ op \in {"idle", "checked", "raised"}
  /\ {lost, crashes} \subseteq Nat

\* The row is a fold of the log: status is that of the last event, and a
\* terminal event, of which there is at most one, is the last ("terminal
\* states are sticky").
TerminalSticky ==
  /\ status = (IF log = <<>> THEN "pending" ELSE StatusFor(log[Len(log)].kind))
  /\ \A i \in DOMAIN log : log[i].kind \in Terminal => i = Len(log)

\* More attempts in a row than max_retries are due to workers that recorded the
\* last attempt of the budget and then died, lost the lease or were refused
\* before they could record that the run has failed (run_step): one each.
RetryBudget == Consecutive(log) <= MaxRetries + lost + Cardinality(Undecided)

Deciding == {"step", "attempt", "complete", "commit", "record"}

\* A worker that still owns the lease of a live run holds a current snapshot
\* from the second read of snapshot() until it writes: the pair it read was
\* not torn, and nobody has written to the run since.
OwnerIsCurrent ==
  \A p \in Procs :
    pc[p] \in Deciding /\ owner = WorkerId[p] /\ status \notin Terminal =>
      log = snap[p].events /\ attempts = snap[p].attempts

\* What makes OwnerIsCurrent inductive: the same of the half-read snapshot and
\* of the moments between an attempt and its verdict ...
OwnerIsBetween ==
  \A p \in Procs :
    owner = WorkerId[p] /\ status \notin Terminal =>
      /\ pc[p] = "events" => attempts = snap[p].attempts
      /\ pc[p] \in {"beat", "fail"} =>
           /\ Len(log) = Len(snap[p].events) + 1
           /\ log[Len(log)].kind = "attempt"

\* ... and that the key of the next attempt is never taken.
KeysFollowLog ==
  /\ \A i \in DOMAIN log :
       /\ log[i].key.tag = "attempt" => log[i].key.a <= attempts
       /\ log[i].key.tag \in {"failed", "cancelled"} => log[i].kind = log[i].key.tag
  /\ \A p \in Procs :
       /\ pc[p] = "attempt" =>
            outcome[p].key = Key("attempt", snap[p].attempts + 1, 0)
       /\ pc[p] \in {"complete", "commit", "record"} =>
            outcome[p].key.tag \notin {"attempt", "failed", "cancelled"}

\* The inductive invariant of workers with distinct ids.
Inv == TerminalSticky /\ OwnerIsCurrent /\ OwnerIsBetween /\ KeysFollowLog

\* No two processes present the same worker id.
DistinctIds == \A p, q \in Procs : WorkerId[p] = WorkerId[q] => p = q

\* The service implements the log a run is promised to be: every write of a
\* worker is fenced on the lease, so each event is decided on exactly the
\* events before it.
Promise == INSTANCE RunLog
ImplementsRunLog == Promise!Spec

\* The log only grows, and nothing is added once it holds a terminal event.
AppendOnly ==
  [][/\ Len(log') \in {Len(log), Len(log) + 1}
     /\ \A i \in DOMAIN log : log'[i] = log[i]
     /\ log' # log => status \notin Terminal]_vars
=============================================================================
