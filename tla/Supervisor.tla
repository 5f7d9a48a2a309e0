----------------------------- MODULE Supervisor -----------------------------
(***************************************************************************)
(* The process executor of agentdescent/supervisor.py: worker processes    *)
(* around a bounded task queue and an unbounded result queue, and the      *)
(* supervisor's loop (map_rollouts), which sends a task again, under the   *)
(* same lease, when its worker died or has been at it for too long.        *)
(*                                                                         *)
(* The clock is only read in _reclaim and compared with hang_timeout, so   *)
(* any lease in flight may be found overdue there.  A wedged worker is one *)
(* that never reports.                                                     *)
(***************************************************************************)
EXTENDS Naturals, FiniteSets, FiniteSetsExt, Sequences, SequencesExt

CONSTANTS
    Wids,           \* worker slots, 0..max_workers - 1
    Leases,         \* lease ids of every RolloutSpec
    Batches,        \* the specs of each call of map_rollouts
    PerWorker,      \* tasks on the queue per worker (2)
    MaxAgain,       \* how often a lease is sent again (2)
    MaxRestarts,
    MaxDeaths,      \* bound: how many processes die
    MaxBacklog,     \* bound: unread messages, unless the supervisor is waiting in put()
    None

ASSUME SupervisorAssumption ==
    /\ IsFiniteSet(Wids) /\ Wids # {}
    /\ Batches \in Seq(Seq(Leases)) /\ \A i \in DOMAIN Batches : IsInjective(Batches[i])
    /\ {MaxAgain, MaxRestarts, MaxDeaths} \subseteq Nat /\ {PerWorker, MaxBacklog} \subseteq Nat \ {0}
    /\ None \notin Wids \union Leases

\* A lease id is a fresh uuid.
ASSUME DistinctLeases ==
    \A i, j \in DOMAIN Batches : i # j => Range(Batches[i]) \intersect Range(Batches[j]) = {}

Stop == "stop"
Room == PerWorker * Cardinality(Wids)

VARIABLES
    worker,         \* wid -> [st, lease]: the process in that slot
    tasks,          \* the bounded queue
    results,        \* the unbounded one
    slots,          \* DOMAIN of _slots
    restarts,       \* _slots[wid].restarts
    call,           \* how many calls have begun
    pc,             \* where the supervisor is
    pending, inflight, owner, attempts, toSend,     \* locals of map_rollouts
    answers,        \* history: Results yielded per lease
    sent,           \* history: puts per lease, in this call
    deaths

procs  == <<worker, deaths>>
queues == <<tasks, results>>
pool   == <<slots, restarts>>
locals == <<pending, inflight, owner, attempts, toSend>>
past   == <<answers, sent>>
vars   == <<procs, queues, pool, call, pc, locals, past>>

Idle == [st |-> "idle", lease |-> None]
Dead == [st |-> "dead", lease |-> None]
Gone == [st |-> "gone", lease |-> None]

(***************************************************************************)
(* worker_main                                                             *)
(***************************************************************************)
Message(kind, w, l) == [kind |-> kind, wid |-> w, lease |-> l]

Take(w) ==
    /\ worker[w] = Idle
    /\ tasks # <<>>
    /\ Len(results) < MaxBacklog \/ Len(tasks) = Room
    /\ tasks' = Tail(tasks)
    /\ LET spec == Head(tasks)
       IN IF spec = Stop
          THEN /\ worker' = [worker EXCEPT ![w] = Gone]
               /\ results' = Append(results, Message("BYE", w, None))
          ELSE /\ worker' = [worker EXCEPT ![w] = [st |-> "running", lease |-> spec]]
               /\ results' = Append(results, Message("START", w, spec))
    /\ UNCHANGED <<deaths, pool, call, pc, locals, past>>

\* The rollout ends, or raises: FAILED is handled like DONE, but for what the Result says.
Report(w) ==
    /\ worker[w].st = "running"
    /\ worker' = [worker EXCEPT ![w] = Idle]
    /\ results' = Append(results, Message("DONE", w, worker[w].lease))
    /\ UNCHANGED <<deaths, tasks, pool, call, pc, locals, past>>

\* The messages of results with the numbers in kept, in the order they were in.
Subsequence(kept) ==
    {[i \in DOMAIN pos |-> results[pos[i]]] :
        pos \in {p \in SetToSeqs(kept) : \A i, j \in DOMAIN p : i < j => p[i] < p[j]}}

\* Killed inside the rollout; what its feeder thread has not yet written dies with it.
Dies(w) ==
    /\ worker[w].st = "running"
    /\ deaths < MaxDeaths
    /\ deaths' = deaths + 1
    /\ worker' = [worker EXCEPT ![w] = Dead]
    /\ \E written \in 0..Len(results) :
          results' \in Subsequence({i \in DOMAIN results : i <= written \/ results[i].wid # w})
    /\ UNCHANGED <<tasks, pool, call, pc, locals, past>>

(***************************************************************************)
(* map_rollouts                                                            *)
(***************************************************************************)
\* start(): the slots given up in an earlier call are filled again.
Call ==
    /\ pc = "idle"
    /\ call < Len(Batches)
    /\ call' = call + 1
    /\ slots' = Wids
    /\ restarts' = [w \in Wids |-> IF w \in slots THEN restarts[w] ELSE 0]
    /\ worker' = [w \in Wids |-> IF w \in slots THEN worker[w] ELSE Idle]
    /\ toSend' = Batches[call + 1]
    /\ pending' = Range(toSend')
    /\ pc' = "loop"
    /\ UNCHANGED <<deaths, queues, inflight, owner, attempts, past>>

\* while pending: the call is over, and its locals are gone.
Return ==
    /\ pc = "loop"
    /\ pending = {}
    /\ pc' = "idle"
    /\ inflight' = {} /\ toSend' = <<>>
    /\ owner' = [l \in Leases |-> None]
    /\ attempts' = [l \in Leases |-> 0]
    /\ sent' = [l \in Leases |-> 0]
    /\ UNCHANGED <<procs, queues, pool, call, pending, answers>>

Sends == toSend # <<>> /\ Cardinality(inflight) < Room

Waits == pc = "loop" /\ pending # {} /\ ~Sends

\* put() on the bounded queue waits for room.
Send ==
    /\ pc = "loop" /\ pending # {}
    /\ Sends
    /\ Len(tasks) < Room
    /\ LET l == Head(toSend)
       IN /\ tasks' = Append(tasks, l)
          /\ inflight' = inflight \union {l}
          /\ sent' = [sent EXCEPT ![l] = @ + 1]
    /\ toSend' = Tail(toSend)
    /\ UNCHANGED <<procs, results, pool, call, pc, pending, owner, attempts, answers>>

Started(m) ==
    /\ m.kind = "START"
    /\ owner' = [owner EXCEPT ![m.lease] = m.wid]
    /\ inflight' = inflight \union {m.lease}
    /\ UNCHANGED <<pending, answers>>

\* Bug: every answer is yielded, also one for a lease that was answered before.
YieldEach(m) == answers' = [answers EXCEPT ![m.lease] = @ + 1]

\* pending.pop(lease, None) is None: a duplicate, dropped.
Yield(m) ==
    answers' = IF m.lease \in pending THEN [answers EXCEPT ![m.lease] = @ + 1] ELSE answers

\* Bug: the answer of a worker that is not the lease's last owner settles nothing.
SettledByOwner(m) == IF owner[m.lease] = m.wid THEN pending \ {m.lease} ELSE pending

Settled(m) == pending \ {m.lease}

Finished(m) ==
    /\ m.kind = "DONE"
    /\ inflight' = inflight \ {m.lease}
    /\ pending' = Settled(m)
    /\ Yield(m)
    /\ UNCHANGED owner

Receive ==
    /\ Waits
    /\ results # <<>>
    /\ results' = Tail(results)
    /\ LET m == Head(results)
       IN \/ Started(m)
          \/ Finished(m)
          \/ m.kind = "BYE" /\ UNCHANGED <<owner, inflight, pending, answers>>
    /\ UNCHANGED <<procs, tasks, pool, call, pc, attempts, toSend, sent>>

NothingCame ==
    /\ Waits
    /\ results = <<>>
    /\ pc' = "reclaim"
    /\ UNCHANGED <<procs, queues, pool, call, locals, past>>

(***************************************************************************)
(* _reclaim                                                                *)
(***************************************************************************)
DeadSlots == {w \in slots : worker[w].st = "dead"}

\* Bug: only a death is noticed.
LostToDeath(overdue) == {l \in inflight : owner[l] \in DeadSlots}

Lost(overdue) == {l \in inflight : owner[l] \in DeadSlots} \union overdue

\* Bug: a lease is never given up.
NeverExhausted(l) == FALSE

Exhausted(l) == attempts[l] + 1 > MaxAgain

\* The dead slots that are given up, one after the other while more than one is left.
Dropped(ordered) ==
    LET worn(i) == restarts[ordered[i]] >= MaxRestarts
    IN {i \in DOMAIN ordered :
          worn(i) /\ Cardinality(slots) - Cardinality({j \in 1..(i - 1) : worn(j)}) > 1}

Respawn ==
    \E ordered \in SetToSeqs(DeadSlots) :
       LET gone == {ordered[i] : i \in Dropped(ordered)}
       IN /\ slots' = slots \ gone
          /\ restarts' = [w \in Wids |-> IF w \in DeadSlots \ gone THEN restarts[w] + 1
                                         ELSE restarts[w]]
          /\ worker' = [w \in Wids |-> CASE w \in gone -> Gone
                                         [] w \in DeadSlots \ gone -> Idle
                                         [] OTHER -> worker[w]]

Reclaim(overdue) ==
    /\ pc = "reclaim"
    /\ LET again   == Lost(overdue) \intersect pending
           givenUp == {l \in again : Exhausted(l)}
       IN /\ inflight' = inflight \ Lost(overdue)
          /\ attempts' = [l \in Leases |-> attempts[l] + (IF l \in again THEN 1 ELSE 0)]
          /\ pending' = pending \ givenUp
          /\ answers' = [l \in Leases |-> answers[l] + (IF l \in givenUp THEN 1 ELSE 0)]
          /\ \E resent \in SetToSeqs(again \ givenUp) : toSend' = toSend \o resent
    /\ Respawn
    /\ pc' = "loop"
    /\ UNCHANGED <<deaths, queues, call, owner, sent>>

(***************************************************************************)
(* shutdown                                                                *)
(***************************************************************************)
\* Bug: one stop for each slot, whether there is room for it or not.
StopForEach == Cardinality(slots)

\* put(_STOP, timeout=1.0) gives up on a full queue.
StopsPut == Min({Cardinality(slots), Room - Len(tasks)})

\* Drain the results, then ask the workers to stop.
Shutdown ==
    /\ pc = "idle"
    /\ call = Len(Batches)
    /\ pc' = "join"
    /\ results' = <<>>
    /\ tasks' = tasks \o [i \in 1..StopsPut |-> Stop]
    /\ UNCHANGED <<procs, pool, call, locals, past>>

\* Wait for the grace, then kill whoever is left.
Join ==
    /\ pc = "join"
    /\ pc' = "closed"
    /\ worker' = [w \in Wids |-> IF w \in slots THEN Gone ELSE worker[w]]
    /\ slots' = {}
    /\ UNCHANGED <<deaths, queues, restarts, call, locals, past>>

Init ==
    /\ worker = [w \in Wids |-> Gone]
    /\ tasks = <<>> /\ results = <<>>
    /\ slots = {} /\ restarts = [w \in Wids |-> 0]
    /\ call = 0 /\ pc = "idle"
    /\ pending = {} /\ inflight = {} /\ toSend = <<>>
    /\ owner = [l \in Leases |-> None] /\ attempts = [l \in Leases |-> 0]
    /\ answers = [l \in Leases |-> 0] /\ sent = [l \in Leases |-> 0]
    /\ deaths = 0

SupervisorStep ==
    \/ Call \/ Return \/ Send \/ Receive \/ NothingCame \/ Shutdown \/ Join
    \/ \E overdue \in SUBSET inflight : Reclaim(overdue)

\* Time: l is found to have been in flight for longer than hang_timeout.
FindsOverdue(l) == \E overdue \in SUBSET inflight : l \in overdue /\ Reclaim(overdue)

Closed == pc = "closed" /\ UNCHANGED vars

Next ==
    \/ SupervisorStep
    \/ \E w \in Wids : Take(w) \/ Report(w) \/ Dies(w)
    \/ Closed

\* The supervisor and an idle worker are scheduled; a rollout may never end; a lease that is still
\* in flight whenever _reclaim looks has been there for too long at last.
Spec ==
    /\ Init /\ [][Next]_vars
    /\ WF_vars(SupervisorStep)
    /\ \A w \in Wids : WF_vars(Take(w))
    /\ \A l \in Leases : SF_vars(FindsOverdue(l))

(***************************************************************************)
(* Properties                                                              *)
(***************************************************************************)
Msgs == [kind : {"START", "DONE"}, wid : Wids, lease : Leases]
          \union [kind : {"BYE"}, wid : Wids, lease : {None}]

TypeOK ==
    /\ worker \in [Wids -> [st : {"running"}, lease : Leases] \union {Idle, Dead, Gone}]
    /\ tasks \in Seq(Leases \union {Stop}) /\ Len(tasks) <= Room
    /\ results \in Seq(Msgs)
    /\ slots \subseteq Wids
    /\ restarts \in [Wids -> Nat]
    /\ call \in 0..Len(Batches)
    /\ pc \in {"idle", "loop", "reclaim", "join", "closed"}
    /\ {pending, inflight} \subseteq SUBSET Leases
    /\ owner \in [Leases -> Wids \union {None}]
    /\ attempts \in [Leases -> Nat]
    /\ toSend \in Seq(Leases)
    /\ answers \in [Leases -> Nat] /\ sent \in [Leases -> Nat]
    /\ deaths \in 0..MaxDeaths

\* Whatever dies, hangs or reports late, a lease without an answer is in flight or waiting to be
\* sent: the loop never forgets one (map_rollouts, _reclaim).
NothingStranded == pending \subseteq inflight \union Range(toSend)

\* A lease is answered once, although several workers may finish it: a late report, also one that
\* arrives during a later call, is dropped (map_rollouts).
AnsweredOnce == \A l \in Leases : answers[l] <= 1

\* A task that kills or wedges every worker it meets meets a bounded number of them: no poisonous
\* candidate is sent again for ever (_reclaim).
PoisonBounded == \A l \in Leases : sent[l] <= MaxAgain + 1

\* As long as some slot's process keeps coming back for a task, every call of map_rollouts returns
\* with an answer to each of its leases, however many others die or hang.
SomeoneReturns == []<>(\E w \in slots : worker[w] = Idle)

CallsReturn == SomeoneReturns => (pc = "loop" ~> pc = "idle" /\ pending = {})
=============================================================================
