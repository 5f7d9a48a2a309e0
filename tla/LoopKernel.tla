---------------------------- MODULE LoopKernel -----------------------------
(***************************************************************************)
(* The loop kernel of agentdescent/loop_kernel.py over the durable run     *)
(* service, which is RunLog here, and a lease: the write of the worker     *)
(* that has the lease lands, any other is refused.  One generation is      *)
(* step -> RSIController.observe -> apply or rollback -> decision log ->   *)
(* event, and a worker may be lost anywhere in between.                    *)
(*                                                                         *)
(* The controller (agentdescent/rsi_control.py) lives in memory only: each *)
(* durable step rebuilds it from the events with restore(), which is code  *)
(* of its own beside observe().                                            *)
(***************************************************************************)
EXTENDS Integers, Sequences, FiniteSets, SequencesExt

CONSTANTS
    Workers,
    Rewards,            \* what a session may score
    GateAnswers,        \* what a gate may object with: "reject", "defer", "rollback", "stop"
    Target, MaxCost,    \* config.target and config.max_cost
    Patience, MaxGenerations, MaxRetries,
    MaxFaults,          \* bound: callbacks that raise, workers that die or lose their lease
    None

ASSUME KernelAssumption ==
    /\ GateAnswers \subseteq {"reject", "defer", "rollback", "stop"}
    /\ Rewards \subseteq Nat /\ Target \in Nat
    /\ {MaxCost, Patience, MaxGenerations} \subseteq Nat \ {0}
    /\ {MaxRetries, MaxFaults} \subseteq Nat
    /\ None \notin Nat

VARIABLES
    log,        \* the run's events
    owner,      \* who has the lease
    pc,         \* worker -> where it is in run_step and _step
    snap,       \* worker -> the snapshot of its durable step
    hand,       \* worker -> the generation in its hands
    returned,   \* history: the calls of apply() and rollback() that have returned, <<generation, action>>
    audit,      \* generation -> the actions its rows in the decision log name
    again,      \* history: generations that came to the decision log a second time
    faults

vars == <<log, owner, pc, snap, hand, returned, audit, again, faults>>
effects == <<returned, audit, again>>

Generations == 0..(MaxGenerations - 1)
Callbacks == {"accept", "rollback"}     \* the actions that call apply() or rollback()

(***************************************************************************)
(* RSIController                                                           *)
(***************************************************************************)
NewController == [accepted |-> <<>>, best |-> None, stagnant |-> 0, cost |-> 0, count |-> 0,
                  stopped |-> FALSE]

PopBest(c) ==
    LET rest == IF c.accepted = <<>> THEN <<>> ELSE Front(c.accepted)
    IN  [c EXCEPT !.accepted = rest, !.best = IF rest = <<>> THEN None ELSE Last(rest),
                  !.stagnant = 0]

\* Bug: restore() takes the score back and leaves the count of rejections alone.
PopKeepingStagnation(c) == [PopBest(c) EXCEPT !.stagnant = c.stagnant]

RestoredRollback(c) == PopBest(c)

\* restore(): the recorded action, cost and stop flag.
Restored(c, e) ==
    LET done ==
          CASE e.action = "accept" -> [c EXCEPT !.accepted = Append(@, e.reward),
                                                !.best = e.reward, !.stagnant = 0]
            [] e.action = "reject" -> [c EXCEPT !.stagnant = @ + 1]
            [] e.action = "rollback" -> RestoredRollback(c)
            [] OTHER -> c
    IN  [done EXCEPT !.cost = @ + e.cost, !.count = @ + 1, !.stopped = e.stop]

\* What the thresholds say when no gate objects; min_gain is 0.
Threshold(c, reward) == IF c.best = None \/ reward > c.best THEN "accept" ELSE "reject"

\* Bug: a session that failed is judged by its score, which is 0.
VerdictsOnScore(c, obs) == GateAnswers \union {Threshold(c, obs.reward)}

\* What the risk limit and the gates, which may answer as they like, let observe() do.
Verdicts(c, obs) ==
    IF obs.error THEN {"stop"}
    ELSE GateAnswers \union {Threshold(c, obs.reward)}

Acted(c, action, reward) ==
    CASE action = "accept" -> [c EXCEPT !.accepted = Append(@, reward), !.best = reward,
                                        !.stagnant = 0]
      [] action = "reject" -> [c EXCEPT !.stagnant = @ + 1]
      [] action = "rollback" -> PopBest(c)
      [] OTHER -> c

\* target, budget, patience, max_sessions: a verdict that also ends the loop.
Ends(c, action, obs) ==
    \/ action = "stop"
    \/ action = "accept" /\ obs.reward >= Target
    \/ c.cost >= MaxCost
    \/ c.stagnant >= Patience
    \/ c.count >= MaxGenerations

\* observe(), once the verdict is known.
Observed(c, action, obs) ==
    LET acted == [Acted(c, action, obs.reward) EXCEPT !.cost = @ + obs.cost, !.count = @ + 1]
    IN  [acted EXCEPT !.stopped = Ends(acted, action, obs)]

(***************************************************************************)
(* The event log                                                           *)
(***************************************************************************)
Key(tag, n) == [tag |-> tag, n |-> n]

Blank == [reward |-> 0, cost |-> 0, action |-> "none", stop |-> FALSE, ctl |-> NewController]

Event(kind, key, seen, body) ==
    [kind |-> kind, key |-> key, seen |-> seen, reward |-> body.reward, cost |-> body.cost,
     action |-> body.action, stop |-> body.stop, ctl |-> body.ctl]

Controllers == [accepted : Seq(Rewards), best : Rewards \union {None}, stagnant : Nat, cost : Nat,
                count : Nat, stopped : BOOLEAN]
Actions == {"accept", "reject", "defer", "rollback", "stop", "none"}
ASSUME NoneIsNoAction == None \notin Actions

Kinds == {"attempt", "step", "completed", "failed", "cancelled"}
Logged == [kind : Kinds, key : [tag : Kinds, n : Nat], seen : Nat, reward : Nat, cost : Nat,
           action : Actions, stop : BOOLEAN, ctl : Controllers]

Promise == INSTANCE RunLog WITH Events <- Logged

KeyUsed(key) == \E i \in DOMAIN log : log[i].key = key

Closed == Promise!Closed

\* append_event: a key that is there already is as good as written; else the lease decides.
Stored(p, kind, key, body) ==
    IF KeyUsed(key) THEN UNCHANGED log
    ELSE owner = p /\ Promise!Record(Event(kind, key, Len(snap[p]), body))

\* LeaseLost, or the run is terminal.
Refused(p, key) ==
    /\ ~KeyUsed(key)
    /\ owner # p \/ Closed
    /\ UNCHANGED log

\* _replay(): the generations recorded among the events, restored one after the other.
Replay(events) ==
    LET after[n \in 0..Len(events)] ==
          IF n = 0 THEN NewController
          ELSE IF events[n].kind = "step" THEN Restored(after[n - 1], events[n])
          ELSE after[n - 1]
    IN  after[Len(events)]

Generation(events) == Cardinality({i \in DOMAIN events : events[i].kind = "step"})

Attempts(events) == Cardinality({i \in DOMAIN events : events[i].kind = "attempt"})

\* _consecutive_attempts()
Consecutive(events) ==
    Cardinality({i \in DOMAIN events : \A j \in i..Len(events) : events[j].kind = "attempt"})

(***************************************************************************)
(* One durable step of a worker                                            *)
(***************************************************************************)
At(p, from, to) == pc[p] = from /\ pc' = [pc EXCEPT ![p] = to]

Nothing == [gen |-> 0, reward |-> 0, cost |-> 0, action |-> "none", stop |-> FALSE, ctl |-> NewController]

\* What step() may return, another score each time a generation is run again, or an error.
Observations ==
    {[reward |-> r, cost |-> 1, error |-> FALSE] : r \in Rewards}
        \union {[reward |-> 0, cost |-> 0, error |-> TRUE]}

Finished(events) ==
    Replay(events).stopped \/ Generation(events) >= MaxGenerations

Faulty == faults < MaxFaults /\ faults' = faults + 1

\* claim, heartbeat and snapshot.  A lease that lapsed is taken from a worker still at work.
Starts(p, at) ==
    /\ At(p, "idle", at)
    /\ ~Closed
    /\ IF owner = None THEN UNCHANGED faults ELSE Faulty
    /\ owner' = p
    /\ snap' = [snap EXCEPT ![p] = log]

\* step() and observe().
Decide(p) ==
    /\ Starts(p, "effect")
    /\ ~Finished(log)
    /\ LET g == Generation(log)
           c == Replay(log)
       IN  \E obs \in Observations : \E action \in Verdicts(c, obs) :
              LET after == Observed(c, action, obs)
              IN  hand' = [hand EXCEPT ![p] =
                     [gen |-> g, reward |-> obs.reward, cost |-> obs.cost, action |-> action,
                      stop |-> after.stopped, ctl |-> after]]
    /\ UNCHANGED <<log, effects>>

Finishes(p) ==
    /\ Starts(p, "complete")
    /\ Finished(log)
    /\ UNCHANGED <<log, hand, effects>>

\* A callback or the decision log raises: the outcome is dropped, the durable step tried again.
Raises(p) ==
    /\ Faulty
    /\ pc' = [pc EXCEPT ![p] = "attempt"]
    /\ hand' = [hand EXCEPT ![p] = Nothing]

\* Bug: an apply() that raised is taken for done.
RaisesUnheard(p) ==
    /\ Faulty
    /\ pc' = [pc EXCEPT ![p] = "audit"]
    /\ UNCHANGED hand

ApplyRaises(p) == Raises(p)

\* apply() or rollback(), when the verdict asks for one.
Effect(p) ==
    /\ pc[p] = "effect"
    /\ \/ /\ At(p, "effect", "audit")
          /\ returned' = returned \union
                IF hand[p].action \in Callbacks THEN {<<hand[p].gen, hand[p].action>>} ELSE {}
          /\ UNCHANGED <<hand, faults>>
       \/ /\ hand[p].action \in Callbacks
          /\ ApplyRaises(p)
          /\ UNCHANGED returned
    /\ UNCHANGED <<log, owner, snap, audit, again>>

NotedAgain(p) == again' = again \union IF audit[hand[p].gen] = {} THEN {} ELSE {hand[p].gen}

\* DecisionLog.append refuses the second row of a generation, and the kernel goes on.
LooksForRow(p) ==
    /\ pc[p] = "audit"
    /\ \/ /\ At(p, "audit", IF audit[hand[p].gen] = {} THEN "write" ELSE "record")
          /\ NotedAgain(p)
          /\ UNCHANGED <<hand, faults>>
       \/ Raises(p) /\ UNCHANGED again
    /\ UNCHANGED <<log, owner, snap, returned, audit>>

\* Another process may have written a row of the generation since this one looked.
WritesRow(p) ==
    /\ pc[p] = "write"
    /\ audit' = [audit EXCEPT ![hand[p].gen] = @ \union {hand[p].action}]
    /\ NotedAgain(p)
    /\ \/ At(p, "write", "record") /\ UNCHANGED <<hand, faults>>
       \/ Raises(p)
    /\ UNCHANGED <<log, owner, snap, returned>>

\* Bug: the key does not say which generation.
OneKey(g) == Key("step", 0)

GenerationKey(g) == Key("step", g)

\* Landed or refused, the worker lets go of the lease and of what it knows, and looks again.
Back(p) ==
    /\ pc' = [pc EXCEPT ![p] = "idle"]
    /\ owner' = IF owner = p THEN None ELSE owner
    /\ snap' = [snap EXCEPT ![p] = <<>>]
    /\ hand' = [hand EXCEPT ![p] = Nothing]

RecordStep(p) ==
    /\ pc[p] = "record"
    /\ LET key == GenerationKey(hand[p].gen)
       IN  Stored(p, "step", key, hand[p]) \/ Refused(p, key)
    /\ Back(p)
    /\ UNCHANGED <<effects, faults>>

RecordAttempt(p) ==
    /\ pc[p] = "attempt"
    /\ LET key == Key("attempt", Attempts(snap[p]) + 1)
       IN  \/ /\ Stored(p, "attempt", key, Nothing)
              /\ IF Consecutive(snap[p]) + 1 > MaxRetries
                 THEN At(p, "attempt", "fail") /\ UNCHANGED <<owner, snap, hand>>
                 ELSE Back(p)
           \/ Refused(p, key) /\ Back(p)
    /\ UNCHANGED <<effects, faults>>

RecordFailed(p) ==
    /\ pc[p] = "fail"
    /\ LET key == Key("failed", 0)
       IN  Stored(p, "failed", key, Nothing) \/ Refused(p, key)
    /\ Back(p)
    /\ UNCHANGED <<effects, faults>>

RecordCompleted(p) ==
    /\ pc[p] = "complete"
    /\ LET key == Key("completed", 0)
       IN  Stored(p, "completed", key, Nothing) \/ Refused(p, key)
    /\ Back(p)
    /\ UNCHANGED <<effects, faults>>

\* The worker dies and its lease lapses, or a heartbeat makes it return.
Lost(p) ==
    /\ pc[p] # "idle"
    /\ Faulty
    /\ Back(p)
    /\ UNCHANGED <<log, effects>>

\* cancel(): atomic with respect to the log.
Cancel ==
    /\ Promise!Record(Event("cancelled", Key("cancelled", 0), Len(log), Nothing))
    /\ UNCHANGED <<owner, pc, snap, hand, effects, faults>>

Init ==
    /\ log = <<>> /\ owner = None
    /\ pc = [p \in Workers |-> "idle"]
    /\ snap = [p \in Workers |-> <<>>]
    /\ hand = [p \in Workers |-> Nothing]
    /\ returned = {}
    /\ audit = [g \in Generations |-> {}]
    /\ again = {}
    /\ faults = 0

Works(p) ==
    \/ Decide(p) \/ Finishes(p) \/ Effect(p) \/ LooksForRow(p) \/ WritesRow(p)
    \/ RecordStep(p) \/ RecordAttempt(p) \/ RecordFailed(p) \/ RecordCompleted(p)

Next == (\E p \in Workers : Works(p) \/ Lost(p)) \/ Cancel

\* Somebody calls run() again until the report is terminal, and callbacks return or raise.
Spec == Init /\ [][Next]_vars /\ WF_vars(\E p \in Workers : Works(p))

(***************************************************************************)
(* Properties                                                              *)
(***************************************************************************)
Places == {"idle", "effect", "audit", "write", "record", "attempt", "fail", "complete"}

Hands == [gen : Generations, reward : Nat, cost : Nat, action : Actions, stop : BOOLEAN,
          ctl : Controllers]

TypeOK ==
    /\ log \in Seq(Logged)
    /\ owner \in Workers \union {None}
    /\ pc \in [Workers -> Places]
    /\ snap \in [Workers -> Seq(Logged)]
    /\ hand \in [Workers -> Hands]
    /\ returned \subseteq Generations \X Callbacks
    /\ audit \in [Generations -> SUBSET Actions]
    /\ again \subseteq Generations
    /\ faults \in 0..MaxFaults

Recorded == {i \in DOMAIN log : log[i].kind = "step"}

\* A worker that replays the log has the controller of the worker that wrote it: restore() from
\* the recorded decision is observe() without the gates (restore, observe).
ReplayIsObserve ==
    \A i \in Recorded : Replay(SubSeq(log, 1, i)) = log[i].ctl

\* A generation that is recorded as accepted has been applied, one that is recorded as rolled back
\* has been rolled back, and either has its row in the decision log, which names the same verdict
\* unless the generation was decided more than once. A raise, a death or a stolen lease in between
\* means that the effects are repeated, never that they are skipped (_step, _record_decision).
EffectsBeforeRecord ==
    \A i \in Recorded :
        LET g == log[i].key.n
        IN  /\ log[i].action \in Callbacks => <<g, log[i].action>> \in returned
            /\ audit[g] # {}
            /\ g \notin again => audit[g] = {log[i].action}

\* The run ends, however its workers are lost, raise and get in each other's way (run, run_step).
LoopEnds == <>Closed
=============================================================================
