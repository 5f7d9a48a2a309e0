---------------------------- MODULE AsyncEvolve ----------------------------
(***************************************************************************)
(* The barrier-free engine of agentdescent/async_evolve.py around one      *)
(* Aggregator: worker threads that propose against a snapshot and append   *)
(* cards to the intake, one merger thread that sweeps the intake through   *)
(* the staleness gate into the aggregator, optionally measuring candidates *)
(* on a pool (pipelined_gate), and the thread that started them, which     *)
(* stops, joins and publishes.                                             *)
(*                                                                         *)
(* epoch and commit_epoch are only compared with a worker's copy, so each  *)
(* is a flag per worker: the counter has moved since the copy was taken.   *)
(***************************************************************************)
EXTENDS Aggregator

CONSTANTS
    Workers,
    Primary,        \* eng.artifact_id
    AsyncRatio,
    Resync,         \* resync_on_commit
    Pipelined,      \* pipelined_gate
    StallPatience,
    MaxErrors,      \* max_worker_errors
    Budget,         \* "max_iters", "max_calls" or "max_tokens"
    MaxRollouts,    \* the rollout that exhausts Budget; 0 for no budget
    EarlyStops,     \* subset of {"target_reward", "patience"}
    Failing,        \* subset of {"rollout", "contract", "verify", "score"}: what may raise
    Reuse           \* bound: TRUE to propose again under the name of a card that is done with

ASSUME EngineAssumption ==
    /\ Primary \in Artifacts
    /\ {AsyncRatio, MaxRollouts} \subseteq Nat
    /\ {StallPatience, MaxErrors} \subseteq Nat \ {0}
    /\ {Resync, Pipelined, Reuse} \subseteq BOOLEAN
    /\ Budget \in {"max_iters", "max_calls", "max_tokens"}
    /\ Others = {}

VARIABLES
    wpc,            \* where each worker is in its loop
    base,           \* worker -> the versions of its snapshot
    forced,         \* worker -> epoch # local_epoch
    behind,         \* worker -> commit_epoch # local_commit
    tried,          \* worker -> the artifacts its rollout has been through
    failures,       \* worker -> consecutive failed rollouts, counted up to MaxErrors
    intake, headPub, stop, reason, died,
    rollouts,       \* counter[0], counted up to MaxRollouts
    anySuccess,     \* WorkerHealth.any_success
    mpc, mode,      \* where the merger is in its sweep, and in its life
    batch,          \* cards taken from the intake and not yet through the staleness gate
    sweep,          \* [cards, reports]: whether the sweep took cards, what it has reported
    gate,           \* gate_inflight: [cands, reports, st]
    scan,           \* _collect_gate's loop: [at, still]
    idle,           \* StallGuard._idle
    recorded,       \* history: the commits each artifact's rounds account for
    unrecorded,     \* history: the commits each artifact lost to a sweep that raised
    main, late      \* the starting thread, and whether max_seconds has passed

workers == <<wpc, base, forced, behind, tried, failures>>
shared  == <<intake, headPub, stop, reason, died, rollouts, anySuccess>>
books   == <<recorded, unrecorded>>
merger  == <<mpc, mode, batch, sweep, gate, scan, idle, books>>
mainly  == <<main, late>>
engine  == <<workers, shared, merger, mainly>>
vars    == <<aggVars, engine>>

\* Bug: every stop is treated like max_seconds.
NoWorkStop(r) == FALSE

WorkStop(r) == r \in {"max_iters", "max_calls"}
Gone == {"left", "retired"}
Alive == {w \in Workers : wpc[w] \notin Gone}

(***************************************************************************)
(* Workers                                                                 *)
(***************************************************************************)
Move(w, from, to) == wpc[w] = from /\ wpc' = [wpc EXCEPT ![w] = to]

Snapshot(w) ==
    /\ \/ Move(w, "start", "started")
       \/ Move(w, "refresh", "refreshed")
    /\ base' = [base EXCEPT ![w] = ver]
    /\ UNCHANGED <<aggVars, forced, behind, tried, failures, shared, merger, mainly>>

\* local_epoch and local_commit, read after the snapshot.
CatchUp(w) ==
    /\ \/ Move(w, "started", "top")
       \/ Move(w, "refreshed", "roll")
    /\ forced' = [forced EXCEPT ![w] = FALSE]
    /\ behind' = [behind EXCEPT ![w] = FALSE]
    /\ UNCHANGED <<aggVars, base, tried, failures, shared, merger, mainly>>

LoopTop(w) ==
    /\ Move(w, "top", IF stop THEN "left" ELSE "gate")
    /\ UNCHANGED <<aggVars, base, forced, behind, tried, failures, shared, merger, mainly>>

\* The wait for the intake ends when there is room, or when the run stops.
IntakeHasRoom == Cardinality(intake) <= AsyncRatio

PassGate(w) ==
    /\ stop \/ IntakeHasRoom
    /\ Move(w, "gate", "look")
    /\ UNCHANGED <<aggVars, base, forced, behind, tried, failures, shared, merger, mainly>>

MustRefresh(w) == headPub - base[w][Primary] > AsyncRatio \/ forced[w] \/ behind[w]

Look(w) ==
    /\ Move(w, "look", IF MustRefresh(w) THEN "refresh" ELSE "roll")
    /\ UNCHANGED <<aggVars, base, forced, behind, tried, failures, shared, merger, mainly>>

Fresh(c) == fate[c] = "unused" \/ (Reuse /\ fate[c] # "open")

\* One artifact of the rollout went unsolved and its proposal became a card.
Propose(w, a, c) ==
    /\ wpc[w] = "roll"
    /\ a \notin tried[w]
    /\ Fresh(c)
    /\ tried' = [tried EXCEPT ![w] = @ \union {a}]
    /\ card' = [card EXCEPT ![c] = [art |-> a, base |-> base[w][a]]]
    /\ fate' = [fate EXCEPT ![c] = "open"]
    /\ intake' = intake \union {c}
    /\ UNCHANGED <<ledger, buffer, waited, inFlight, policy, work, since>>
    /\ UNCHANGED <<wpc, base, forced, behind, failures, headPub, stop, reason, died, rollouts,
                   anySuccess, merger, mainly>>

Exhausted == MaxRollouts > 0 /\ rollouts + 1 >= MaxRollouts

\* A rollout ends well: it counts, and whoever is at the budget stops the run.
RolloutEnds(w) ==
    /\ Move(w, "roll", "top")
    /\ tried' = [tried EXCEPT ![w] = {}]
    /\ failures' = [failures EXCEPT ![w] = 0]
    /\ anySuccess' = TRUE
    /\ rollouts' = Min({rollouts + 1, MaxRollouts})
    /\ stop' = (stop \/ Exhausted)
    /\ reason' = IF Exhausted THEN Budget ELSE reason
    /\ UNCHANGED <<aggVars, base, forced, behind, intake, headPub, died, merger, mainly>>

\* The backend raises. A worker gives up only while no rollout of anyone has ever ended well.
GivesUp(w) == ~anySuccess /\ failures[w] + 1 >= MaxErrors

RolloutRaises(w) ==
    /\ "rollout" \in Failing
    /\ Move(w, "roll", IF GivesUp(w) THEN "retired" ELSE "top")
    /\ tried' = [tried EXCEPT ![w] = {}]
    /\ failures' = [failures EXCEPT ![w] = Min({@ + 1, MaxErrors})]
    /\ LET last == GivesUp(w) /\ \A v \in Workers \ {w} : wpc[v] = "retired"
       IN died' = (died \/ last) /\ stop' = (stop \/ last)
    /\ UNCHANGED <<aggVars, base, forced, behind, intake, headPub, reason, rollouts, anySuccess,
                   merger, mainly>>

\* A ContractError is the caller's bug: the run ends, and raises.
RolloutBreaks(w) ==
    /\ "contract" \in Failing
    /\ Move(w, "roll", "left")
    /\ died' = TRUE
    /\ stop' = TRUE
    /\ UNCHANGED <<aggVars, base, forced, behind, tried, failures, intake, headPub, reason,
                   rollouts, anySuccess, merger, mainly>>

WorkerProceeds(w) ==
    Snapshot(w) \/ CatchUp(w) \/ LoopTop(w) \/ PassGate(w) \/ Look(w)

ProposesSome(w) == \E a \in Artifacts, c \in Cards : Propose(w, a, c)

WorkerStep(w) ==
    WorkerProceeds(w) \/ ProposesSome(w) \/ RolloutEnds(w) \/ RolloutRaises(w) \/ RolloutBreaks(w)

(***************************************************************************)
(* The merger's loop                                                       *)
(***************************************************************************)
NewSweep(cards) == [cards |-> cards, reports |-> {}]

\* The artifacts whose commit the sweep has yet to record.
Pending == {a \in Artifacts : CommitOf(a) \in sweep.reports \union reports}

\* The sweep is left by an exception, and with it what it would have recorded.
Abandons(commits) ==
    /\ unrecorded' = [a \in Artifacts |-> unrecorded[a] + (IF a \in commits THEN 1 ELSE 0)]
    /\ sweep' = NewSweep(FALSE)
    /\ UNCHANGED recorded

Raises(commits) ==
    /\ mpc' = "error"
    /\ Abandons(commits)
    /\ UNCHANGED <<mode, batch, gate, scan, idle>>

\* Which stop owes the intake a full drain.
StopSeen ==
    /\ mpc = "top" /\ mode = "run" /\ stop
    /\ mode' = IF WorkStop(reason) THEN "drain" ELSE "last"
    /\ UNCHANGED <<aggVars, workers, shared, mpc, batch, sweep, gate, scan, idle, books, mainly>>

\* Bug: the drain is not bounded by max_seconds.
DrainWaits == Alive = {}

DrainOver == Alive = {} \/ late

DrainEnds ==
    /\ mpc = "top" /\ mode = "drain"
    /\ DrainOver
    /\ mode' = "last"
    /\ UNCHANGED <<aggVars, workers, shared, mpc, batch, sweep, gate, scan, idle, books, mainly>>

Sweeping == \/ mode = "run" /\ ~stop
            \/ mode = "drain" /\ ~DrainOver
            \/ mode = "last"

Measured == \E i \in 1..Len(gate) : gate[i].st # "running"

\* _drain_and_merge
TakeIntake ==
    /\ mpc = "top" /\ Sweeping
    /\ intake # {} \/ Measured
    /\ batch' = intake
    /\ intake' = {}
    /\ sweep' = NewSweep(intake # {})
    /\ mpc' = "gate"
    /\ UNCHANGED <<aggVars, workers, headPub, stop, reason, died, rollouts, anySuccess, mode,
                   gate, scan, idle, books, mainly>>

\* The last sweep may find nothing to do; so do others, which then just poll again.
NothingLeft ==
    /\ mpc = "top" /\ mode = "last"
    /\ intake = {} /\ ~Measured
    /\ mode' = "finish"
    /\ mpc' = "collect"
    /\ sweep' = NewSweep(FALSE)
    /\ scan' = [at |-> 1, still |-> <<>>]
    /\ UNCHANGED <<aggVars, workers, shared, batch, gate, idle, books, mainly>>

\* The staleness gate: what survives is ingested, rebased on the head, the rest is dropped.
Forward(cs, dropped) ==
    /\ card' = [c \in Cards |-> IF c \in cs THEN [card[c] EXCEPT !.base = ver[card[c].art]]
                                ELSE card[c]]
    /\ buffer' = Ingested(cs)
    /\ fate' = Fated(dropped, "discarded")
    /\ batch' = {}
    /\ UNCHANGED <<ledger, waited, inFlight, policy, work, since>>

Survivors(cs, unproved) == cs \ (Acting(cs, "discard") \union unproved)

GateCards ==
    /\ mpc = "gate"
    /\ \E unproved \in SUBSET Acting(batch, "rebase") :
          Forward(Survivors(batch, unproved), batch \ Survivors(batch, unproved))
    /\ mpc' = IF Pipelined THEN "collect" ELSE "step"
    /\ scan' = [at |-> 1, still |-> <<>>]
    /\ UNCHANGED <<workers, shared, mode, sweep, gate, idle, books, mainly>>

\* A re-verification raises: the cards before it are through, those after it go with the frame.
GateRaises ==
    /\ mpc = "gate"
    /\ "verify" \in Failing
    /\ Acting(batch, "rebase") # {}
    /\ \E through \in SUBSET batch :
          /\ Acting(batch \ through, "rebase") # {}
          /\ \E unproved \in SUBSET Acting(through, "rebase") :
                Forward(Survivors(through, unproved), through \ Survivors(through, unproved))
    /\ mpc' = "error"
    /\ Abandons(Pending)
    /\ UNCHANGED <<workers, shared, mode, gate, scan, idle, mainly>>

(***************************************************************************)
(* _gated_step: the aggregator's step, or its phases around the pool       *)
(***************************************************************************)
\* Bug: an artifact whose candidate is being measured may get a second one.
SkipNone == {}

SkipInFlight == IF Pipelined THEN inFlight ELSE {}

StepBegins ==
    /\ mpc = "step"
    /\ \/ BeginStep(SkipInFlight)
       \/ \E a \in Artifacts : Prepare(a)
       \/ Prepared
    /\ UNCHANGED engine

\* begin_step raises: what _collect_gate committed in this sweep goes with it.
PrepareFails ==
    /\ mpc = "step"
    /\ \E a \in Artifacts : PrepareRaises(a)
    /\ Raises(Pending)
    /\ UNCHANGED <<workers, shared, mainly>>

StepMeasures ==
    /\ mpc = "step" /\ ~Pipelined
    /\ \/ Measure /\ UNCHANGED merger
       \/ MeasureRaises /\ Raises(Pending)
    /\ UNCHANGED <<workers, shared, mainly>>

\* gate_pool.submit
Submit ==
    /\ mpc = "step" /\ Pipelined /\ phase = "prepared"
    /\ items # <<>>
    /\ gate' = Append(gate, [cands |-> items, reports |-> reports, st |-> "running"])
    /\ Unwinds
    /\ mpc' = "after"
    /\ UNCHANGED <<ledger, bufvars, inFlight, policy, fate, since>>
    /\ UNCHANGED <<workers, shared, mode, batch, sweep, scan, idle, books, mainly>>

NothingToScore ==
    /\ mpc = "step" /\ Pipelined /\ phase = "prepared"
    /\ items = <<>>
    /\ \/ reports # {} /\ phase' = "decide" /\ UNCHANGED <<todo, items, reports, mpc>>
       \/ reports = {} /\ Unwinds /\ mpc' = "after"
    /\ UNCHANGED <<ledger, bufvars, inFlight, policy, fate, since>>
    /\ UNCHANGED <<workers, shared, mode, batch, sweep, gate, scan, idle, books, mainly>>

\* finish_step, for the batch in hand
Finishes ==
    /\ mpc \in {"step", "collect"}
    /\ \/ Finishing /\ UNCHANGED merger
       \/ (DecideRaises \/ PromoteRaises) /\ Raises(Pending)
       \/ CommitRaises /\ Raises(Pending \union {InHand.art})
    /\ UNCHANGED <<workers, shared, mainly>>

Finished ==
    /\ mpc \in {"step", "collect"}
    /\ StepReturns
    /\ sweep' = [sweep EXCEPT !.reports = @ \union reports]
    /\ IF mpc = "step" THEN mpc' = "after" /\ UNCHANGED scan
                       ELSE scan' = [scan EXCEPT !.at = @ + 1] /\ UNCHANGED mpc
    /\ UNCHANGED <<workers, shared, mode, batch, gate, idle, books, mainly>>

\* The pool measures a batch, or fails to.
Scored(i) ==
    /\ gate[i].st = "running"
    /\ \E st \in {"measured"} \union (IF "measure" \in Faults THEN {"failed"} ELSE {}) :
          gate' = [gate EXCEPT ![i].st = st]
    /\ UNCHANGED <<aggVars, workers, shared, mpc, mode, batch, sweep, scan, idle, books, mainly>>

(***************************************************************************)
(* _collect_gate                                                           *)
(***************************************************************************)
AtBatch == mpc = "collect" /\ phase = "idle" /\ scan.at <= Len(gate)

SkipRunning ==
    /\ AtBatch
    /\ mode # "finish"
    /\ gate[scan.at].st = "running"
    /\ scan' = [at |-> scan.at + 1, still |-> Append(scan.still, scan.at)]
    /\ UNCHANGED <<aggVars, workers, shared, mpc, mode, batch, sweep, gate, idle, books, mainly>>

CollectMeasured ==
    /\ AtBatch
    /\ gate[scan.at].st = "measured"
    /\ phase' = "decide"
    /\ items' = gate[scan.at].cands
    /\ reports' = gate[scan.at].reports
    /\ UNCHANGED <<ledger, bufvars, inFlight, policy, todo, fate, since, engine>>

\* fut.result() raises: gate_inflight keeps every batch, those already finished included.
CollectRaises ==
    /\ AtBatch
    /\ gate[scan.at].st = "failed"
    /\ Raises(Pending)
    /\ UNCHANGED <<aggVars, workers, shared, mainly>>

\* Bug: gate_inflight is emptied.
NoneRunning == <<>>

\* gate_inflight[:] = still; a batch counts as running if it was when the loop passed it.
StillRunning == [i \in DOMAIN scan.still |-> gate[scan.still[i]]]

Collected ==
    /\ mpc = "collect" /\ phase = "idle"
    /\ scan.at > Len(gate)
    /\ gate' = StillRunning
    /\ mpc' = IF mode = "finish" THEN "after" ELSE "step"
    /\ UNCHANGED <<aggVars, workers, shared, mode, batch, sweep, scan, idle, books, mainly>>

(***************************************************************************)
(* The rest of _merge_batch, and _finish_pipeline                          *)
(***************************************************************************)
Returns == mpc' = IF mode = "finish" THEN "done" ELSE "top"

\* The mode a sweep leaves behind: the last one leads to the pipeline's end.
LeaveSweep ==
    IF mode = "last"
    THEN mode' = "finish" /\ mpc' = "collect" /\ scan' = [at |-> 1, still |-> <<>>]
    ELSE Returns /\ UNCHANGED <<mode, scan>>

\* Bugs: a sweep that only collected is idle; a sweep whose cards were all discarded is idle.
IdleWithoutCards   == ~sweep.cards
IdleWithoutReports == sweep.reports = {}

IdlePoll == sweep.reports = {} /\ ~sweep.cards

NothingToRecord ==
    /\ mpc = "after"
    /\ IdlePoll
    /\ LeaveSweep
    /\ sweep' = NewSweep(FALSE)
    /\ UNCHANGED <<aggVars, workers, shared, batch, gate, idle, books, mainly>>

PublishHead ==
    /\ mpc = "after"
    /\ ~IdlePoll
    /\ headPub' = ver[Primary]
    /\ mpc' = "score"
    /\ UNCHANGED <<aggVars, workers, intake, stop, reason, died, rollouts, anySuccess, mode, batch,
                   sweep, gate, scan, idle, books, mainly>>

Commits == {a \in Artifacts : CommitOf(a) \in sweep.reports}

\* Bug: patience is exceeded, not reached.
StallsLate == Commits = {} /\ idle + 1 > StallPatience

Stalls == Commits = {} /\ idle + 1 >= StallPatience

\* record_round, the stall guard, the two epochs and the early stops.
Record ==
    /\ mpc = "score"
    /\ recorded' = [a \in Artifacts |-> recorded[a] + (IF a \in Commits THEN 1 ELSE 0)]
    /\ IF mode = "finish"
       THEN UNCHANGED <<idle, forced, behind, stop, reason>>
       ELSE /\ idle' = IF Commits # {} \/ Stalls THEN 0 ELSE idle + 1
            /\ behind' = [w \in Workers |-> behind[w] \/ (Resync /\ Commits # {})]
            /\ forced' = [w \in Workers |-> forced[w] \/ Stalls]
            /\ \/ UNCHANGED <<stop, reason>>
               \/ stop' = TRUE /\ reason' \in EarlyStops
    /\ LeaveSweep
    /\ sweep' = NewSweep(FALSE)
    /\ UNCHANGED unrecorded
    /\ UNCHANGED <<aggVars, wpc, base, tried, failures, intake, headPub, died, rollouts,
                   anySuccess, batch, gate, mainly>>

ScoreRaises ==
    /\ mpc = "score"
    /\ "score" \in Failing
    /\ Raises(Pending)
    /\ UNCHANGED <<aggVars, workers, shared, mainly>>

\* The handler around the sweep: back to the loop, whatever the merger was doing; an error in
\* _finish_pipeline ends it.
Recover ==
    /\ mpc = "error"
    /\ mpc' = IF mode = "finish" THEN "done" ELSE "top"
    /\ mode' = IF mode = "finish" THEN "finish" ELSE "run"
    /\ UNCHANGED <<aggVars, workers, shared, batch, sweep, gate, scan, idle, books, mainly>>

\* A ContractError, from check_reports, record_round or whatever raised before: the merger ends,
\* with no drain and no last collection, and the run will raise.  In _finish_pipeline it is an
\* error like others.
Breaks ==
    /\ mpc \in {"after", "score", "error"}
    /\ "contract" \in Failing
    /\ mode # "finish"
    /\ mpc' = "done"
    /\ stop' = TRUE
    /\ died' = TRUE
    /\ Abandons(Pending)
    /\ UNCHANGED <<aggVars, workers, intake, headPub, reason, rollouts, anySuccess, mode, batch,
                   gate, scan, idle, mainly>>

MergerStep ==
    \/ StopSeen \/ DrainEnds \/ TakeIntake \/ NothingLeft \/ GateCards \/ GateRaises
    \/ StepBegins \/ PrepareFails \/ StepMeasures \/ Submit \/ NothingToScore \/ Finishes \/ Finished
    \/ SkipRunning \/ CollectMeasured \/ CollectRaises \/ Collected
    \/ NothingToRecord \/ PublishHead \/ Record \/ ScoreRaises \/ Recover \/ Breaks

PoolStep == \E i \in 1..Len(gate) : Scored(i)

(***************************************************************************)
(* The thread that started them                                            *)
(***************************************************************************)
Deadline ==
    /\ ~late
    /\ late' = TRUE
    /\ UNCHANGED <<aggVars, workers, shared, merger, main>>

MainStops ==
    /\ main = "waiting"
    /\ late \/ stop
    /\ main' = "joining"
    /\ stop' = TRUE
    /\ UNCHANGED <<aggVars, workers, intake, headPub, reason, died, rollouts, anySuccess, merger,
                   late>>

\* Everyone has ended, or the grace has run out: not before max_seconds on a work budget.
MainJoins ==
    /\ main = "joining"
    /\ \/ Alive = {} /\ mpc = "done"
       \/ WorkStop(reason) => late
    /\ main' = "joined"
    /\ UNCHANGED <<aggVars, workers, shared, merger, late>>

\* _publish_stable, unless the run died.
MainEnds ==
    /\ main = "joined"
    /\ main' = "ended"
    /\ LET known == IF died THEN {} ELSE seen \union DOMAIN survival
       IN /\ stable' = [a \in Artifacts |-> IF a \in known /\ promotedAt[a] # ver[a]
                                            THEN ver[a] ELSE stable[a]]
          /\ promotedAt' = [a \in Artifacts |-> IF a \in known THEN ver[a] ELSE promotedAt[a]]
    /\ UNCHANGED <<ver, content, bufvars, inFlight, seen, survival, work, fate, since>>
    /\ UNCHANGED <<workers, shared, merger, late>>

MainStep == MainStops \/ MainJoins \/ MainEnds

Ended == main = "ended" /\ mpc = "done" /\ Alive = {} /\ UNCHANGED vars

Init ==
    /\ AggInit
    /\ wpc = [w \in Workers |-> "start"]
    /\ base = [w \in Workers |-> ver]
    /\ forced = [w \in Workers |-> FALSE]
    /\ behind = [w \in Workers |-> FALSE]
    /\ tried = [w \in Workers |-> {}]
    /\ failures = [w \in Workers |-> 0]
    /\ intake = {} /\ headPub = 0 /\ stop = FALSE /\ reason = "max_seconds" /\ died = FALSE
    /\ rollouts = 0 /\ anySuccess = FALSE
    /\ mpc = "top" /\ mode = "run" /\ batch = {} /\ sweep = NewSweep(FALSE)
    /\ gate = <<>> /\ scan = [at |-> 1, still |-> <<>>] /\ idle = 0
    /\ recorded = [a \in Artifacts |-> 0] /\ unrecorded = [a \in Artifacts |-> 0]
    /\ main = "waiting" /\ late = FALSE

Next ==
    \/ \E w \in Workers : WorkerStep(w)
    \/ MergerStep \/ PoolStep
    \/ Deadline \/ MainStep
    \/ Ended

Spec == Init /\ [][Next]_vars

\* Every thread is scheduled, a measurement ends, time passes.  A rollout may hang.
FairSpec ==
    /\ Spec
    /\ WF_vars(MergerStep) /\ WF_vars(MainStep) /\ WF_vars(Deadline) /\ WF_vars(PoolStep)
    /\ \A w \in Workers : WF_vars(WorkerProceeds(w))

\* The run before max_seconds: rollouts end, and a worker that keeps rolling out keeps finding
\* something to propose.
Running == MergerStep \/ PoolStep \/ \E w \in Workers : WorkerStep(w)

BusySpec ==
    /\ Init /\ [][Running]_vars
    /\ WF_vars(MergerStep) /\ WF_vars(PoolStep)
    /\ \A w \in Workers : /\ WF_vars(WorkerProceeds(w) \/ RolloutEnds(w))
                          /\ SF_vars(ProposesSome(w))

(***************************************************************************)
(* Properties                                                              *)
(***************************************************************************)
MPcs == {"top", "gate", "collect", "step", "after", "score", "error", "done"}
WPcs == {"start", "started", "top", "gate", "look", "refresh", "refreshed", "roll"} \union Gone
Batch == [cands : Seq(Candidate), reports : SUBSET Report, st : {"running", "measured", "failed"}]

TypeOK ==
    /\ AggTypeOK
    /\ wpc \in [Workers -> WPcs]
    /\ base \in [Workers -> [Artifacts -> Versions]]
    /\ {forced, behind} \subseteq [Workers -> BOOLEAN]
    /\ tried \in [Workers -> SUBSET Artifacts]
    /\ failures \in [Workers -> 0..MaxErrors]
    /\ {intake, batch} \subseteq SUBSET Cards
    /\ headPub \in Versions
    /\ {stop, died, anySuccess, late} \subseteq BOOLEAN
    /\ reason \in {"max_seconds", Budget} \union EarlyStops
    /\ rollouts \in 0..MaxRollouts
    /\ mpc \in MPcs
    /\ mode \in {"run", "drain", "last", "finish"}
    /\ sweep \in [cards : BOOLEAN, reports : SUBSET Report]
    /\ gate \in Seq(Batch)
    /\ scan \in [at : Nat \ {0}, still : Seq(Nat)]
    /\ idle \in 0..(StallPatience - 1)
    /\ recorded \in [Artifacts -> Versions] /\ unrecorded \in [Artifacts -> Nat]
    /\ main \in {"waiting", "joining", "joined", "ended"}

\* The cards somebody still holds.
Carried(cands) == UNION {i.cards : i \in Range(cands)}

Held == intake \union batch \union (UNION Range(buffer)) \union Carried(items)
          \union (UNION {Carried(b.cands) : b \in Range(gate)})

\* begin_step, a decision or the re-verification at the gate is left by an exception.
Thrown == mpc' = "error" /\ (phase # "idle" \/ mpc = "gate")

\* A card without an outcome is in the intake, in the merger's hands, in the buffer or out being
\* measured: no hand-over between the threads drops one, nor does a measurement that fails on the
\* pool; only what raises on the merger's thread may take the cards of its frame along.
NoEvidenceLost ==
    [][\A c \in Cards :
          fate'[c] = "open" /\ (fate[c] = "open" => c \in Held) => c \in Held' \/ Thrown]_vars

\* There is one writer, and an artifact whose candidate is being measured gets no second one: a
\* candidate commits against the head it was measured on, or finds itself in dev already, when its
\* batch is decided again (begin_step, skip_in_flight).
NoConflicts == phase = "commit" => CasHolds(InHand) \/ InHand.chosen \subseteq content[InHand.art]

\* Between sweeps every commit in the ledger is in one round of the history, or its own sweep was
\* left by an exception before the round was recorded (_merge_batch, _finish_pipeline).
HistoryAccountsForCommits ==
    mpc \in {"top", "error", "done"} =>
        \A a \in Artifacts : recorded[a] + unrecorded[a] = ver[a]

\* A diff is committed once, although a batch whose sweep raised is decided again: a candidate
\* that is committed carries nothing that dev already holds (_collect_gate, _commit_with_retry).
CommittedOnce ==
    [][\A a \in Artifacts : ver'[a] # ver[a] => InHand.chosen \intersect content[a] = {}]_ver

\* A run stopped by its work budget before max_seconds, which no caller's bug killed, leaves no card
\* in the intake: the merger drains until every rollout under way has handed in its evidence.
WorkBudgetDrains ==
    mpc = "done" /\ reason \in {"max_iters", "max_calls"} /\ ~late /\ ~died => intake = {}

\* After a stop the merger drains, decides what is being measured, and ends.
MergerEnds == stop ~> mpc = "done"

\* No worker is left proposing against a snapshot too old for the staleness policy: either its
\* lag budget or the stall guard makes it refresh.
StaleWorkersRefresh ==
    \A w \in Workers :
        ver[Primary] - base[w][Primary] > Alpha
            ~> (stop \/ ver[Primary] - base[w][Primary] <= Alpha)
=============================================================================
