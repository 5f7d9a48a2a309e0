---------------------------- MODULE AsyncProofs ----------------------------
(***************************************************************************)
(* Proofs about AsyncEvolve, for any workers, artifacts, cards and bounds, *)
(* with or without the pipelined gate, whatever raises: its types, the     *)
(* drain of a work budget, no conflicts, the history of commits, the       *)
(* evidence, and one outcome per card.  The drain and the one outcome      *)
(* hold under conditions, which those theorems state.                      *)
(***************************************************************************)
EXTENDS AsyncEvolve, AggregatorProofs

(***************************************************************************)
(* The drain of a work budget                                              *)
(***************************************************************************)
\* Of several stops the last writer's reason is reported, so with early stops the reason says
\* nothing of the drain.
BudgetOnly == EarlyStops = {}

\* A stop that owes the intake a drain, and was not overtaken by the clock or by a bug.
Draining == WorkStop(reason) /\ ~late /\ ~died

Drain ==
    /\ wpc \in [Workers -> WPcs]
    /\ stop \in BOOLEAN /\ died \in BOOLEAN
    /\ mode # "run" => stop
    /\ stop => late \/ died \/ reason = Budget
    /\ Draining /\ mode \in {"last", "finish"} => Alive = {}
    /\ Draining /\ mode = "last" /\ mpc # "top" => intake = {}
    /\ Draining /\ mode = "finish" => intake = {}
    /\ mpc = "done" => mode = "finish" \/ died

LEMMA MovesWorker ==
    ASSUME wpc \in [Workers -> WPcs], NEW w \in Workers, NEW from \in WPcs \ Gone, NEW to \in WPcs,
           Move(w, from, to)
    PROVE  wpc' \in [Workers -> WPcs] /\ Alive' \subseteq Alive /\ w \in Alive
BY DEF Move, Alive

LEMMA WorkersDrain ==
    ASSUME Drain, NEW w \in Workers, WorkerStep(w)
    PROVE  Drain'
<1> USE DEF WPcs, Gone, shared, merger, mainly
<1>1. CASE WorkerProceeds(w)
  <2>1. /\ UNCHANGED <<shared, merger, mainly>>
        /\ \E from \in WPcs \ Gone, to \in WPcs : Move(w, from, to)
    BY <1>1 DEF WorkerProceeds, Snapshot, CatchUp, LoopTop, PassGate, Look
  <2>2. wpc' \in [Workers -> WPcs] /\ Alive' \subseteq Alive
    BY <2>1, MovesWorker DEF Drain
  <2>3. QED
    BY <2>1, <2>2 DEF Drain, Draining, WorkStop
<1>2. CASE ProposesSome(w)
  <2>1. /\ w \in Alive /\ UNCHANGED <<wpc, stop, reason, died, merger, mainly>>
    BY <1>2 DEF ProposesSome, Propose, Alive
  <2>2. Alive' = Alive
    BY <2>1 DEF Alive
  <2>3. QED
    BY <2>1, <2>2 DEF Drain, Draining, WorkStop
<1>3. CASE RolloutEnds(w)
  <2>1. wpc' \in [Workers -> WPcs] /\ Alive' \subseteq Alive /\ w \in Alive
    BY <1>3, MovesWorker DEF RolloutEnds, Drain
  <2>2. /\ UNCHANGED <<intake, died, merger, mainly>>
        /\ \/ stop' = stop /\ reason' = reason
           \/ stop' = TRUE /\ reason' = Budget
    <3>1. CASE Exhausted
      BY <1>3, <3>1 DEF RolloutEnds
    <3>2. CASE ~Exhausted
      BY <1>3, <3>2 DEF RolloutEnds, Drain
    <3>3. QED
      BY <1>3, <3>1, <3>2 DEF RolloutEnds
  <2>3. mode \in {"last", "finish"} => late \/ died \/ ~WorkStop(reason')
    BY <2>1, <2>2 DEF Drain, Draining, WorkStop
  <2>4. CASE stop' = stop /\ reason' = reason
    BY <2>1, <2>2, <2>4 DEF Drain, Draining, WorkStop
  <2>5. CASE stop' = TRUE /\ reason' = Budget
    BY <2>1, <2>2, <2>3, <2>5 DEF Drain, Draining, WorkStop
  <2>6. QED
    BY <2>2, <2>4, <2>5
<1>4. CASE RolloutRaises(w)
  <2>1. PICK to \in WPcs : Move(w, "roll", to)
    BY <1>4 DEF RolloutRaises
  <2>2. wpc' \in [Workers -> WPcs] /\ Alive' \subseteq Alive /\ w \in Alive
    BY <2>1, MovesWorker DEF Drain
  <2>3. /\ UNCHANGED <<intake, reason, merger, mainly>>
        /\ \/ stop' = stop /\ died' = died
           \/ stop' = TRUE /\ died' = TRUE
    <3>1. PICK last \in BOOLEAN : died' = (died \/ last) /\ stop' = (stop \/ last)
      BY <1>4 DEF RolloutRaises
    <3>2. CASE last
      BY <1>4, <3>1, <3>2 DEF RolloutRaises
    <3>3. CASE ~last
      BY <1>4, <3>1, <3>3 DEF RolloutRaises, Drain
    <3>4. QED
      BY <3>2, <3>3
  <2>4. CASE stop' = stop /\ died' = died
    BY <2>2, <2>3, <2>4 DEF Drain, Draining, WorkStop
  <2>5. CASE stop' = TRUE /\ died' = TRUE
    BY <2>2, <2>3, <2>5 DEF Drain, Draining, WorkStop
  <2>6. QED
    BY <2>3, <2>4, <2>5
<1>5. CASE RolloutBreaks(w)
  <2>1. wpc' \in [Workers -> WPcs] /\ Alive' \subseteq Alive
    BY <1>5, MovesWorker DEF RolloutBreaks, Drain
  <2>2. UNCHANGED <<intake, reason, merger, mainly>> /\ died' = TRUE /\ stop' = TRUE
    BY <1>5 DEF RolloutBreaks
  <2>3. QED
    BY <2>1, <2>2 DEF Drain, Draining, WorkStop
<1>6. QED
  BY <1>1, <1>2, <1>3, <1>4, <1>5 DEF WorkerStep

\* The merger's steps inside a sweep.
LEMMA SweepDrains ==
    ASSUME Drain, UNCHANGED <<wpc, stop, reason, died, late, mode, intake>>,
           mpc \notin {"top", "done"} \/ mpc' = mpc, mpc' # "top" \/ mode # "last" \/ mpc' = mpc,
           mpc' = "done" => mpc = "done" \/ mode = "finish"
    PROVE  Drain'
BY DEF Drain, Draining, Alive, WorkStop

LEMMA MergerDrains ==
    ASSUME Drain, BudgetOnly, MergerStep
    PROVE  Drain'
<1> USE DEF workers, shared, merger, mainly
<1>1. CASE StopSeen
  <2>1. UNCHANGED <<wpc, stop, reason, died, late, mpc, intake>> /\ stop /\ mpc = "top"
    BY <1>1 DEF StopSeen
  <2>2. mode' = IF WorkStop(reason) THEN "drain" ELSE "last"
    BY <1>1 DEF StopSeen
  <2>3. QED
    BY <2>1, <2>2 DEF Drain, Draining, Alive, WorkStop
<1>2. CASE DrainEnds
  BY <1>2 DEF DrainEnds, DrainOver, Drain, Draining, Alive
<1>3. CASE TakeIntake
  BY <1>3 DEF TakeIntake, Sweeping, Drain, Draining, Alive
<1>4. CASE NothingLeft
  BY <1>4 DEF NothingLeft, Drain, Draining, Alive
<1>5. CASE GateCards \/ GateRaises
  <2>1. UNCHANGED <<wpc, stop, reason, died, late, mode, intake>>
        /\ mpc = "gate" /\ mpc' \in {"collect", "step", "error"}
    BY <1>5 DEF GateCards, GateRaises
  <2>2. QED
    BY <2>1, SweepDrains
<1>6. CASE StepBegins \/ PrepareFails \/ StepMeasures \/ Submit \/ NothingToScore
  <2>1. UNCHANGED <<wpc, stop, reason, died, late, mode, intake>>
        /\ mpc = "step" /\ mpc' \in {"step", "after", "error"}
    BY <1>6 DEF StepBegins, PrepareFails, StepMeasures, Submit, NothingToScore, Raises, engine
  <2>2. QED
    BY <2>1, SweepDrains
<1>7. CASE Finishes \/ Finished
  <2>1. UNCHANGED <<wpc, stop, reason, died, late, mode, intake>>
        /\ mpc \in {"step", "collect"} /\ mpc' \in {mpc, "after", "error"}
    BY <1>7 DEF Finishes, Finished, Raises
  <2>2. QED
    BY <2>1, SweepDrains
<1>8. CASE SkipRunning \/ CollectMeasured \/ CollectRaises \/ Collected
  <2>1. UNCHANGED <<wpc, stop, reason, died, late, mode, intake>>
        /\ mpc = "collect" /\ mpc' \in {mpc, "after", "error", "step"}
    BY <1>8 DEF SkipRunning, CollectMeasured, CollectRaises, Collected, AtBatch, Raises, engine
  <2>2. QED
    BY <2>1, SweepDrains
<1>9. CASE NothingToRecord \/ Record
  <2>1. /\ UNCHANGED <<wpc, died, late, intake>> /\ mpc \in {"after", "score"}
        /\ LeaveSweep
        /\ stop' = stop /\ reason' = reason
    BY <1>9 DEF NothingToRecord, Record, BudgetOnly
  <2>2. QED
    BY <2>1 DEF LeaveSweep, Returns, Drain, Draining, Alive
<1>10. CASE PublishHead \/ ScoreRaises
  <2>1. UNCHANGED <<wpc, stop, reason, died, late, mode, intake>>
        /\ mpc \in {"after", "score"} /\ mpc' \in {"score", "error"}
    BY <1>10 DEF PublishHead, ScoreRaises, Raises
  <2>2. QED
    BY <2>1, SweepDrains
<1>11. CASE Recover
  BY <1>11 DEF Recover, Drain, Draining, Alive
<1>12. CASE Breaks
  BY <1>12 DEF Breaks, Drain, Draining, Alive
<1>13. QED
  BY <1>1, <1>2, <1>3, <1>4, <1>5, <1>6, <1>7, <1>8, <1>9, <1>10, <1>11, <1>12 DEF MergerStep

LEMMA OthersDrain ==
    ASSUME Drain, PoolStep \/ Deadline \/ MainStep \/ UNCHANGED vars
    PROVE  Drain'
<1> USE DEF workers, shared, merger, mainly
<1>1. CASE PoolStep \/ UNCHANGED vars
  BY <1>1 DEF PoolStep, Scored, vars, engine, Drain, Draining, Alive
<1>2. CASE Deadline
  BY <1>2 DEF Deadline, Drain, Draining, Alive
<1>3. CASE MainStep
  <2>1. CASE MainStops
    BY <2>1 DEF MainStops, Drain, Draining, Alive
  <2>2. CASE MainJoins \/ MainEnds
    <3>1. UNCHANGED <<wpc, stop, reason, died, late, mode, mpc, intake>>
      BY <2>2 DEF MainJoins, MainEnds
    <3>2. QED
      BY <3>1 DEF Drain, Draining, Alive, WorkStop
  <2>3. QED
    BY <1>3, <2>1, <2>2 DEF MainStep
<1>4. QED
  BY <1>1, <1>2, <1>3

\* A run that its work budget stopped before max_seconds, and that nothing killed, ends with an
\* empty intake, whatever raises, whoever is still rolling out when the budget is reached, and
\* however often the merger fails and starts over.
THEOREM DrainsTheIntake == ASSUME BudgetOnly PROVE Spec => []WorkBudgetDrains
<1>1. Init => Drain
  BY DEF Init, Drain, Draining, WPcs, WorkStop
<1>2. Drain /\ [Next]_vars => Drain'
  BY WorkersDrain, MergerDrains, OthersDrain DEF Next, Ended
<1>3. Drain => WorkBudgetDrains
  BY DEF Drain, Draining, WorkBudgetDrains, WorkStop
<1>4. QED
  BY <1>1, <1>2, <1>3, PTL DEF Spec

(***************************************************************************)
(* Type correctness                                                        *)
(***************************************************************************)
WorkersOK ==
    /\ wpc \in [Workers -> WPcs]
    /\ base \in [Workers -> [Artifacts -> Versions]]
    /\ forced \in [Workers -> BOOLEAN] /\ behind \in [Workers -> BOOLEAN]
    /\ tried \in [Workers -> SUBSET Artifacts]
    /\ failures \in [Workers -> 0..MaxErrors]

SharedOK ==
    /\ intake \subseteq Cards
    /\ headPub \in Versions
    /\ stop \in BOOLEAN /\ died \in BOOLEAN /\ anySuccess \in BOOLEAN
    /\ reason \in {"max_seconds", Budget} \union EarlyStops
    /\ rollouts \in 0..MaxRollouts

MergerOK ==
    /\ mpc \in MPcs
    /\ mode \in {"run", "drain", "last", "finish"}
    /\ batch \subseteq Cards
    /\ sweep \in [cards : BOOLEAN, reports : SUBSET Report]
    /\ gate \in Seq(Batch)
    /\ scan \in [at : Nat \ {0}, still : Seq(Nat)]
    /\ idle \in 0..(StallPatience - 1)
    /\ recorded \in [Artifacts -> Nat] /\ unrecorded \in [Artifacts -> Nat]

MainOK ==
    /\ main \in {"waiting", "joining", "joined", "ended"}
    /\ late \in BOOLEAN

PlainReports(rs) == \A a \in Artifacts : CommitOf(a) \notin rs

\* What is on the pool is prepared and not decided, and was rebased less often than it may be.
GateOK ==
    \A i \in DOMAIN gate :
        /\ PlainReports(gate[i].reports)
        /\ \A k \in DOMAIN gate[i].cands : gate[i].cands[k].tries < CasAttempts

\* The aggregator is idle outside a step, and has nothing in hand then.
Phased ==
    /\ mpc \notin {"step", "collect"} => phase = "idle"
    /\ phase = "idle" => reports = {} /\ items = <<>>
    /\ phase \in {"prepare", "prepared"} => PlainReports(reports)

\* Rounds never account for a commit that is not in the ledger.
NeverAhead == \A a \in Artifacts : recorded[a] + (IF a \in Pending THEN 1 ELSE 0) <= ver[a]

Scanned == mpc = "collect" => \A n \in DOMAIN scan.still : scan.still[n] \in 1..Len(gate)

Proposed == \A c \in intake \union batch : card[c] \in [art : Artifacts, base : Versions]

AsyncTyped == Typed /\ WorkersOK /\ SharedOK /\ MergerOK /\ MainOK
                /\ GateOK /\ Phased /\ NeverAhead /\ Scanned /\ Proposed

LEMMA AsyncTypedIsTypeOK == AsyncTyped => TypeOK
<1> SUFFICES ASSUME AsyncTyped PROVE TypeOK
  OBVIOUS
<1>1. recorded \in [Artifacts -> Versions]
  <2>1. ASSUME NEW a \in Artifacts PROVE recorded[a] \in Versions
    <3>1. recorded[a] \in Nat /\ ver[a] \in 0..(MaxVersion + 1) /\ recorded[a] <= ver[a]
      <4>1. recorded[a] \in Nat
        BY DEF AsyncTyped, MergerOK
      <4>2. ver[a] \in 0..(MaxVersion + 1)
        BY DEF AsyncTyped, Typed, LedgerOK, Versions
      <4>3. recorded[a] + (IF a \in Pending THEN 1 ELSE 0) <= ver[a]
        BY DEF AsyncTyped, NeverAhead
      <4>4. QED
        BY <4>1, <4>2, <4>3, AggregatorAssumption
    <3>2. QED
      BY <3>1, AggregatorAssumption DEF Versions
  <2>2. QED
    BY <2>1 DEF AsyncTyped, MergerOK
<1>2. QED
  BY <1>1, TypedIsTypeOK DEF AsyncTyped, WorkersOK, SharedOK, MergerOK, MainOK, TypeOK

LEMMA InitAsyncTyped == Init => AsyncTyped
<1> SUFFICES ASSUME Init PROVE AsyncTyped
  OBVIOUS
<1>1. Typed
  BY InitTyped DEF Init
<1>2. WorkersOK
  BY EngineAssumption, <1>1 DEF Init, WorkersOK, WPcs, Typed, LedgerOK
<1>3. SharedOK /\ MainOK
  <2>1. 0 \in Versions
    BY AggregatorAssumption DEF Versions
  <2>2. 0 \in 0..MaxRollouts
    BY EngineAssumption
  <2>3. QED
    BY <2>1, <2>2 DEF Init, SharedOK, MainOK
<1>4. MergerOK
  BY EngineAssumption DEF Init, MergerOK, MPcs, NewSweep
<1>5. GateOK /\ Phased /\ Scanned /\ Proposed
  BY DEF Init, AggInit, GateOK, Phased, PlainReports, Scanned, Proposed
<1>6. NeverAhead
  BY DEF Init, AggInit, NeverAhead, Pending, NewSweep
<1>7. QED
  BY <1>1, <1>2, <1>3, <1>4, <1>5, <1>6 DEF AsyncTyped

\* The invariants of the merger, for steps that are not the merger's.
LEMMA MergerRests ==
    ASSUME AsyncTyped, UNCHANGED merger, UNCHANGED <<phase, items, reports, ver>>
    PROVE  MergerOK' /\ GateOK' /\ Phased' /\ NeverAhead' /\ Scanned'
BY DEF AsyncTyped, merger, books, MergerOK, GateOK, Phased, NeverAhead, Pending, Scanned

LEMMA ProposeTyped ==
    ASSUME AsyncTyped, NEW w \in Workers, NEW a \in Artifacts, NEW c \in Cards, Propose(w, a, c)
    PROVE  AsyncTyped'
<1> USE DEF AsyncTyped
<1>1. base[w][a] \in Versions
  BY DEF WorkersOK
<1>2. BufferOK'
  BY <1>1 DEF Propose, Typed, BufferOK
<1>3. HistoryOK'
  BY DEF Propose, Typed, HistoryOK, Fates
<1>4. LedgerOK' /\ PolicyOK' /\ WorkOK' /\ CommitBelowBound'
  BY DEF Propose, Typed, LedgerOK, PolicyOK, WorkOK, CommitBelowBound, InHand, ledger, policy, work
<1>5. MergerOK' /\ GateOK' /\ Phased' /\ NeverAhead' /\ Scanned'
  BY MergerRests DEF Propose, work, ledger
<1>6. WorkersOK' /\ SharedOK' /\ MainOK'
  BY DEF Propose, WorkersOK, SharedOK, MainOK, mainly
<1>7. Proposed'
  <2>1. /\ card' = [card EXCEPT ![c] = [art |-> a, base |-> base[w][a]]]
        /\ card \in [Cards -> [art : Artifacts, base : Versions] \union {None}]
        /\ intake' \union batch' = intake \union batch \union {c}
        /\ intake \union batch \subseteq Cards
    BY DEF Propose, merger, Typed, BufferOK, SharedOK, MergerOK
  <2>2. card'[c] \in [art : Artifacts, base : Versions]
    BY <1>1, <2>1
  <2>3. QED
    BY <2>1, <2>2 DEF Proposed
<1>8. QED
  BY <1>2, <1>3, <1>4, <1>5, <1>6, <1>7 DEF Typed

\* Steps of a worker that hand nothing over, and of the main thread.
LEMMA ThreadsTyped ==
    ASSUME AsyncTyped, UNCHANGED <<aggVars, merger, intake>>, WorkersOK', SharedOK', MainOK'
    PROVE  AsyncTyped'
<1>1. Typed'
  BY StutterTyped DEF AsyncTyped
<1>2. MergerOK' /\ GateOK' /\ Phased' /\ NeverAhead' /\ Scanned'
  BY MergerRests DEF aggVars, work, ledger
<1>3. Proposed'
  BY DEF AsyncTyped, Proposed, aggVars, bufvars, merger
<1>4. QED
  BY <1>1, <1>2, <1>3 DEF AsyncTyped

LEMMA ProceedsTyped ==
    ASSUME AsyncTyped, NEW w \in Workers, WorkerProceeds(w)
    PROVE  AsyncTyped'
<1>1. UNCHANGED <<aggVars, merger, shared, mainly>>
  BY DEF WorkerProceeds, Snapshot, CatchUp, LoopTop, PassGate, Look
<1>2. WorkersOK'
  BY DEF WorkerProceeds, Snapshot, CatchUp, LoopTop, PassGate, Look, Move, AsyncTyped, WorkersOK,
         Typed, LedgerOK, WPcs, Gone
<1>3. SharedOK' /\ MainOK'
  BY <1>1 DEF AsyncTyped, SharedOK, MainOK, shared, mainly
<1>4. QED
  BY <1>1, <1>2, <1>3, ThreadsTyped DEF shared

\* Counters that stop at a bound.
LEMMA CountsUp ==
    ASSUME NEW bound \in Nat, NEW n \in 0..bound
    PROVE  Min({n + 1, bound}) \in 0..bound
<1>1. Min({n + 1, bound}) = IF n + 1 <= bound THEN n + 1 ELSE bound
  BY MinOfTwo
<1>2. QED
  BY <1>1

LEMMA RolloutTyped ==
    ASSUME AsyncTyped, NEW w \in Workers, RolloutEnds(w) \/ RolloutRaises(w) \/ RolloutBreaks(w)
    PROVE  AsyncTyped'
<1> USE DEF AsyncTyped
<1>1. UNCHANGED <<aggVars, merger, intake, mainly, base, forced, behind, headPub>>
  BY DEF RolloutEnds, RolloutRaises, RolloutBreaks
<1>2. wpc' \in [Workers -> WPcs] /\ tried' \in [Workers -> SUBSET Artifacts]
  BY DEF RolloutEnds, RolloutRaises, RolloutBreaks, Move, WorkersOK, WPcs, Gone
<1>3. failures' \in [Workers -> 0..MaxErrors]
  <2>1. 0 \in 0..MaxErrors /\ MaxErrors \in Nat /\ failures[w] \in 0..MaxErrors
    BY EngineAssumption DEF WorkersOK
  <2>2. Min({failures[w] + 1, MaxErrors}) \in 0..MaxErrors
    BY <2>1, CountsUp
  <2>3. QED
    BY <2>1, <2>2 DEF RolloutEnds, RolloutRaises, RolloutBreaks, WorkersOK
<1>4. rollouts' \in 0..MaxRollouts
  <2>1. Min({rollouts + 1, MaxRollouts}) \in 0..MaxRollouts
    BY EngineAssumption, CountsUp DEF SharedOK
  <2>2. QED
    BY <2>1 DEF RolloutEnds, RolloutRaises, RolloutBreaks, SharedOK
<1>5. /\ stop' \in BOOLEAN /\ died' \in BOOLEAN /\ anySuccess' \in BOOLEAN
      /\ reason' \in {"max_seconds", Budget} \union EarlyStops
  BY DEF RolloutEnds, RolloutRaises, RolloutBreaks, SharedOK
<1>6. WorkersOK' /\ SharedOK' /\ MainOK'
  BY <1>1, <1>2, <1>3, <1>4, <1>5 DEF WorkersOK, SharedOK, MainOK, mainly
<1>7. QED
  BY <1>1, <1>6, ThreadsTyped

LEMMA WorkerTyped ==
    ASSUME AsyncTyped, NEW w \in Workers, WorkerStep(w)
    PROVE  AsyncTyped'
BY ProposeTyped, ProceedsTyped, RolloutTyped DEF WorkerStep, ProposesSome

LEMMA MainTyped ==
    ASSUME AsyncTyped, Deadline \/ MainStops \/ MainJoins
    PROVE  AsyncTyped'
<1>1. UNCHANGED <<aggVars, merger, intake>>
  BY DEF Deadline, MainStops, MainJoins, shared
<1>2. WorkersOK' /\ SharedOK' /\ MainOK'
  BY DEF AsyncTyped, Deadline, MainStops, MainJoins, WorkersOK, SharedOK, MainOK, workers, shared
<1>3. QED
  BY <1>1, <1>2, ThreadsTyped

LEMMA MainEndsTyped ==
    ASSUME AsyncTyped, MainEnds
    PROVE  AsyncTyped'
<1> USE DEF AsyncTyped
<1>1. LedgerOK' /\ PolicyOK'
  BY DEF MainEnds, Typed, LedgerOK, PolicyOK
<1>2. BufferOK' /\ WorkOK' /\ HistoryOK' /\ CommitBelowBound'
  BY DEF MainEnds, Typed, BufferOK, WorkOK, HistoryOK, CommitBelowBound, InHand, bufvars, work
<1>3. MergerOK' /\ GateOK' /\ Phased' /\ NeverAhead' /\ Scanned'
  BY MergerRests DEF MainEnds, work
<1>4. WorkersOK' /\ SharedOK' /\ MainOK' /\ Proposed'
  BY DEF MainEnds, WorkersOK, SharedOK, MainOK, Proposed, workers, shared, merger, bufvars
<1>5. QED
  BY <1>1, <1>2, <1>3, <1>4 DEF Typed

LEMMA NothingPending ==
    ASSUME AsyncTyped, ver' = ver, recorded' = recorded, Pending' \subseteq Pending
    PROVE  NeverAhead'
<1> SUFFICES ASSUME NEW a \in Artifacts
             PROVE  recorded[a] + (IF a \in Pending' THEN 1 ELSE 0) <= ver[a]
  BY DEF NeverAhead
<1>1. recorded[a] \in Nat
  BY DEF AsyncTyped, MergerOK
<1>2. ver[a] \in 0..(MaxVersion + 1)
  BY DEF AsyncTyped, Typed, LedgerOK, Versions
<1>3. recorded[a] + (IF a \in Pending THEN 1 ELSE 0) <= ver[a]
  BY DEF AsyncTyped, NeverAhead
<1>4. QED
  BY <1>1, <1>2, <1>3, AggregatorAssumption

\* Steps of the aggregator: the engine's variables rest.
LEMMA InsideStep ==
    ASSUME AsyncTyped, Typed', Phased', NeverAhead', card' = card, mpc' = mpc,
           UNCHANGED <<workers, shared, mainly, mode, batch, sweep, gate, scan, idle, books>>
    PROVE  AsyncTyped'
<1> USE DEF AsyncTyped
<1>1. WorkersOK' /\ SharedOK' /\ MainOK' /\ Proposed'
  BY DEF WorkersOK, SharedOK, MainOK, Proposed, workers, shared, mainly
<1>2. MergerOK' /\ GateOK' /\ Scanned'
  BY DEF MergerOK, GateOK, Scanned, books
<1>3. QED
  BY <1>1, <1>2

LEMMA AbandonsTyped ==
    ASSUME MergerOK, NEW commits, Abandons(commits)
    PROVE  /\ sweep' \in [cards : BOOLEAN, reports : SUBSET Report] /\ sweep'.reports = {}
           /\ recorded' \in [Artifacts -> Nat] /\ unrecorded' \in [Artifacts -> Nat]
BY DEF Abandons, MergerOK, NewSweep

\* Whatever raises, the merger is back outside the step, with nothing in hand.
LEMMA RaisedTyped ==
    ASSUME AsyncTyped, Typed', NEW commits, Raises(commits), card' = card,
           UNCHANGED <<workers, shared, mainly>>, phase' = "idle", items' = <<>>, reports' = {},
           \A a \in Artifacts : ver[a] <= ver'[a]
    PROVE  AsyncTyped'
<1> USE DEF AsyncTyped
<1>1. /\ sweep' \in [cards : BOOLEAN, reports : SUBSET Report] /\ sweep'.reports = {}
      /\ recorded' = recorded /\ unrecorded' \in [Artifacts -> Nat]
  BY AbandonsTyped DEF Raises, Abandons
<1>2. mpc' = "error" /\ UNCHANGED <<mode, batch, gate, scan, idle>>
  BY DEF Raises
<1>3. WorkersOK' /\ SharedOK' /\ MainOK' /\ Proposed'
  BY <1>2 DEF WorkersOK, SharedOK, MainOK, Proposed, workers, shared, mainly
<1>4. MergerOK' /\ GateOK' /\ Scanned'
  BY <1>1, <1>2 DEF MergerOK, GateOK, Scanned, MPcs
<1>5. Phased'
  BY <1>2 DEF Phased
<1>6. ASSUME NEW a \in Artifacts
      PROVE  recorded'[a] + (IF a \in Pending' THEN 1 ELSE 0) <= ver'[a]
  <2>1. a \notin Pending'
    BY <1>1 DEF Pending
  <2>2. recorded[a] \in Nat /\ ver \in [Artifacts -> Versions] /\ ver' \in [Artifacts -> Versions]
    BY DEF MergerOK, Typed, LedgerOK
  <2>3. ver[a] \in Int /\ ver'[a] \in Int
    BY <2>2, AggregatorAssumption DEF Versions
  <2>4. recorded[a] + (IF a \in Pending THEN 1 ELSE 0) <= ver[a]
    BY DEF NeverAhead
  <2>5. recorded[a] <= ver[a]
    BY <2>2, <2>3, <2>4
  <2>6. QED
    BY <1>1, <2>1, <2>2, <2>3, <2>5
<1>7. QED
  BY <1>3, <1>4, <1>5, <1>6 DEF NeverAhead

\* dev only moves forward.
LEMMA Forwards ==
    ASSUME Typed, UNCHANGED ver \/ Land
    PROVE  \A a \in Artifacts : ver[a] <= ver'[a]
<1>1. \A a \in Artifacts : ver[a] \in Nat
  BY AggregatorAssumption DEF Typed, LedgerOK, Versions
<1>2. CASE UNCHANGED ver
  BY <1>1, <1>2
<1>3. CASE Land
  <2>1. ver' = [ver EXCEPT ![InHand.art] = @ + 1] /\ ver \in [Artifacts -> Versions]
    BY <1>3 DEF Land, Typed, LedgerOK
  <2>2. QED
    BY <1>1, <2>1
<1>4. QED
  BY <1>2, <1>3

LEMMA PrepareFailsTyped ==
    ASSUME AsyncTyped, PrepareFails
    PROVE  AsyncTyped'
<1>1. Typed'
  BY PrepareRaisesTyped DEF PrepareFails, AsyncTyped
<1>2. /\ card' = card /\ ver' = ver /\ phase' = "idle" /\ items' = <<>> /\ reports' = {}
      /\ UNCHANGED <<workers, shared, mainly>> /\ Raises(Pending)
  BY DEF PrepareFails, PrepareRaises, Unwinds, ledger
<1>3. QED
  BY <1>1, <1>2, Forwards, RaisedTyped DEF AsyncTyped

LEMMA StepBeginsTyped ==
    ASSUME AsyncTyped, StepBegins
    PROVE  AsyncTyped'
<1> USE DEF AsyncTyped
<1>1. Typed'
  BY BeginStepTyped, PrepareTyped, PhaseTyped DEF StepBegins
<1>2. UNCHANGED <<ver, card>> /\ phase' \in {"prepare", "prepared"} /\ mpc = "step"
  BY DEF StepBegins, BeginStep, Prepare, Prepared, ledger, bufvars
<1>3. PlainReports(reports') /\ Pending' \subseteq Pending
  <2>1. sweep' = sweep
    BY DEF StepBegins, engine, merger
  <2>2. CASE \E a \in Artifacts : Prepare(a)
    <3>1. PlainReports(reports)
      BY <2>2 DEF Prepare, Phased
    <3>2. reports' = reports \/ \E a \in Artifacts : reports' = reports \union {[art |-> a, outcome |-> "other"]}
      BY <2>2 DEF Prepare, Filed, PutForward
    <3>3. \A a, b \in Artifacts : CommitOf(b) # [art |-> a, outcome |-> "other"]
      BY DEF CommitOf
    <3>4. PlainReports(reports')
      BY <3>1, <3>2, <3>3 DEF PlainReports
    <3>5. QED
      BY <2>1, <3>4 DEF Pending, PlainReports
  <2>3. CASE BeginStep(SkipInFlight) \/ Prepared
    BY <2>1, <2>3 DEF BeginStep, Prepared, PlainReports, Pending, Phased
  <2>4. QED
    BY <2>2, <2>3 DEF StepBegins
<1>4. NeverAhead'
  BY <1>2, <1>3, NothingPending DEF StepBegins, engine, merger, books
<1>5. Phased'
  BY <1>2, <1>3 DEF Phased, StepBegins, engine, merger
<1>6. QED
  BY <1>1, <1>2, <1>4, <1>5, InsideStep DEF StepBegins, engine, merger

\* What ends or unwinds a step leaves the merger outside of it.
LEMMA UnwoundPhased ==
    ASSUME AsyncTyped, Unwinds
    PROVE  Phased' /\ (sweep' = sweep => Pending' \subseteq Pending)
BY DEF Unwinds, Phased, Pending

LEMMA StepMeasuresTyped ==
    ASSUME AsyncTyped, StepMeasures
    PROVE  AsyncTyped'
<1> USE DEF AsyncTyped
<1>1. Typed'
  BY PhaseTyped, RaisesTyped DEF StepMeasures
<1>2. UNCHANGED <<ver, card, workers, shared, mainly>> /\ mpc = "step"
  BY DEF StepMeasures, Measure, MeasureRaises, ledger, bufvars
<1>3. CASE Measure /\ UNCHANGED merger
  <2>0. phase' = "decide" /\ reports' = reports
        /\ UNCHANGED <<mpc, mode, batch, sweep, gate, scan, idle, books>>
    BY <1>3 DEF Measure, merger
  <2>1. Phased' /\ NeverAhead'
    BY <1>2, <2>0 DEF Phased, NeverAhead, Pending, books
  <2>2. QED
    BY <1>1, <1>2, <2>0, <2>1, InsideStep
<1>4. CASE MeasureRaises /\ Raises(Pending)
  <2>1. phase' = "idle" /\ items' = <<>> /\ reports' = {}
    BY <1>4 DEF MeasureRaises, Unwinds
  <2>2. QED
    BY <1>1, <1>2, <1>4, <2>1, Forwards, RaisedTyped
<1>5. QED
  BY <1>3, <1>4 DEF StepMeasures

\* A decision leaves a report, a commit one of its own kind.
LEMMA DecidedPending ==
    ASSUME AsyncTyped, NEW outcome \in {"committed", "oracle", "other"}, items # <<>>,
           Decided(outcome), sweep' = sweep
    PROVE  Pending' = IF outcome = "committed" THEN Pending \union {InHand.art} ELSE Pending
<1>1. InHand.art \in Artifacts
  BY HeadAndTail DEF AsyncTyped, Typed, Candidate
<1>2. reports' = reports \union {[art |-> InHand.art, outcome |-> outcome]}
  BY DEF Decided
<1>3. \A a \in Artifacts : CommitOf(a) = [art |-> InHand.art, outcome |-> outcome]
                             <=> outcome = "committed" /\ a = InHand.art
  BY DEF CommitOf
<1>4. QED
  BY <1>1, <1>2, <1>3 DEF Pending

LEMMA FinishRaisesTyped ==
    ASSUME AsyncTyped, NEW commits, Raises(commits), FinishRaises, UNCHANGED <<workers, shared, mainly>>
    PROVE  AsyncTyped'
<1>1. Typed'
  BY RaisesTyped, CommitRaisesTyped DEF FinishRaises, AsyncTyped
<1>2. /\ card' = card /\ phase' = "idle" /\ items' = <<>> /\ reports' = {}
      /\ UNCHANGED ver \/ Land
  BY DEF FinishRaises, DecideRaises, CommitRaises, PromoteRaises, LeavesDecision, Land, Unwinds,
         ledger, bufvars
<1>3. QED
  BY <1>1, <1>2, Forwards, RaisedTyped DEF AsyncTyped

LEMMA FinishesTyped ==
    ASSUME AsyncTyped, Finishes
    PROVE  AsyncTyped'
<1> USE DEF AsyncTyped
<1>1. CASE FinishRaises /\ \E commits : Raises(commits)
  BY <1>1, FinishRaisesTyped DEF Finishes
<1>2. CASE Finishing /\ UNCHANGED merger
  <2>a. Typed'
    BY <1>2, PhaseTyped, RaisesTyped, RejectTyped, CommitTyped, RebaseTyped, ObserveTyped, PromoteTyped
    DEF Finishing
  <2>b. /\ UNCHANGED <<workers, shared, mainly, mode, batch, sweep, gate, scan, idle, books, mpc>>
        /\ recorded' = recorded /\ mpc \in {"step", "collect"}
    BY <1>2 DEF Finishes, merger, books
  <2>c. card' = card
    BY <1>2 DEF Finishing, Reject, Accept, Commit, Land, Rebase, GiveUp, AllDecided, Observe, Promote,
                bufvars
  <2>1. mpc' = mpc /\ phase' \notin {"idle", "prepare", "prepared"}
    <3>1. phase' \in {"decide", "commit", "observe", "promote"}
      BY <1>2 DEF Finishing, Reject, Accept, Commit, Rebase, GiveUp, AllDecided, Observe, Promote,
                  Decided
    <3>2. QED
      BY <2>b, <3>1
  <2>2. Phased'
    BY <2>b, <2>1 DEF Phased
  <2>3. NeverAhead'
    <3>1. CASE Reject \/ GiveUp
      <4>1. PICK outcome \in {"oracle", "other"} : Decided(outcome)
        BY <3>1 DEF Reject, GiveUp
      <4>2. items # <<>> /\ ver' = ver
        BY <3>1 DEF Reject, GiveUp, ledger, Typed, CommitBelowBound
      <4>3. Pending' = Pending
        BY <2>b, <4>1, <4>2, DecidedPending
      <4>4. QED
        BY <2>b, <4>2, <4>3, NothingPending
    <3>2. CASE Commit
      <4>1. items # <<>> /\ InHand.art \in Artifacts
        BY <3>2, HeadAndTail DEF Commit, Land, Typed, CommitBelowBound, Candidate
      <4>2. Pending' = Pending \union {InHand.art}
        BY <2>b, <3>2, <4>1, DecidedPending DEF Commit
      <4>3. ver' = [ver EXCEPT ![InHand.art] = @ + 1]
        BY <3>2 DEF Commit, Land
      <4>4. ASSUME NEW a \in Artifacts
            PROVE  recorded[a] + (IF a \in Pending' THEN 1 ELSE 0) <= ver'[a]
        <5>1. recorded[a] \in Nat /\ ver \in [Artifacts -> Versions]
          BY DEF MergerOK, Typed, LedgerOK
        <5>2. ver[a] \in Int
          BY <5>1, AggregatorAssumption DEF Versions
        <5>3. recorded[a] + (IF a \in Pending THEN 1 ELSE 0) <= ver[a]
          BY DEF NeverAhead
        <5>4. CASE a = InHand.art
          BY <4>2, <4>3, <5>1, <5>2, <5>3, <5>4
        <5>5. CASE a # InHand.art
          BY <4>2, <4>3, <5>1, <5>2, <5>3, <5>5
        <5>6. QED
          BY <5>4, <5>5
      <4>5. QED
        BY <2>b, <4>4 DEF NeverAhead
    <3>3. CASE Accept \/ Rebase \/ AllDecided \/ Observe \/ \E a \in Artifacts : Promote(a)
      <4>1. ver' = ver /\ reports' = reports
        BY <3>3 DEF Accept, Rebase, AllDecided, Observe, Promote, ledger
      <4>2. Pending' = Pending
        BY <2>b, <4>1 DEF Pending
      <4>3. QED
        BY <2>b, <4>1, <4>2, NothingPending
    <3>4. QED
      BY <1>2, <3>1, <3>2, <3>3 DEF Finishing
  <2>4. QED
    BY <2>a, <2>b, <2>c, <2>2, <2>3, InsideStep
<1>3. QED
  BY <1>1, <1>2 DEF Finishes, FinishRaises

LEMMA SubmitTyped ==
    ASSUME AsyncTyped, Submit \/ NothingToScore
    PROVE  AsyncTyped'
<1> USE DEF AsyncTyped
<1>1. /\ UNCHANGED <<ledger, bufvars, inFlight, policy, fate, since, workers, shared, mainly, mode,
                     batch, sweep, scan, idle, books>>
      /\ mpc = "step" /\ phase = "prepared" /\ PlainReports(reports)
  BY DEF Submit, NothingToScore, Phased
<1>2. CASE Unwinds /\ mpc' = "after"
  <2>1. WorkOK' /\ CommitBelowBound'
    BY <1>2, UnwindsTyped
  <2>2. Typed'
    BY <1>1, <2>1 DEF Typed, LedgerOK, BufferOK, PolicyOK, HistoryOK, ledger, bufvars, policy
  <2>3. Phased' /\ NeverAhead'
    BY <1>1, <1>2, UnwoundPhased, NothingPending DEF ledger, books
  <2>4. gate' \in Seq(Batch) /\ GateOK'
    <3>1. CASE gate' = gate
      BY <3>1 DEF GateOK, MergerOK
    <3>2. CASE Submit
      <4>1. DEFINE b == [cands |-> items, reports |-> reports, st |-> "running"]
      <4>2. b \in Batch /\ PlainReports(b.reports) /\ \A k \in DOMAIN b.cands : b.cands[k].tries < CasAttempts
        BY <1>1 DEF Batch, Typed, WorkOK
      <4>3. gate' = Append(gate, b) /\ gate \in Seq(Batch)
        BY <3>2 DEF Submit, MergerOK
      <4> HIDE DEF b
      <4>4. /\ gate' \in Seq(Batch)
            /\ \A i \in DOMAIN gate' : gate'[i] = b \/ (i \in DOMAIN gate /\ gate'[i] = gate[i])
        <5>1. b \in Batch
          BY <4>2
        <5>2. QED
          BY <4>3, <5>1
      <4>5. QED
        BY <4>2, <4>4 DEF GateOK
    <3>3. QED
      BY <3>1, <3>2 DEF NothingToScore
  <2>5. WorkersOK' /\ SharedOK' /\ MainOK' /\ Proposed'
    BY <1>1 DEF WorkersOK, SharedOK, MainOK, Proposed, workers, shared, mainly, bufvars
  <2>6. MergerOK' /\ Scanned'
    BY <1>1, <1>2, <2>4 DEF MergerOK, Scanned, MPcs, books
  <2>7. QED
    BY <2>2, <2>3, <2>4, <2>5, <2>6
<1>3. CASE phase' = "decide" /\ UNCHANGED <<todo, items, reports, mpc, gate>>
  <2>1. Typed'
    BY <1>1, <1>3 DEF Typed, LedgerOK, BufferOK, PolicyOK, HistoryOK, WorkOK, CommitBelowBound,
                      Phases, ledger, bufvars, policy
  <2>2. Phased' /\ NeverAhead'
    BY <1>1, <1>3, NothingPending DEF Phased, Pending, ledger, books
  <2>3. QED
    BY <1>1, <1>3, <2>1, <2>2, InsideStep DEF bufvars
<1>4. QED
  BY <1>2, <1>3 DEF Submit, NothingToScore

LEMMA FinishedTyped ==
    ASSUME AsyncTyped, Finished
    PROVE  AsyncTyped'
<1> USE DEF AsyncTyped
<1>1. Typed'
  BY RaisesTyped DEF Finished
<1>2. UNCHANGED <<ledger, bufvars, workers, shared, mainly, mode, batch, gate, idle, books>>
  BY DEF Finished, StepReturns
<1>3. sweep' = [sweep EXCEPT !.reports = sweep.reports \union reports] /\ reports' = {}
  BY DEF Finished, StepReturns, Unwinds
<1>4. /\ sweep' \in [cards : BOOLEAN, reports : SUBSET Report]
      /\ sweep'.reports = sweep.reports \union reports
  BY <1>3 DEF MergerOK, Typed, WorkOK
<1>5. NeverAhead'
  BY <1>2, <1>3, <1>4, NothingPending DEF Pending, ledger, books
<1>6. /\ mpc' \in MPcs /\ scan' \in [at : Nat \ {0}, still : Seq(Nat)]
      /\ scan'.still = scan.still /\ (mpc' = "collect" => mpc = "collect")
  BY DEF Finished, MergerOK, MPcs
<1>7. MergerOK' /\ Scanned' /\ GateOK'
  BY <1>2, <1>4, <1>6 DEF MergerOK, Scanned, GateOK, books
<1>8. Phased'
  BY DEF Finished, StepReturns, Unwinds, Phased
<1>9. WorkersOK' /\ SharedOK' /\ MainOK' /\ Proposed'
  BY <1>2 DEF WorkersOK, SharedOK, MainOK, Proposed, workers, shared, mainly, bufvars
<1>10. QED
  BY <1>1, <1>5, <1>7, <1>8, <1>9

LEMMA Rescored ==
    ASSUME NEW b \in Batch, NEW st \in {"running", "measured", "failed"}
    PROVE  /\ [b EXCEPT !.st = st] \in Batch
           /\ [b EXCEPT !.st = st].cands = b.cands /\ [b EXCEPT !.st = st].reports = b.reports
BY DEF Batch

LEMMA ScoredTyped ==
    ASSUME AsyncTyped, NEW i \in 1..Len(gate), Scored(i)
    PROVE  AsyncTyped'
<1> USE DEF AsyncTyped
<1>1. PICK st \in {"measured", "failed"} : gate' = [gate EXCEPT ![i].st = st]
  BY DEF Scored
<1>2. gate \in Seq(Batch) /\ i \in DOMAIN gate
  BY DEF MergerOK
<1>3. /\ gate' \in Seq(Batch) /\ DOMAIN gate' = DOMAIN gate /\ Len(gate') = Len(gate)
      /\ \A j \in DOMAIN gate : gate'[j].cands = gate[j].cands /\ gate'[j].reports = gate[j].reports
  <2>1. gate[i] \in Batch
    BY <1>2
  <2>2. gate' = [gate EXCEPT ![i] = [gate[i] EXCEPT !.st = st]]
    BY <1>1
  <2> DEFINE b == [gate[i] EXCEPT !.st = st]
  <2>3. b \in Batch /\ b.cands = gate[i].cands /\ b.reports = gate[i].reports
    BY <2>1, Rescored
  <2>4. gate' = [gate EXCEPT ![i] = b]
    BY <2>2
  <2> HIDE DEF b
  <2>5. gate' \in Seq(Batch) /\ DOMAIN gate' = DOMAIN gate /\ Len(gate') = Len(gate)
    BY <1>2, <2>3, <2>4
  <2>6. \A j \in DOMAIN gate : gate'[j] = IF j = i THEN b ELSE gate[j]
    BY <1>2, <2>4
  <2>7. QED
    BY <2>3, <2>5, <2>6
<1>4. UNCHANGED <<aggVars, workers, shared, mpc, mode, batch, sweep, scan, idle, books, mainly>>
  BY DEF Scored
<1>5. Typed'
  BY <1>4, StutterTyped
<1>6. MergerOK' /\ GateOK' /\ Scanned'
  BY <1>3, <1>4 DEF MergerOK, GateOK, Scanned, books
<1>7. Phased' /\ NeverAhead' /\ Proposed'
  BY <1>4 DEF Phased, NeverAhead, Pending, Proposed, aggVars, work, ledger, bufvars, shared, books
<1>8. WorkersOK' /\ SharedOK' /\ MainOK'
  BY <1>4 DEF WorkersOK, SharedOK, MainOK, workers, shared, mainly
<1>9. QED
  BY <1>5, <1>6, <1>7, <1>8

LEMMA CollectTyped ==
    ASSUME AsyncTyped, SkipRunning \/ CollectMeasured \/ CollectRaises \/ Collected
    PROVE  AsyncTyped'
<1> USE DEF AsyncTyped
<1>1. CASE CollectMeasured
  <2> DEFINE b == gate[scan.at]
  <2>1. /\ UNCHANGED <<ledger, bufvars, inFlight, policy, todo, fate, since, engine>>
        /\ mpc = "collect" /\ phase = "idle" /\ phase' = "decide"
        /\ items' = b.cands /\ reports' = b.reports
    BY <1>1 DEF CollectMeasured, AtBatch
  <2>2. scan.at \in DOMAIN gate /\ b \in Batch
    <3>1. scan.at \in Nat \ {0} /\ scan.at <= Len(gate) /\ gate \in Seq(Batch)
      BY <1>1 DEF CollectMeasured, AtBatch, MergerOK
    <3>2. QED
      BY <3>1
  <2>3. /\ items' \in Seq(Candidate) /\ reports' \subseteq Report
        /\ \A k \in DOMAIN items' : items'[k].tries < CasAttempts
        /\ PlainReports(reports')
    BY <2>1, <2>2 DEF Batch, GateOK
  <2>4. Typed'
    BY <2>1, <2>3 DEF Typed, LedgerOK, BufferOK, PolicyOK, HistoryOK, WorkOK, CommitBelowBound,
                      Phases, ledger, bufvars, policy
  <2>5. Pending' \subseteq Pending
    BY <2>1, <2>3 DEF Pending, PlainReports, engine, merger
  <2>6. Phased' /\ NeverAhead'
    BY <2>1, <2>5, NothingPending DEF Phased, engine, merger, ledger, books
  <2>7. QED
    BY <2>1, <2>4, <2>6, InsideStep DEF engine, merger, bufvars
<1>2. CASE CollectRaises
  <2>1. UNCHANGED <<aggVars, workers, shared, mainly>> /\ phase = "idle" /\ Raises(Pending)
    BY <1>2 DEF CollectRaises, AtBatch
  <2>2. Typed'
    BY <2>1, StutterTyped
  <2>3. UNCHANGED <<card, ver>> /\ phase' = "idle" /\ items' = <<>> /\ reports' = {}
    BY <2>1 DEF Phased, aggVars, bufvars, work, ledger
  <2>4. QED
    BY <2>1, <2>2, <2>3, Forwards, RaisedTyped
<1>3. CASE SkipRunning \/ Collected
  <2>1. UNCHANGED <<aggVars, workers, shared, mainly, mode, batch, sweep, idle, books>>
    BY <1>3 DEF SkipRunning, Collected
  <2>2. Typed'
    BY <2>1, StutterTyped
  <2>3. WorkersOK' /\ SharedOK' /\ MainOK' /\ Proposed'
    BY <2>1 DEF WorkersOK, SharedOK, MainOK, Proposed, workers, shared, mainly, aggVars, bufvars
  <2>4. mpc = "collect" /\ mpc' \in {"collect", "step", "after"} /\ phase = "idle"
    BY <1>3 DEF SkipRunning, Collected, AtBatch
  <2>5. Phased' /\ NeverAhead'
    BY <2>1, <2>4 DEF Phased, NeverAhead, Pending, aggVars, work, ledger, books
  <2>6. scan.still \in Seq(Nat) /\ (\A n \in DOMAIN scan.still : scan.still[n] \in 1..Len(gate))
        /\ gate \in Seq(Batch) /\ scan.at \in Nat \ {0}
    BY <2>4 DEF MergerOK, Scanned
  <2>7. CASE SkipRunning
    <3>1. scan' = [at |-> scan.at + 1, still |-> Append(scan.still, scan.at)] /\ gate' = gate
          /\ scan.at <= Len(gate)
      BY <2>7 DEF SkipRunning, AtBatch
    <3>2. scan' \in [at : Nat \ {0}, still : Seq(Nat)]
      BY <2>6, <3>1
    <3>3. \A n \in DOMAIN scan'.still : scan'.still[n] \in 1..Len(gate)
      <4> DEFINE t == scan.still
                 x == scan.at
      <4>1. t \in Seq(Nat) /\ x \in Nat /\ x \in 1..Len(gate)
            /\ \A n \in DOMAIN t : t[n] \in 1..Len(gate)
        BY <2>6, <3>1
      <4>2. scan'.still = Append(t, x)
        BY <3>1
      <4> HIDE DEF t, x
      <4>3. \A n \in DOMAIN Append(t, x) :
               (n \in DOMAIN t /\ Append(t, x)[n] = t[n]) \/ Append(t, x)[n] = x
        BY <4>1
      <4>4. QED
        BY <4>1, <4>2, <4>3
    <3>4. MergerOK' /\ GateOK' /\ Scanned'
      BY <2>1, <2>4, <3>1, <3>2, <3>3 DEF MergerOK, GateOK, Scanned, MPcs, books
    <3>5. QED
      BY <2>2, <2>3, <2>5, <3>4
  <2>8. CASE Collected
    <3>1. gate' = StillRunning /\ mpc' # "collect" /\ scan' = scan
      BY <2>8 DEF Collected
    <3>2. /\ gate' \in Seq(Batch)
          /\ \A i \in DOMAIN gate' : \E j \in DOMAIN gate : gate'[i] = gate[j]
      <4>1. gate' = [n \in 1..Len(scan.still) |-> gate[scan.still[n]]]
        BY <2>6, <3>1 DEF StillRunning
      <4>2. \A n \in 1..Len(scan.still) : scan.still[n] \in DOMAIN gate
                                          /\ gate[scan.still[n]] \in Batch
        BY <2>6
      <4>3. Len(scan.still) \in Nat
        BY <2>6
      <4>4. QED
        BY <4>1, <4>2, <4>3
    <3>3. MergerOK' /\ GateOK' /\ Scanned'
      BY <2>1, <2>4, <3>1, <3>2 DEF MergerOK, GateOK, Scanned, MPcs, books
    <3>4. QED
      BY <2>2, <2>3, <2>5, <3>3
  <2>9. QED
    BY <1>3, <2>7, <2>8
<1>4. QED
  BY <1>1, <1>2, <1>3

\* The gate's cards are rebased on the head, or dropped.
LEMMA ForwardTyped ==
    ASSUME AsyncTyped, NEW cs \in SUBSET batch, NEW dropped, Forward(cs, dropped)
    PROVE  Typed' /\ (\A c \in intake : card'[c] \in [art : Artifacts, base : Versions])
<1> USE DEF AsyncTyped
<1>1. /\ card' = [c \in Cards |-> IF c \in cs THEN [card[c] EXCEPT !.base = ver[card[c].art]]
                                  ELSE card[c]]
      /\ UNCHANGED <<ledger, waited, inFlight, policy, work, since>>
  BY DEF Forward
<1>2. ASSUME NEW c \in cs
      PROVE  [card[c] EXCEPT !.base = ver[card[c].art]] \in [art : Artifacts, base : Versions]
  <2>1. card[c] \in [art : Artifacts, base : Versions]
    BY DEF Proposed
  <2>2. card[c].art \in Artifacts /\ ver[card[c].art] \in Versions
    BY <2>1 DEF Typed, LedgerOK
  <2>3. QED
    BY <2>1, <2>2
<1>3. /\ card' \in [Cards -> [art : Artifacts, base : Versions] \union {None}]
      /\ \A c \in intake : card'[c] \in [art : Artifacts, base : Versions]
  BY <1>1, <1>2 DEF Typed, BufferOK, Proposed, SharedOK
<1>4. buffer' \in [Artifacts -> SUBSET Cards]
  BY DEF Forward, Ingested, Typed, BufferOK, MergerOK
<1>5. fate' \in [Cards -> Fates]
  BY FatedTyped DEF Forward, Typed, Fates
<1>6. LedgerOK' /\ PolicyOK' /\ WorkOK' /\ CommitBelowBound'
  BY <1>1 DEF Typed, LedgerOK, PolicyOK, WorkOK, CommitBelowBound, InHand, ledger, policy, work
<1>7. BufferOK' /\ HistoryOK'
  BY <1>1, <1>3, <1>4, <1>5 DEF Typed, BufferOK, HistoryOK
<1>8. QED
  BY <1>3, <1>6, <1>7 DEF Typed

LEMMA GateTyped ==
    ASSUME AsyncTyped, GateCards \/ GateRaises
    PROVE  AsyncTyped'
<1> USE DEF AsyncTyped
<1>1. PICK cs \in SUBSET batch, dropped \in SUBSET batch : Forward(cs, dropped)
  BY DEF GateCards, GateRaises, Survivors
<1>2. Typed' /\ (\A c \in intake : card'[c] \in [art : Artifacts, base : Versions])
  BY <1>1, ForwardTyped
<1>3. /\ UNCHANGED <<ledger, work, workers, shared, mainly, mode, gate, idle, recorded>> /\ batch' = {}
      /\ sweep' \in [cards : BOOLEAN, reports : SUBSET Report] /\ sweep'.reports \subseteq sweep.reports
      /\ unrecorded' \in [Artifacts -> Nat]
  <2>1. CASE GateCards
    BY <1>1, <2>1 DEF GateCards, Forward, books, MergerOK
  <2>2. CASE GateRaises
    BY <1>1, <2>2, AbandonsTyped DEF GateRaises, Forward, Abandons
  <2>3. QED
    BY <2>1, <2>2
<1>4. mpc = "gate" /\ mpc' \in {"collect", "step", "error"}
  BY DEF GateCards, GateRaises
<1>5. Phased' /\ NeverAhead'
  <2>1. Pending' \subseteq Pending
    BY <1>3 DEF Pending, work
  <2>2. QED
    BY <1>3, <1>4, <2>1, NothingPending DEF Phased, work, ledger
<1>6. scan' \in [at : Nat \ {0}, still : Seq(Nat)] /\ (mpc' = "collect" => scan'.still = <<>>)
  <2>1. CASE GateCards
    <3>1. scan' = [at |-> 1, still |-> <<>>]
      BY <2>1 DEF GateCards
    <3>2. <<>> \in Seq(Nat)
      OBVIOUS
    <3>3. QED
      BY <3>1, <3>2
  <2>2. CASE GateRaises
    BY <2>2 DEF GateRaises, MergerOK
  <2>3. QED
    BY <2>1, <2>2
<1>7. MergerOK' /\ GateOK' /\ Scanned'
  BY <1>3, <1>4, <1>6 DEF MergerOK, GateOK, Scanned, MPcs
<1>8. WorkersOK' /\ SharedOK' /\ MainOK' /\ Proposed'
  BY <1>2, <1>3 DEF WorkersOK, SharedOK, MainOK, Proposed, workers, shared, mainly
<1>9. QED
  BY <1>2, <1>5, <1>7, <1>8

\* The merger's own bookkeeping, with the aggregator idle.
LEMMA BooksTyped ==
    ASSUME AsyncTyped, UNCHANGED <<aggVars, mainly>>, WorkersOK', SharedOK', MergerOK', gate' = gate,
           intake' \union batch' \subseteq intake \union batch, phase = "idle",
           mpc' # "collect" \/ scan'.still = <<>>, NeverAhead'
    PROVE  AsyncTyped'
<1> USE DEF AsyncTyped
<1>1. Typed'
  BY StutterTyped
<1>2. GateOK' /\ Phased' /\ Scanned'
  BY DEF GateOK, Phased, Scanned, aggVars, work
<1>3. Proposed' /\ MainOK'
  BY DEF Proposed, MainOK, aggVars, bufvars, mainly
<1>4. QED
  BY <1>1, <1>2, <1>3

\* Where a sweep leads, and the empty list of reports it leaves.
LEMMA LeavesTyped ==
    ASSUME AsyncTyped, LeaveSweep, sweep' = NewSweep(FALSE)
    PROVE  /\ mpc' \in MPcs /\ mode' \in {"run", "drain", "last", "finish"}
           /\ scan' \in [at : Nat \ {0}, still : Seq(Nat)]
           /\ mpc' # "collect" \/ scan'.still = <<>>
           /\ sweep' \in [cards : BOOLEAN, reports : SUBSET Report] /\ sweep'.reports = {}
<1>1. [at |-> 1, still |-> <<>>] \in [at : Nat \ {0}, still : Seq(Nat)]
  OBVIOUS
<1>2. QED
  <2>1. sweep' \in [cards : BOOLEAN, reports : SUBSET Report] /\ sweep'.reports = {}
    BY DEF NewSweep
  <2>2. CASE mode = "last"
    <3>1. mode' = "finish" /\ mpc' = "collect" /\ scan' = [at |-> 1, still |-> <<>>]
      BY <2>2 DEF LeaveSweep
    <3>2. scan' \in [at : Nat \ {0}, still : Seq(Nat)] /\ scan'.still = <<>>
      BY <1>1, <3>1
    <3>3. QED
      BY <2>1, <3>1, <3>2 DEF MPcs
  <2>3. CASE mode # "last"
    <3>1. mpc' \in {"top", "done"} /\ UNCHANGED <<mode, scan>>
      BY <2>3 DEF LeaveSweep, Returns
    <3>2. QED
      BY <2>1, <3>1 DEF AsyncTyped, MergerOK, MPcs
  <2>4. QED
    BY <2>2, <2>3

LEMMA BetweenSweepsTyped ==
    ASSUME AsyncTyped, StopSeen \/ DrainEnds \/ TakeIntake \/ NothingLeft \/ NothingToRecord
                         \/ PublishHead \/ Recover
    PROVE  AsyncTyped'
<1> USE DEF AsyncTyped
<1>1. /\ UNCHANGED <<aggVars, workers, mainly, gate, idle, books, stop, reason, died, rollouts, anySuccess>>
      /\ mpc \in {"top", "after", "error"}
  BY DEF StopSeen, DrainEnds, TakeIntake, NothingLeft, NothingToRecord, PublishHead,
         Recover, shared
<1>2. phase = "idle" /\ reports = {}
  BY <1>1 DEF Phased
<1>3. WorkersOK'
  BY <1>1 DEF WorkersOK, workers
<1>4. intake' \union batch' \subseteq intake \union batch /\ intake' \subseteq Cards /\ batch' \subseteq Cards
  BY DEF StopSeen, DrainEnds, TakeIntake, NothingLeft, NothingToRecord, PublishHead,
         Recover, shared, SharedOK, MergerOK
<1>5. SharedOK'
  <2>1. headPub' \in Versions
    BY EngineAssumption DEF StopSeen, DrainEnds, TakeIntake, NothingLeft, NothingToRecord, PublishHead, Recover, shared, SharedOK, Typed, LedgerOK
  <2>2. QED
    BY <1>1, <1>4, <2>1 DEF SharedOK
<1>6. /\ mpc' \in MPcs /\ mode' \in {"run", "drain", "last", "finish"}
      /\ scan' \in [at : Nat \ {0}, still : Seq(Nat)]
      /\ mpc' # "collect" \/ scan'.still = <<>>
      /\ sweep' \in [cards : BOOLEAN, reports : SUBSET Report]
      /\ sweep'.reports \subseteq sweep.reports
  <2>1. CASE NothingToRecord
    BY <2>1, LeavesTyped DEF NothingToRecord
  <2>2. CASE NothingLeft
    <3>1. scan' = [at |-> 1, still |-> <<>>] /\ <<>> \in Seq(Nat)
      BY <2>2 DEF NothingLeft
    <3>2. QED
      BY <2>2, <3>1 DEF NothingLeft, MPcs, NewSweep
  <2>3. CASE StopSeen \/ DrainEnds \/ TakeIntake \/ PublishHead \/ Recover
    <3>1. mpc' \in {"top", "gate", "score", "error", "done"} /\ scan' = scan
      BY <2>3 DEF StopSeen, DrainEnds, TakeIntake, PublishHead, Recover
    <3>2. mode' \in {"run", "drain", "last", "finish"}
      BY <2>3 DEF StopSeen, DrainEnds, TakeIntake, PublishHead, Recover, MergerOK
    <3>3. sweep' = sweep \/ \E cards \in BOOLEAN : sweep' = [cards |-> cards, reports |-> {}]
      BY <2>3 DEF NewSweep, StopSeen, DrainEnds, TakeIntake, PublishHead, Recover
    <3>4. sweep' \in [cards : BOOLEAN, reports : SUBSET Report] /\ sweep'.reports \subseteq sweep.reports
      BY <3>3 DEF MergerOK
    <3>5. QED
      BY <3>1, <3>2, <3>4 DEF MergerOK, MPcs
  <2>4. QED
    BY <2>1, <2>2, <2>3
<1>7. MergerOK'
  BY <1>1, <1>4, <1>6 DEF MergerOK, books
<1>8. NeverAhead'
  <2>1. Pending' \subseteq Pending
    BY <1>1, <1>2, <1>6 DEF Pending, aggVars, work
  <2>2. QED
    BY <1>1, <2>1, NothingPending DEF aggVars, ledger, books
<1>9. QED
  BY <1>1, <1>2, <1>3, <1>4, <1>5, <1>6, <1>7, <1>8, BooksTyped

LEMMA ScoreRaisesTyped ==
    ASSUME AsyncTyped, ScoreRaises
    PROVE  AsyncTyped'
<1> USE DEF AsyncTyped
<1>1. Typed'
  BY StutterTyped DEF ScoreRaises
<1>2. UNCHANGED <<card, ver>> /\ phase' = "idle" /\ items' = <<>> /\ reports' = {}
  BY DEF ScoreRaises, Phased, aggVars, bufvars, work, ledger
<1>3. QED
  BY <1>1, <1>2, Forwards, RaisedTyped DEF ScoreRaises

\* The merger's own ContractError.
LEMMA BreaksTyped ==
    ASSUME AsyncTyped, Breaks
    PROVE  AsyncTyped'
<1> USE DEF AsyncTyped
<1>1. /\ UNCHANGED <<aggVars, workers, intake, headPub, reason, rollouts, anySuccess, mode, batch, gate,
                     scan, idle, mainly, recorded>>
      /\ stop' = TRUE /\ died' = TRUE /\ mpc' = "done" /\ mpc # "step" /\ mpc # "collect"
      /\ sweep' \in [cards : BOOLEAN, reports : SUBSET Report] /\ sweep'.reports = {}
      /\ unrecorded' \in [Artifacts -> Nat]
  BY AbandonsTyped DEF Breaks, Abandons
<1>2. phase = "idle" /\ reports = {}
  BY <1>1 DEF Phased
<1>3. WorkersOK' /\ SharedOK' /\ MergerOK'
  BY <1>1 DEF WorkersOK, SharedOK, MergerOK, MPcs, workers
<1>4. NeverAhead'
  <2>1. Pending' \subseteq Pending
    BY <1>1, <1>2 DEF Pending, aggVars, work
  <2>2. QED
    BY <1>1, <2>1, NothingPending DEF aggVars, ledger
<1>5. QED
  BY <1>1, <1>2, <1>3, <1>4, BooksTyped

LEMMA RecordTyped ==
    ASSUME AsyncTyped, Record
    PROVE  AsyncTyped'
<1> USE DEF AsyncTyped
<1>1. /\ UNCHANGED <<aggVars, wpc, base, tried, failures, intake, headPub, died, rollouts, anySuccess,
                     batch, gate, mainly>>
      /\ mpc = "score" /\ LeaveSweep /\ sweep' = NewSweep(FALSE)
      /\ unrecorded' = unrecorded
  BY DEF Record
<1>2. phase = "idle" /\ reports = {}
  BY <1>1 DEF Phased
<1>3. forced' \in [Workers -> BOOLEAN] /\ behind' \in [Workers -> BOOLEAN]
  BY DEF Record, WorkersOK
<1>4. stop' \in BOOLEAN /\ reason' \in {"max_seconds", Budget} \union EarlyStops
  BY DEF Record, SharedOK
<1>5. idle' \in 0..(StallPatience - 1)
  <2>1. StallPatience \in Nat \ {0} /\ idle \in 0..(StallPatience - 1)
    BY EngineAssumption DEF MergerOK
  <2>2. idle' \in {idle, 0} \/ (idle' = idle + 1 /\ ~Stalls /\ Commits = {})
    BY DEF Record
  <2>3. QED
    BY <2>1, <2>2 DEF Stalls
<1>6. recorded' = [a \in Artifacts |-> recorded[a] + (IF a \in Commits THEN 1 ELSE 0)]
  BY DEF Record
<1>7. recorded' \in [Artifacts -> Nat]
  BY <1>6 DEF MergerOK
<1>8. MergerOK'
  BY <1>1, <1>5, <1>7, LeavesTyped DEF MergerOK
<1>9. NeverAhead'
  <2> SUFFICES ASSUME NEW a \in Artifacts
               PROVE  recorded'[a] + (IF a \in Pending' THEN 1 ELSE 0) <= ver'[a]
    BY DEF NeverAhead
  <2>1. a \notin Pending' /\ (a \in Pending <=> a \in Commits)
    BY <1>1, <1>2, LeavesTyped DEF Pending, Commits, aggVars, work
  <2>2. recorded[a] + (IF a \in Pending THEN 1 ELSE 0) <= ver[a]
    BY DEF NeverAhead
  <2>3. recorded[a] \in Nat /\ recorded'[a] = recorded[a] + (IF a \in Commits THEN 1 ELSE 0)
    BY <1>6 DEF MergerOK
  <2>4. ver'[a] = ver[a]
    BY <1>1 DEF aggVars, ledger
  <2>5. QED
    BY <2>1, <2>2, <2>3, <2>4
<1>10. WorkersOK' /\ SharedOK'
  BY <1>1, <1>3, <1>4 DEF WorkersOK, SharedOK
<1>11. QED
  BY <1>1, <1>2, <1>8, <1>9, <1>10, LeavesTyped, BooksTyped

LEMMA AsyncNextTyped ==
    ASSUME AsyncTyped, [Next]_vars
    PROVE  AsyncTyped'
<1>1. CASE MergerStep
  BY <1>1, PrepareFailsTyped, ScoreRaisesTyped, BreaksTyped, StepBeginsTyped, StepMeasuresTyped, SubmitTyped, FinishesTyped, FinishedTyped, CollectTyped,
     GateTyped, BetweenSweepsTyped, RecordTyped DEF MergerStep
<1>2. CASE UNCHANGED vars
  <2>1. UNCHANGED <<aggVars, merger, intake>> /\ UNCHANGED <<workers, shared, mainly>>
    BY <1>2 DEF vars, engine, shared
  <2>2. WorkersOK' /\ SharedOK' /\ MainOK'
    BY <2>1 DEF AsyncTyped, WorkersOK, SharedOK, MainOK, workers, shared, mainly
  <2>3. QED
    BY <2>1, <2>2, ThreadsTyped
<1>3. QED
  BY <1>1, <1>2, WorkerTyped, ScoredTyped, MainTyped, MainEndsTyped DEF Next, PoolStep, MainStep, Ended

LEMMA AsyncTypedAlways == Spec => []AsyncTyped
BY InitAsyncTyped, AsyncNextTyped, PTL DEF Spec

\* The engine's variables keep their types; in particular what a batch on the pool holds is a list of
\* candidates that may still be sent, _collect_gate never points outside the list of batches, and
\* the history never records more commits to an artifact than the ledger has, whatever raises.
THEOREM AsyncTypeCorrect == Spec => []TypeOK
BY AsyncTypedAlways, AsyncTypedIsTypeOK, PTL

(***************************************************************************)
(* One candidate per artifact                                              *)
(***************************************************************************)
\* A decision or a promotion that raises, or a measurement that failed behind a batch already
\* decided, leaves gate_inflight as it was, and the next sweep decides that batch a second time.
DecidesOnce ==
    Pipelined => /\ Faults \intersect {"decide", "promote"} = {}
                 /\ "measure" \in Faults => \A a, b \in Artifacts : a = b

\* The batches that _collect_gate has not been through, or will keep.
Live == {i \in 1..Len(gate) :
            mpc = "collect" => \/ i > scan.at
                               \/ i = scan.at /\ phase = "idle"
                               \/ \E n \in DOMAIN scan.still : scan.still[n] = i}

\* Candidates made from the head that dev still has, which nobody else may make.
Current(cands) ==
    \A k \in DOMAIN cands : cands[k].ver = ver[cands[k].art] /\ cands[k].art \in inFlight

OneEach(cands) == \A k, l \in DOMAIN cands : cands[k].art = cands[l].art => k = l

Apart(cands, others) == \A k \in DOMAIN cands, l \in DOMAIN others : cands[k].art # others[l].art

OneWriter ==
    /\ Current(items) /\ OneEach(items)
    /\ \A i \in Live : /\ Current(gate[i].cands) /\ OneEach(gate[i].cands)
                       /\ Apart(gate[i].cands, items)
    /\ \A i, j \in Live : i # j => Apart(gate[i].cands, gate[j].cands)

\* Nothing is prepared for an artifact that has a candidate.
Choosing ==
    phase = "prepare" => /\ \A k \in DOMAIN items : items[k].art \notin todo
                         /\ Pipelined => todo \intersect inFlight = {}

\* _collect_gate's walk: what it keeps lies behind it, and it keeps nothing twice.
Walk ==
    mpc = "collect" =>
        /\ scan.at <= Len(gate) + 1
        /\ phase # "idle" => scan.at <= Len(gate)
        /\ \A n \in DOMAIN scan.still : scan.still[n] < scan.at
        /\ \A m, n \in DOMAIN scan.still : scan.still[m] = scan.still[n] => m = n

PoolOK ==
    /\ ~Pipelined => gate = <<>>
    /\ \A i \in DOMAIN gate : /\ gate[i].cands # <<>>
                              /\ gate[i].st = "failed" => "measure" \in Faults
    /\ Pipelined /\ "measure" \in Faults => Len(gate) <= 1

Exclusive == OneWriter /\ Choosing /\ Walk /\ PoolOK

\* The bookkeeping around the aggregator: what it decides on stays as it is.
LEMMA QuietExclusive ==
    ASSUME Exclusive, UNCHANGED <<ver, inFlight, phase, todo, items, gate>>,
           \/ UNCHANGED <<mpc, scan>>
           \/ /\ mpc # "collect" /\ phase = "idle"
              /\ mpc' = "collect" => scan' = [at |-> 1, still |-> <<>>]
           \/ mpc # "collect" /\ mpc' # "collect",
           gate \in Seq(Batch)
    PROVE  Exclusive'
<1>1. Live' = Live
  <2>1. CASE UNCHANGED <<mpc, scan>>
    BY <2>1 DEF Live
  <2>2. CASE mpc # "collect" /\ mpc' # "collect"
    BY <2>2 DEF Live
  <2>3. CASE mpc # "collect" /\ phase = "idle" /\ mpc' = "collect" /\ scan' = [at |-> 1, still |-> <<>>]
    BY <2>3 DEF Live
  <2>4. QED
    BY <2>1, <2>2, <2>3
<1>2. OneWriter'
  BY <1>1 DEF Exclusive, OneWriter, Current, OneEach, Apart
<1>3. Choosing' /\ PoolOK'
  BY DEF Exclusive, Choosing, PoolOK
<1>4. Walk'
  <2>1. Len(gate) \in Nat
    OBVIOUS
  <2>2. CASE UNCHANGED <<mpc, scan>>
    BY <2>2 DEF Exclusive, Walk
  <2>3. CASE mpc # "collect" /\ mpc' # "collect"
    BY <2>3 DEF Walk
  <2>4. CASE mpc # "collect" /\ phase = "idle" /\ mpc' = "collect" /\ scan' = [at |-> 1, still |-> <<>>]
    BY <2>1, <2>4 DEF Walk
  <2>5. QED
    BY <2>2, <2>3, <2>4
<1>5. QED
  BY <1>2, <1>3, <1>4 DEF Exclusive

LEMMA ThreadsExclusive ==
    ASSUME AsyncTyped, Exclusive,
           \/ \E w \in Workers : WorkerStep(w)
           \/ Deadline \/ MainStep \/ UNCHANGED vars
    PROVE  Exclusive'
<1>1. UNCHANGED <<ver, inFlight, phase, todo, items, gate, mpc, scan>>
  BY DEF WorkerStep, WorkerProceeds, Snapshot, CatchUp, LoopTop, PassGate, Look, ProposesSome, Propose,
         RolloutEnds, RolloutRaises, RolloutBreaks, Deadline, MainStep, MainStops, MainJoins, MainEnds,
         vars, engine, aggVars, ledger, policy, work, merger
<1>2. QED
  BY <1>1, QuietExclusive DEF AsyncTyped, MergerOK

LEMMA BetweenSweepsExclusive ==
    ASSUME AsyncTyped, Exclusive,
           \/ StopSeen \/ DrainEnds \/ TakeIntake \/ NothingLeft \/ NothingToRecord \/ PublishHead
           \/ Record \/ ScoreRaises \/ Recover \/ Breaks \/ GateCards \/ GateRaises
    PROVE  Exclusive'
<1>1. UNCHANGED <<ver, inFlight, phase, todo, items, gate>>
  BY DEF StopSeen, DrainEnds, TakeIntake, NothingLeft, NothingToRecord, PublishHead, Record, ScoreRaises,
         Recover, Breaks, GateCards, GateRaises, Forward, Raises, aggVars, ledger, work
<1>2. mpc \in {"top", "after", "score", "error", "gate"} /\ phase = "idle"
  BY DEF StopSeen, DrainEnds, TakeIntake, NothingLeft, NothingToRecord, PublishHead, Record,
         ScoreRaises, Recover, Breaks, GateCards, GateRaises, AsyncTyped, Phased
<1>3. mpc' = "collect" => scan' = [at |-> 1, still |-> <<>>]
  <2>1. CASE NothingToRecord \/ Record
    BY <2>1 DEF NothingToRecord, Record, LeaveSweep, Returns
  <2>2. CASE NothingLeft \/ GateCards
    BY <2>2 DEF NothingLeft, GateCards
  <2>3. CASE \/ StopSeen \/ DrainEnds \/ TakeIntake \/ PublishHead \/ ScoreRaises \/ Recover
             \/ Breaks \/ GateRaises
    BY <1>2, <2>3 DEF StopSeen, DrainEnds, TakeIntake, PublishHead, ScoreRaises, Recover, Breaks,
                      GateRaises, Raises
  <2>4. QED
    BY <2>1, <2>2, <2>3
<1>4. QED
  BY <1>1, <1>2, <1>3, QuietExclusive DEF AsyncTyped, MergerOK

LEMMA ItemArts ==
    ASSUME AsyncTyped, NEW k \in DOMAIN items
    PROVE  items[k] \in Candidate /\ items[k].art \in Artifacts
<1>1. items \in Seq(Candidate)
  BY DEF AsyncTyped, Typed, WorkOK
<1>2. items[k] \in Candidate
  BY <1>1
<1>3. QED
  BY <1>2 DEF Candidate

LEMMA BatchArts ==
    ASSUME AsyncTyped, NEW i \in 1..Len(gate), NEW k \in DOMAIN gate[i].cands
    PROVE  gate[i].cands[k] \in Candidate /\ gate[i].cands[k].art \in Artifacts
<1>1. gate \in Seq(Batch)
  BY DEF AsyncTyped, MergerOK
<1>2. gate[i] \in Batch
  BY <1>1
<1>3. gate[i].cands \in Seq(Candidate)
  BY <1>2 DEF Batch
<1>4. gate[i].cands[k] \in Candidate
  BY <1>3
<1>5. QED
  BY <1>4 DEF Candidate

\* Steps that take candidates away and touch no other: those that are left are as they were.
LEMMA ShrinksOneWriter ==
    ASSUME OneWriter, gate' = gate, Live' \subseteq Live,
           NEW f, \A k \in DOMAIN items' : f[k] \in DOMAIN items /\ items'[k] = items[f[k]],
           \A k, l \in DOMAIN items' : f[k] = f[l] => k = l,
           \A k \in DOMAIN items' : LET a == items'[k].art IN
               ver'[a] = ver[a] /\ (a \in inFlight => a \in inFlight'),
           \A i \in Live' : \A k \in DOMAIN gate[i].cands : LET a == gate[i].cands[k].art IN
               ver'[a] = ver[a] /\ (a \in inFlight => a \in inFlight')
    PROVE  OneWriter'
<1>1. Current(items)'
  BY DEF OneWriter, Current
<1>2. OneEach(items)'
  BY DEF OneWriter, OneEach
<1>3. \A i \in Live' : /\ Current(gate[i].cands)' /\ OneEach(gate[i].cands)'
                       /\ Apart(gate[i].cands, items)'
  BY DEF OneWriter, Current, OneEach, Apart
<1>4. \A i, j \in Live' : i # j => Apart(gate[i].cands, gate[j].cands)'
  BY DEF OneWriter, Apart
<1>5. QED
  BY <1>1, <1>2, <1>3, <1>4 DEF OneWriter

\* The candidate in hand is decided: it leaves the list, and its artifact is free again.
LEMMA DecidedExclusive ==
    ASSUME AsyncTyped, Exclusive, NEW outcome, Decided(outcome), items # <<>>,
           UNCHANGED <<gate, mpc, scan>>, phase \in {"decide", "commit"},
           \A a \in Artifacts : a # InHand.art => ver'[a] = ver[a]
    PROVE  Exclusive'
<1> USE DEF AsyncTyped
<1> DEFINE f == [k \in Nat |-> k + 1]
<1>1. /\ InHand = items[1] /\ 1 \in DOMAIN items
      /\ \A k \in DOMAIN items' : k \in Nat /\ k + 1 \in DOMAIN items /\ items'[k] = items[k + 1]
                                  /\ k + 1 # 1
      /\ inFlight' = inFlight \ {InHand.art} /\ phase' = "decide"
  BY HeadAndTail DEF Decided, Typed
<1>2. Live' = Live
  BY <1>1 DEF Live
<1>3. \A k \in DOMAIN items : items[k].art \in Artifacts
  BY ItemArts
<1>4. \A i \in Live : \A k \in DOMAIN gate[i].cands : gate[i].cands[k].art \in Artifacts
  BY BatchArts DEF Live
<1>5. \A k \in DOMAIN items' : items'[k].art # InHand.art
  BY <1>1 DEF Exclusive, OneWriter, OneEach
<1>6. \A i \in Live : \A k \in DOMAIN gate[i].cands : gate[i].cands[k].art # InHand.art
  BY <1>1 DEF Exclusive, OneWriter, Apart
<1>7. \A k \in DOMAIN items' : f[k] = k + 1
  BY <1>1
<1> HIDE DEF f
<1>8. /\ \A k \in DOMAIN items' : f[k] \in DOMAIN items /\ items'[k] = items[f[k]]
      /\ \A k, l \in DOMAIN items' : f[k] = f[l] => k = l
  BY <1>1, <1>7
<1>9. \A k \in DOMAIN items' : ver'[items'[k].art] = ver[items'[k].art]
                               /\ (items'[k].art \in inFlight => items'[k].art \in inFlight')
  BY <1>1, <1>3, <1>5
<1>10. \A i \in Live' : \A k \in DOMAIN gate[i].cands :
          /\ ver'[gate[i].cands[k].art] = ver[gate[i].cands[k].art]
          /\ gate[i].cands[k].art \in inFlight => gate[i].cands[k].art \in inFlight'
  BY <1>1, <1>2, <1>4, <1>6
<1>11. OneWriter'
  BY <1>2, <1>8, <1>9, <1>10, ShrinksOneWriter DEF Exclusive
<1>12. Choosing' /\ Walk' /\ PoolOK'
  BY <1>1 DEF Exclusive, Choosing, Walk, PoolOK
<1>13. QED
  BY <1>11, <1>12 DEF Exclusive

\* Steps of the aggregator that change only the phase, outside the preparation.
LEMMA PhaseExclusive ==
    ASSUME Exclusive, UNCHANGED <<ver, inFlight, items, gate, mpc, scan>>,
           phase # "idle", phase' \notin {"idle", "prepare"}
    PROVE  Exclusive'
<1>1. Live' = Live
  BY DEF Live
<1>2. OneWriter'
  BY <1>1 DEF Exclusive, OneWriter, Current, OneEach, Apart
<1>3. Choosing' /\ Walk' /\ PoolOK'
  BY DEF Exclusive, Choosing, Walk, PoolOK
<1>4. QED
  BY <1>2, <1>3 DEF Exclusive


\* Nothing in hand and nothing on the pool.
LEMMA EmptyExclusive ==
    ASSUME Exclusive, ~Pipelined, gate' = gate, items' = <<>>, phase' # "prepare", mpc' # "collect"
    PROVE  Exclusive'
<1>1. gate' = <<>> /\ Len(<<>>) = 0
  BY DEF Exclusive, PoolOK
<1>2. Live' = {}
  BY <1>1 DEF Live
<1>3. OneWriter'
  BY <1>2 DEF OneWriter, Current, OneEach
<1>4. QED
  BY <1>1, <1>3 DEF Exclusive, Choosing, Walk, PoolOK

LEMMA FinishesExclusive ==
    ASSUME DecidesOnce, AsyncTyped, Exclusive, Finishes
    PROVE  Exclusive'
<1>1. gate' = gate /\ scan' = scan
  BY DEF Finishes, Raises, merger
<1>2. CASE FinishRaises /\ \E commits : Raises(commits)
  <2>1. ~Pipelined /\ items' = <<>> /\ phase' = "idle"
    BY <1>2 DEF FinishRaises, DecideRaises, CommitRaises, PromoteRaises, LeavesDecision, DecidesOnce,
                Unwinds
  <2>2. mpc' = "error"
    BY <1>2 DEF Raises
  <2>3. QED
    BY <1>1, <2>1, <2>2, EmptyExclusive
<1>3. CASE Finishing /\ UNCHANGED merger
  <2>1. mpc' = mpc
    BY <1>3 DEF merger
  <2>2. CASE Reject \/ Commit \/ GiveUp
    <3>1. PICK outcome : Decided(outcome)
      BY <2>2 DEF Reject, Commit, GiveUp
    <3>2. items # <<>> /\ phase \in {"decide", "commit"}
      BY <2>2 DEF Reject, Commit, Land, GiveUp, AsyncTyped, Typed, CommitBelowBound
    <3>3. \A a \in Artifacts : a # InHand.art => ver'[a] = ver[a]
      BY <2>2 DEF Reject, Commit, Land, GiveUp, ledger, AsyncTyped, Typed, LedgerOK
    <3>4. QED
      BY <1>1, <2>1, <3>1, <3>2, <3>3, DecidedExclusive
  <2>3. CASE Rebase
    <3>1. items # <<>> /\ InHand = items[1] /\ 1 \in DOMAIN items
      BY <2>3, HeadAndTail DEF Rebase, AsyncTyped, Typed, CommitBelowBound
    <3>2. CasHolds(InHand)
      BY <3>1 DEF Exclusive, OneWriter, Current, CasHolds
    <3>3. QED
      BY <2>3, <3>2 DEF Rebase
  <2>4. CASE Accept \/ AllDecided \/ Observe \/ \E a \in Artifacts : Promote(a)
    <3>1. /\ UNCHANGED <<ver, inFlight, items>> /\ phase # "idle"
          /\ phase' \in {"commit", "observe", "promote"}
      BY <2>4 DEF Accept, AllDecided, Observe, Promote, ledger
    <3>2. QED
      BY <1>1, <2>1, <3>1, PhaseExclusive
  <2>5. QED
    BY <1>3, <2>2, <2>3, <2>4 DEF Finishing
<1>4. QED
  BY <1>2, <1>3 DEF Finishes, FinishRaises

LEMMA FinishedExclusive ==
    ASSUME AsyncTyped, Exclusive, Finished
    PROVE  Exclusive'
<1>1. /\ UNCHANGED <<ver, inFlight, gate>> /\ items' = <<>>
      /\ phase = "promote" /\ phase' = "idle"
      /\ \/ mpc = "step" /\ mpc' = "after" /\ scan' = scan
         \/ mpc = "collect" /\ mpc' = "collect" /\ scan' = [scan EXCEPT !.at = scan.at + 1]
  BY DEF Finished, StepReturns, Unwinds, ledger
<1>2. /\ scan.at \in Nat \ {0} /\ Len(gate) \in Nat /\ DOMAIN scan.still \subseteq Nat
      /\ \A n \in DOMAIN scan.still : scan.still[n] \in Nat
      /\ mpc = "collect" => scan'.at = scan.at + 1 /\ scan'.still = scan.still
  BY <1>1 DEF AsyncTyped, MergerOK
<1>3. Live' \subseteq Live
  <2>1. CASE mpc = "collect"
    BY <1>1, <1>2, <2>1 DEF Live
  <2>2. CASE mpc = "step"
    BY <1>1, <2>2 DEF Live
  <2>3. QED
    BY <1>1, <2>1, <2>2
<1>4. OneWriter'
  BY <1>1, <1>3, ShrinksOneWriter DEF Exclusive
<1>5. Walk'
  <2>1. CASE mpc = "collect"
    BY <1>1, <1>2, <2>1 DEF Exclusive, Walk
  <2>2. CASE mpc = "step"
    BY <1>1, <2>2 DEF Walk
  <2>3. QED
    BY <1>1, <2>1, <2>2
<1>6. Choosing' /\ PoolOK'
  BY <1>1 DEF Exclusive, Choosing, PoolOK
<1>7. QED
  BY <1>4, <1>5, <1>6 DEF Exclusive

LEMMA PutForwardExclusive ==
    ASSUME AsyncTyped, Exclusive, NEW a \in Artifacts, Prepare(a), UNCHANGED <<gate, mpc, scan>>,
           NEW i, items' = Append(items, i), i.art = a, i.ver = ver[a],
           inFlight' = inFlight \union {a}
    PROVE  Exclusive'
<1>1. /\ phase = "prepare" /\ phase' = "prepare" /\ ver' = ver /\ a \in todo /\ todo' = todo \ {a}
      /\ a \notin todo' /\ a \in inFlight'
  BY DEF Prepare, ledger
<1>2. /\ \A k \in DOMAIN items' : \/ (k \in DOMAIN items /\ items'[k] = items[k])
                                  \/ (k = Len(items) + 1 /\ items'[k] = i)
      /\ Len(items) + 1 \notin DOMAIN items
  BY DEF AsyncTyped, Typed, WorkOK
<1>3. Live' = Live
  BY <1>1 DEF Live
<1>4. \A k \in DOMAIN items : items[k].art # a
  BY <1>1 DEF Exclusive, Choosing
<1>5. \A j \in Live : \A k \in DOMAIN gate[j].cands : gate[j].cands[k].art # a
  <2>1. CASE Pipelined
    <3>1. a \notin inFlight
      BY <1>1, <2>1 DEF Exclusive, Choosing
    <3>2. QED
      BY <3>1 DEF Exclusive, OneWriter, Current
  <2>2. CASE ~Pipelined
    BY <2>2 DEF Exclusive, PoolOK, Live
  <2>3. QED
    BY <2>1, <2>2
<1>6. Current(items)'
  BY <1>1, <1>2 DEF Exclusive, OneWriter, Current
<1>7. OneEach(items)'
  BY <1>2, <1>4 DEF Exclusive, OneWriter, OneEach
<1>8. \A j \in Live : /\ Current(gate[j].cands)' /\ OneEach(gate[j].cands)'
                      /\ Apart(gate[j].cands, items)'
  <2> SUFFICES ASSUME NEW j \in Live
               PROVE  /\ Current(gate[j].cands)' /\ OneEach(gate[j].cands)'
                      /\ Apart(gate[j].cands, items)'
    OBVIOUS
  <2>1. Current(gate[j].cands) /\ OneEach(gate[j].cands) /\ Apart(gate[j].cands, items)
    BY DEF Exclusive, OneWriter
  <2>2. Current(gate[j].cands)' /\ OneEach(gate[j].cands)'
    BY <1>1, <2>1 DEF Current, OneEach
  <2>3. Apart(gate[j].cands, items)'
    BY <1>2, <1>5, <2>1 DEF Apart
  <2>4. QED
    BY <2>2, <2>3
<1>9. OneWriter'
  BY <1>3, <1>6, <1>7, <1>8 DEF Exclusive, OneWriter, Apart
<1>10. Choosing'
  BY <1>1, <1>2, <1>4 DEF Exclusive, Choosing
<1>11. Walk' /\ PoolOK'
  BY <1>1 DEF Exclusive, Walk, PoolOK
<1>12. QED
  BY <1>9, <1>10, <1>11 DEF Exclusive

LEMMA StepBeginsExclusive ==
    ASSUME AsyncTyped, Exclusive, StepBegins
    PROVE  Exclusive'
<1>1. UNCHANGED <<gate, mpc, scan>> /\ mpc = "step"
  BY DEF StepBegins, engine, merger
<1>2. CASE BeginStep(SkipInFlight)
  <2>1. /\ UNCHANGED <<ver, inFlight>> /\ items' = <<>> /\ phase' = "prepare"
        /\ todo' = Ready \ SkipInFlight
    BY <1>2 DEF BeginStep, ledger
  <2>2. Live' = Live
    BY <1>1 DEF Live
  <2>3. OneWriter'
    BY <1>1, <2>1, <2>2, ShrinksOneWriter DEF Exclusive
  <2>4. Choosing' /\ Walk' /\ PoolOK'
    BY <1>1, <2>1 DEF Exclusive, Choosing, Walk, PoolOK, SkipInFlight
  <2>5. QED
    BY <2>3, <2>4 DEF Exclusive
<1>3. ASSUME NEW a \in Artifacts, Prepare(a) PROVE Exclusive'
  <2>1. CASE Filed(a)
    <3>1. /\ UNCHANGED <<ver, items, inFlight, phase>> /\ phase = "prepare" /\ todo' = todo \ {a}
      BY <1>3, <2>1 DEF Prepare, Filed, ledger
    <3>2. Live' = Live
      BY <1>1, <3>1 DEF Live
    <3>3. OneWriter'
      BY <1>1, <3>1, <3>2 DEF Exclusive, OneWriter, Current, OneEach, Apart
    <3>4. Choosing' /\ Walk' /\ PoolOK'
      BY <1>1, <3>1 DEF Exclusive, Choosing, Walk, PoolOK
    <3>5. QED
      BY <3>3, <3>4 DEF Exclusive
  <2>2. ASSUME NEW survivors, NEW chosen, PutForward(a, survivors, chosen) PROVE Exclusive'
    <3> DEFINE i == [art |-> a, ver |-> ver[a], content |-> content[a], chosen |-> chosen,
                     cards |-> survivors, tries |-> 0]
    <3>1. items' = Append(items, i) /\ i.art = a /\ i.ver = ver[a] /\ inFlight' = inFlight \union {a}
      BY <2>2 DEF PutForward
    <3> HIDE DEF i
    <3>2. QED
      BY <1>1, <1>3, <3>1, PutForwardExclusive
  <2>3. Filed(a) \/ \E survivors, chosen : PutForward(a, survivors, chosen)
    BY <1>3 DEF Prepare
  <2>4. QED
    BY <2>1, <2>2, <2>3
<1>4. CASE Prepared
  <2>1. UNCHANGED <<ver, inFlight, items>> /\ phase # "idle" /\ phase' = "prepared"
    BY <1>4 DEF Prepared, ledger
  <2>2. QED
    BY <1>1, <2>1, PhaseExclusive
<1>5. QED
  BY <1>2, <1>3, <1>4 DEF StepBegins

LEMMA MeasuresExclusive ==
    ASSUME AsyncTyped, Exclusive, StepMeasures
    PROVE  Exclusive'
<1>1. ~Pipelined /\ gate' = gate /\ scan' = scan
  BY DEF StepMeasures, Raises, merger
<1>2. CASE Measure /\ UNCHANGED merger
  <2>1. /\ UNCHANGED <<ver, inFlight, items, mpc>> /\ phase # "idle" /\ phase' = "decide"
    BY <1>2 DEF Measure, ledger, merger
  <2>2. QED
    BY <1>1, <2>1, PhaseExclusive
<1>3. CASE MeasureRaises /\ Raises(Pending)
  <2>1. items' = <<>> /\ phase' = "idle" /\ mpc' = "error"
    BY <1>3 DEF MeasureRaises, Unwinds, Raises
  <2>2. QED
    BY <1>1, <2>1, EmptyExclusive
<1>4. QED
  BY <1>2, <1>3 DEF StepMeasures

LEMMA PrepareFailsExclusive ==
    ASSUME AsyncTyped, Exclusive, PrepareFails
    PROVE  Exclusive'
<1>1. /\ UNCHANGED <<ver, inFlight, gate, scan>> /\ mpc = "step" /\ mpc' = "error"
      /\ items' = <<>> /\ phase' = "idle"
  BY DEF PrepareFails, PrepareRaises, Raises, Unwinds, ledger
<1>2. Live' = Live
  BY <1>1 DEF Live
<1>3. OneWriter'
  BY <1>1, <1>2, ShrinksOneWriter DEF Exclusive
<1>4. Choosing' /\ Walk' /\ PoolOK'
  BY <1>1 DEF Exclusive, Choosing, Walk, PoolOK
<1>5. QED
  BY <1>3, <1>4 DEF Exclusive

LEMMA NothingToScoreExclusive ==
    ASSUME AsyncTyped, Exclusive, NothingToScore
    PROVE  Exclusive'
<1>1. UNCHANGED <<ver, inFlight, gate, scan>> /\ mpc = "step" /\ phase = "prepared" /\ items = <<>>
  BY DEF NothingToScore, ledger
<1>2. CASE phase' = "decide" /\ UNCHANGED <<todo, items, reports, mpc>>
  BY <1>1, <1>2, PhaseExclusive
<1>3. CASE Unwinds /\ mpc' = "after"
  <2>1. items' = <<>> /\ phase' = "idle"
    BY <1>3 DEF Unwinds
  <2>2. Live' = Live
    BY <1>1, <1>3 DEF Live
  <2>3. OneWriter'
    BY <1>1, <2>1, <2>2, ShrinksOneWriter DEF Exclusive
  <2>4. Choosing' /\ Walk' /\ PoolOK'
    BY <1>1, <1>3, <2>1 DEF Exclusive, Choosing, Walk, PoolOK
  <2>5. QED
    BY <2>3, <2>4 DEF Exclusive
<1>4. QED
  BY <1>2, <1>3 DEF NothingToScore

\* With one artifact only there is no second batch.
LEMMA OneBatch ==
    ASSUME DecidesOnce, AsyncTyped, Exclusive, Pipelined, "measure" \in Faults, items # <<>>,
           mpc # "collect"
    PROVE  Len(gate) = 0
<1> SUFFICES ASSUME Len(gate) # 0 PROVE FALSE
  OBVIOUS
<1>1. gate \in Seq(Batch) /\ 1 \in 1..Len(gate) /\ 1 \in Live
  <2>1. gate \in Seq(Batch)
    BY DEF AsyncTyped, MergerOK
  <2>2. QED
    BY <2>1 DEF Live
<1>2. gate[1].cands # <<>> /\ gate[1] \in Batch
  BY <1>1 DEF Exclusive, PoolOK
<1>3. 1 \in DOMAIN gate[1].cands
  <2>1. gate[1].cands \in Seq(Candidate)
    BY <1>2 DEF Batch
  <2>2. QED
    BY <1>2, <2>1
<1>4. 1 \in DOMAIN items
  BY HeadAndTail DEF AsyncTyped, Typed
<1>5. gate[1].cands[1].art # items[1].art
  BY <1>1, <1>3, <1>4 DEF Exclusive, OneWriter, Apart
<1>6. gate[1].cands[1].art = items[1].art
  BY <1>1, <1>3, <1>4, ItemArts, BatchArts DEF DecidesOnce
<1>7. QED
  BY <1>5, <1>6

LEMMA SubmitExclusive ==
    ASSUME DecidesOnce, AsyncTyped, Exclusive, Submit
    PROVE  Exclusive'
<1> DEFINE b == [cands |-> items, reports |-> reports, st |-> "running"]
           n == Len(gate) + 1
<1>1. /\ UNCHANGED <<ver, inFlight, scan>> /\ mpc = "step" /\ mpc' = "after" /\ phase' = "idle"
      /\ items # <<>> /\ items' = <<>> /\ gate' = Append(gate, b) /\ Pipelined
  BY DEF Submit, Unwinds, ledger
<1>2. b.cands = items /\ b.st = "running"
  OBVIOUS
<1>3. gate \in Seq(Batch) /\ b \in Batch
  BY DEF AsyncTyped, MergerOK, Typed, WorkOK, Batch
<1> HIDE DEF b
<1>4. /\ Len(gate') = n /\ n \in Nat /\ Len(gate) \in Nat
      /\ gate'[n] = b /\ \A i \in 1..Len(gate) : gate'[i] = gate[i]
      /\ DOMAIN gate' = 1..n /\ \A i \in 1..n : i = n \/ i \in 1..Len(gate)
  BY <1>1, <1>3
<1> HIDE DEF n
<1>5. Live = 1..Len(gate) /\ Live' = 1..n
  BY <1>1, <1>4 DEF Live
<1>6. Current(items)' /\ OneEach(items)'
  BY <1>1 DEF Current, OneEach
<1>7. \A i \in 1..n : /\ Current(gate[i].cands)' /\ OneEach(gate[i].cands)'
                      /\ Apart(gate[i].cands, items)'
  <2> SUFFICES ASSUME NEW i \in 1..n
               PROVE  /\ Current(gate[i].cands)' /\ OneEach(gate[i].cands)'
                      /\ Apart(gate[i].cands, items)'
    OBVIOUS
  <2>1. Apart(gate[i].cands, items)'
    BY <1>1 DEF Apart
  <2>2. CASE i = n
    <3>1. gate'[i].cands = items /\ Current(items) /\ OneEach(items) /\ UNCHANGED <<ver, inFlight>>
      BY <1>1, <1>2, <1>4, <2>2 DEF Exclusive, OneWriter
    <3>2. Current(gate[i].cands)' /\ OneEach(gate[i].cands)'
      BY <3>1 DEF Current, OneEach
    <3>3. QED
      BY <2>1, <3>2
  <2>3. CASE i \in 1..Len(gate)
    <3>1. /\ gate'[i] = gate[i] /\ Current(gate[i].cands) /\ OneEach(gate[i].cands)
          /\ UNCHANGED <<ver, inFlight>>
      BY <1>1, <1>4, <1>5, <2>3 DEF Exclusive, OneWriter
    <3>2. Current(gate[i].cands)' /\ OneEach(gate[i].cands)'
      BY <3>1 DEF Current, OneEach
    <3>3. QED
      BY <2>1, <3>2
  <2>4. QED
    BY <1>4, <2>2, <2>3
<1>8. \A i, j \in 1..n : i # j => Apart(gate[i].cands, gate[j].cands)'
  <2> SUFFICES ASSUME NEW i \in 1..n, NEW j \in 1..n, i # j
               PROVE  Apart(gate[i].cands, gate[j].cands)'
    OBVIOUS
  <2>1. CASE i \in 1..Len(gate) /\ j \in 1..Len(gate)
    BY <1>4, <1>5, <2>1 DEF Exclusive, OneWriter, Apart
  <2>2. CASE i = n /\ j \in 1..Len(gate)
    <3>1. Apart(gate[j].cands, items) /\ gate'[i].cands = items /\ gate'[j] = gate[j]
      BY <1>2, <1>4, <1>5, <2>2 DEF Exclusive, OneWriter
    <3>2. QED
      BY <3>1 DEF Apart
  <2>3. CASE j = n /\ i \in 1..Len(gate)
    <3>1. Apart(gate[i].cands, items) /\ gate'[j].cands = items /\ gate'[i] = gate[i]
      BY <1>2, <1>4, <1>5, <2>3 DEF Exclusive, OneWriter
    <3>2. QED
      BY <3>1 DEF Apart
  <2>4. QED
    BY <1>4, <2>1, <2>2, <2>3
<1>9. OneWriter'
  BY <1>5, <1>6, <1>7, <1>8 DEF OneWriter
<1>10. PoolOK'
  <2>1. \A i \in DOMAIN gate' : gate'[i].cands # <<>> /\ (gate'[i].st = "failed" => "measure" \in Faults)
    BY <1>1, <1>2, <1>3, <1>4 DEF Exclusive, PoolOK
  <2>2. "measure" \in Faults => n <= 1
    BY <1>1, <1>4, OneBatch DEF n
  <2>3. QED
    BY <1>1, <1>4, <2>1, <2>2 DEF PoolOK
<1>11. Choosing' /\ Walk'
  BY <1>1 DEF Choosing, Walk
<1>12. QED
  BY <1>9, <1>10, <1>11 DEF Exclusive

LEMMA ScoredExclusive ==
    ASSUME AsyncTyped, Exclusive, NEW i \in 1..Len(gate), Scored(i)
    PROVE  Exclusive'
<1>1. PICK st \in {"measured"} \union (IF "measure" \in Faults THEN {"failed"} ELSE {}) :
        gate' = [gate EXCEPT ![i].st = st]
  BY DEF Scored
<1>2. UNCHANGED <<ver, inFlight, phase, todo, items, mpc, scan>>
  BY DEF Scored, aggVars, ledger, work
<1>3. gate \in Seq(Batch) /\ gate[i] \in Batch /\ i \in DOMAIN gate
  <2>1. gate \in Seq(Batch)
    BY DEF AsyncTyped, MergerOK
  <2>2. QED
    BY <2>1
<1> DEFINE b == [gate[i] EXCEPT !.st = st]
<1>4. b.cands = gate[i].cands /\ b.st = st /\ gate' = [gate EXCEPT ![i] = b]
  BY <1>1, <1>3, Rescored DEF Batch
<1> HIDE DEF b
<1>5. /\ Len(gate') = Len(gate) /\ DOMAIN gate' = DOMAIN gate /\ DOMAIN gate = 1..Len(gate)
      /\ \A j \in DOMAIN gate : gate'[j].cands = gate[j].cands
      /\ \A j \in DOMAIN gate : gate'[j].st = "failed" => gate[j].st = "failed" \/ st = "failed"
      /\ gate = <<>> => gate' = <<>>
  BY <1>3, <1>4
<1>6. Live' = Live
  BY <1>2, <1>5 DEF Live
<1>7. \A j \in Live : j \in DOMAIN gate /\ gate'[j].cands = gate[j].cands
  BY <1>5 DEF Live
<1>8. OneWriter'
  BY <1>2, <1>6, <1>7 DEF Exclusive, OneWriter, Current, OneEach, Apart
<1>9. Choosing' /\ Walk'
  BY <1>2, <1>5 DEF Exclusive, Choosing, Walk
<1>10. PoolOK'
  BY <1>1, <1>5 DEF Exclusive, PoolOK
<1>11. QED
  BY <1>8, <1>9, <1>10 DEF Exclusive

LEMMA CollectExclusive ==
    ASSUME DecidesOnce, AsyncTyped, Exclusive, SkipRunning \/ CollectMeasured \/ CollectRaises
    PROVE  Exclusive'
<1>1. /\ UNCHANGED <<ver, inFlight, todo, gate>> /\ mpc = "collect" /\ phase = "idle"
      /\ scan.at <= Len(gate)
  BY DEF SkipRunning, CollectMeasured, CollectRaises, AtBatch, aggVars, ledger, work, engine, merger,
         Raises
<1>2. /\ scan.at \in Nat \ {0} /\ scan.still \in Seq(Nat) /\ gate \in Seq(Batch)
      /\ DOMAIN gate = 1..Len(gate) /\ Len(gate) \in Nat
  BY DEF AsyncTyped, MergerOK
<1>3. scan.at \in Live /\ scan.at \in DOMAIN gate
  BY <1>1, <1>2 DEF Live
<1>4. \A n \in DOMAIN scan.still : scan.still[n] < scan.at /\ scan.still[n] \in Nat
  BY <1>1, <1>2 DEF Exclusive, Walk
<1>5. CASE SkipRunning
  <2> DEFINE t == scan.still
             x == scan.at
  <2>1. /\ scan' = [at |-> x + 1, still |-> Append(t, x)] /\ UNCHANGED <<items, phase, mpc>>
    BY <1>5 DEF SkipRunning, aggVars, work
  <2>2. scan'.at = x + 1 /\ scan'.still = Append(t, x)
    BY <2>1
  <2>3. t \in Seq(Nat) /\ x \in Nat /\ \A n \in DOMAIN t : t[n] < x /\ t[n] \in Nat
    BY <1>2, <1>4
  <2>4. \A m, n \in DOMAIN t : t[m] = t[n] => m = n
    BY <1>1 DEF Exclusive, Walk
  <2> HIDE DEF t, x
  <2>5. /\ \A n \in DOMAIN Append(t, x) :
              (n \in DOMAIN t /\ Append(t, x)[n] = t[n]) \/ (n = Len(t) + 1 /\ Append(t, x)[n] = x)
        /\ Len(t) + 1 \in DOMAIN Append(t, x) /\ Append(t, x)[Len(t) + 1] = x
        /\ \A n \in DOMAIN t : n \in DOMAIN Append(t, x) /\ Append(t, x)[n] = t[n]
    BY <2>3
  <2>6. Live' = Live
    BY <1>1, <1>2, <2>1, <2>2, <2>3, <2>5 DEF Live, t, x
  <2>7. OneWriter'
    BY <1>1, <2>1, <2>6 DEF Exclusive, OneWriter, Current, OneEach, Apart
  <2>8. Walk'
    <3>1. \A n \in DOMAIN Append(t, x) : Append(t, x)[n] < x + 1
      BY <2>3, <2>5
    <3>2. \A m, n \in DOMAIN Append(t, x) : Append(t, x)[m] = Append(t, x)[n] => m = n
      BY <2>3, <2>4, <2>5
    <3>3. x + 1 <= Len(gate) + 1
      BY <1>1, <1>2 DEF x
    <3>4. QED
      BY <1>1, <2>1, <2>2, <3>1, <3>2, <3>3 DEF Walk
  <2>9. Choosing' /\ PoolOK'
    BY <1>1, <2>1 DEF Exclusive, Choosing, PoolOK
  <2>10. QED
    BY <2>7, <2>8, <2>9 DEF Exclusive
<1>6. CASE CollectMeasured
  <2>1. /\ items' = gate[scan.at].cands /\ phase' = "decide" /\ UNCHANGED <<mpc, scan>>
    BY <1>6 DEF CollectMeasured, engine, merger
  <2>2. Live' \subseteq Live /\ scan.at \notin Live'
    BY <1>1, <1>2, <1>4, <2>1 DEF Live
  <2>3. Current(items)' /\ OneEach(items)'
    BY <1>1, <1>3, <2>1 DEF Exclusive, OneWriter, Current, OneEach
  <2>4. \A i \in Live' : /\ Current(gate[i].cands)' /\ OneEach(gate[i].cands)'
                         /\ Apart(gate[i].cands, items)'
    BY <1>1, <1>3, <2>1, <2>2 DEF Exclusive, OneWriter, Current, OneEach, Apart
  <2>5. \A i, j \in Live' : i # j => Apart(gate[i].cands, gate[j].cands)'
    BY <1>1, <2>2 DEF Exclusive, OneWriter, Apart
  <2>6. OneWriter'
    BY <2>3, <2>4, <2>5 DEF OneWriter
  <2>7. Choosing' /\ Walk' /\ PoolOK'
    BY <1>1, <2>1 DEF Exclusive, Choosing, Walk, PoolOK
  <2>8. QED
    BY <2>6, <2>7 DEF Exclusive
<1>7. CASE CollectRaises
  <2>1. UNCHANGED <<items, phase, scan>> /\ mpc' = "error" /\ gate[scan.at].st = "failed"
    BY <1>7 DEF CollectRaises, Raises, aggVars, work
  <2>2. Len(gate) <= 1
    BY <1>2, <1>3, <2>1 DEF Exclusive, PoolOK
  <2>3. Live' = Live
    <3>1. scan.at = 1 /\ Len(gate) = 1
      BY <1>1, <1>2, <2>2
    <3>2. QED
      BY <1>1, <2>1, <3>1 DEF Live
  <2>4. OneWriter'
    BY <1>1, <2>1, <2>3 DEF Exclusive, OneWriter, Current, OneEach, Apart
  <2>5. Choosing' /\ Walk' /\ PoolOK'
    BY <1>1, <2>1 DEF Exclusive, Choosing, Walk, PoolOK
  <2>6. QED
    BY <2>4, <2>5 DEF Exclusive
<1>8. QED
  BY <1>5, <1>6, <1>7

\* gate_inflight keeps what was still running, each batch once.
LEMMA CollectedExclusive ==
    ASSUME AsyncTyped, Exclusive, Collected
    PROVE  Exclusive'
<1> DEFINE t == scan.still
<1>1. /\ UNCHANGED <<ver, inFlight, todo, items, phase, scan>> /\ mpc = "collect" /\ phase = "idle"
      /\ mpc' \in {"step", "after"} /\ gate' = StillRunning
  BY DEF Collected, aggVars, ledger, work
<1>2. /\ t \in Seq(Nat) /\ gate \in Seq(Batch) /\ \A n \in DOMAIN t : t[n] \in 1..Len(gate)
      /\ \A m, n \in DOMAIN t : t[m] = t[n] => m = n
  BY <1>1 DEF AsyncTyped, MergerOK, Scanned, Exclusive, Walk
<1>3. gate' = [n \in DOMAIN t |-> gate[t[n]]]
  BY <1>1 DEF StillRunning
<1>4. \A n \in DOMAIN t : t[n] \in Live
  BY <1>1, <1>2 DEF Live
<1> HIDE DEF t
<1>5. /\ DOMAIN gate' = DOMAIN t /\ \A n \in DOMAIN t : gate'[n] = gate[t[n]]
      /\ DOMAIN t = 1..Len(t) /\ Len(t) \in Nat
  BY <1>2, <1>3
<1>6. Len(gate') = Len(t)
  BY <1>2, <1>3, <1>5
<1>7. Live' = DOMAIN t
  BY <1>1, <1>5, <1>6 DEF Live
<1>8. Current(items)' /\ OneEach(items)'
  BY <1>1 DEF Exclusive, OneWriter, Current, OneEach
<1>9. \A n \in DOMAIN t : /\ Current(gate[n].cands)' /\ OneEach(gate[n].cands)'
                          /\ Apart(gate[n].cands, items)'
  BY <1>1, <1>4, <1>5 DEF Exclusive, OneWriter, Current, OneEach, Apart
<1>10. \A m, n \in DOMAIN t : m # n => Apart(gate[m].cands, gate[n].cands)'
  BY <1>2, <1>4, <1>5 DEF Exclusive, OneWriter, Apart
<1>11. OneWriter'
  BY <1>7, <1>8, <1>9, <1>10 DEF OneWriter
<1>12. PoolOK'
  <2>1. ~Pipelined => gate' = <<>>
    <3>1. ~Pipelined => DOMAIN t = {}
      BY <1>2, <1>5 DEF Exclusive, PoolOK
    <3>2. QED
      BY <1>3, <3>1
  <2>2. \A n \in DOMAIN t : gate'[n].cands # <<>> /\ (gate'[n].st = "failed" => "measure" \in Faults)
    BY <1>2, <1>5 DEF Exclusive, PoolOK
  <2>3. Len(gate) <= 1 => Len(t) <= 1
    <3> SUFFICES ASSUME Len(gate) <= 1, Len(t) > 1 PROVE FALSE
      BY <1>5, <1>2
    <3>1. 1 \in DOMAIN t /\ 2 \in DOMAIN t
      BY <1>5
    <3>2. t[1] \in Nat /\ t[2] \in Nat /\ 1 <= t[1] /\ t[1] <= Len(gate) /\ 1 <= t[2] /\ t[2] <= Len(gate)
      BY <1>2, <3>1
    <3>3. t[1] = t[2]
      BY <3>2, <1>2
    <3>4. QED
      BY <1>2, <3>1, <3>3
  <2>4. QED
    BY <1>5, <1>6, <2>1, <2>2, <2>3 DEF Exclusive, PoolOK
<1>13. Choosing' /\ Walk'
  BY <1>1 DEF Exclusive, Choosing, Walk
<1>14. QED
  BY <1>11, <1>12, <1>13 DEF Exclusive

LEMMA ExclusiveAlways == ASSUME DecidesOnce PROVE Spec => []Exclusive
<1>1. Init => Exclusive
  <2> SUFFICES ASSUME Init PROVE Exclusive
    OBVIOUS
  <2>1. gate = <<>> /\ Len(<<>>) = 0 /\ items = <<>> /\ phase = "idle" /\ mpc = "top"
    BY DEF Init, AggInit
  <2>2. Live = {}
    BY <2>1 DEF Live
  <2>3. QED
    BY <2>1, <2>2 DEF Exclusive, OneWriter, Current, OneEach, Choosing, Walk, PoolOK
<1>2. AsyncTyped /\ Exclusive /\ [Next]_vars => Exclusive'
  <2> SUFFICES ASSUME AsyncTyped, Exclusive, [Next]_vars PROVE Exclusive'
    OBVIOUS
  <2>1. CASE MergerStep
    BY <2>1, BetweenSweepsExclusive, StepBeginsExclusive, PrepareFailsExclusive, MeasuresExclusive,
       SubmitExclusive, NothingToScoreExclusive, FinishesExclusive, FinishedExclusive, CollectExclusive,
       CollectedExclusive DEF MergerStep
  <2>2. CASE PoolStep
    BY <2>2, ScoredExclusive DEF PoolStep
  <2>3. QED
    BY <2>1, <2>2, ThreadsExclusive DEF Next, Ended
<1>3. QED
  BY <1>1, <1>2, AsyncTypedAlways, PTL DEF Spec

(***************************************************************************)
(* The batches on the pool                                                 *)
(***************************************************************************)
\* Whatever raises, a batch may be decided twice, but no sweep does so: the batches on the pool share
\* no artifact, for an artifact stays in _in_flight from prepare until its first decision, and what
\* is prepared after _collect_gate is prepared beside batches that nobody has decided yet.
Claimed(cands) == \A k \in DOMAIN cands : cands[k].art \in inFlight

IsKept(i) == mpc = "collect" /\ \E n \in DOMAIN scan.still : scan.still[n] = i

Parted ==
    /\ OneEach(items)
    /\ \A i \in DOMAIN gate : OneEach(gate[i].cands)
    /\ \A i, j \in DOMAIN gate : i # j => Apart(gate[i].cands, gate[j].cands)

Claims ==
    /\ ~Pipelined => gate = <<>>
    /\ \A i \in DOMAIN gate :
          gate[i].st = "running" \/ mpc = "step" \/ IsKept(i) => Claimed(gate[i].cands)

InStep ==
    mpc = "step" =>
        /\ phase \in {"prepare", "prepared"} => \A i \in DOMAIN gate : Apart(gate[i].cands, items)
        /\ phase \in {"prepare", "prepared"} => Claimed(items)
        /\ Pipelined /\ phase \in {"decide", "commit"} => items = <<>>

FromBatch ==
    mpc = "collect" /\ phase # "idle" =>
        /\ gate[scan.at].st # "running"
        /\ \A k \in DOMAIN items : \E l \in DOMAIN gate[scan.at].cands :
              items[k].art = gate[scan.at].cands[l].art

Distinct == Parted /\ Claims /\ InStep /\ FromBatch /\ Choosing /\ Walk

LEMMA QuietDistinct ==
    ASSUME Distinct, UNCHANGED <<inFlight, phase, todo, items, gate>>, gate \in Seq(Batch),
           \/ UNCHANGED <<mpc, scan>>
           \/ /\ mpc # "collect" /\ phase = "idle"
              /\ mpc' = "collect" => scan' = [at |-> 1, still |-> <<>>]
              /\ mpc' = "step" => ~Pipelined
    PROVE  Distinct'
<1>1. Parted' /\ Choosing'
  BY DEF Distinct, Parted, Choosing, OneEach, Apart
<1>2. CASE UNCHANGED <<mpc, scan>>
  BY <1>1, <1>2 DEF Distinct, Claims, Claimed, IsKept, InStep, FromBatch, Walk, Apart
<1>3. CASE /\ mpc # "collect" /\ phase = "idle"
           /\ mpc' = "collect" => scan' = [at |-> 1, still |-> <<>>]
           /\ mpc' = "step" => ~Pipelined
  <2>1. Len(gate) \in Nat
    OBVIOUS
  <2>2. \A i \in DOMAIN gate : ~IsKept(i)'
    BY <1>3 DEF IsKept
  <2>3. \A i \in DOMAIN gate : mpc' # "step"
    BY <1>3 DEF Distinct, Claims
  <2>4. Claims'
    BY <2>2, <2>3 DEF Distinct, Claims, Claimed
  <2>5. InStep' /\ FromBatch'
    BY <1>3 DEF InStep, FromBatch
  <2>6. Walk'
    BY <1>3, <2>1 DEF Walk
  <2>7. QED
    BY <1>1, <2>4, <2>5, <2>6 DEF Distinct
<1>4. QED
  BY <1>2, <1>3

\* The end of a step, or an exception: nothing is in hand.
LEMMA LeavesDistinct ==
    ASSUME Distinct, UNCHANGED <<inFlight, gate>>, items' = <<>>, phase' = "idle",
           mpc' \notin {"step", "collect"}
    PROVE  Distinct'
<1>1. Parted'
  BY DEF Distinct, Parted, OneEach, Apart
<1>2. Claims'
  BY DEF Distinct, Claims, Claimed, IsKept
<1>3. InStep' /\ FromBatch' /\ Choosing' /\ Walk'
  BY DEF InStep, FromBatch, Choosing, Walk
<1>4. QED
  BY <1>1, <1>2, <1>3 DEF Distinct

LEMMA ThreadsDistinct ==
    ASSUME AsyncTyped, Distinct,
           \/ \E w \in Workers : WorkerStep(w)
           \/ Deadline \/ MainStep \/ UNCHANGED vars
    PROVE  Distinct'
<1>1. UNCHANGED <<inFlight, phase, todo, items, gate, mpc, scan>>
  BY DEF WorkerStep, WorkerProceeds, Snapshot, CatchUp, LoopTop, PassGate, Look, ProposesSome, Propose,
         RolloutEnds, RolloutRaises, RolloutBreaks, Deadline, MainStep, MainStops, MainJoins, MainEnds,
         vars, engine, aggVars, policy, work, merger
<1>2. QED
  BY <1>1, QuietDistinct DEF AsyncTyped, MergerOK

LEMMA BetweenSweepsDistinct ==
    ASSUME AsyncTyped, Distinct,
           \/ StopSeen \/ DrainEnds \/ TakeIntake \/ NothingLeft \/ NothingToRecord \/ PublishHead
           \/ Record \/ ScoreRaises \/ Recover \/ Breaks \/ GateCards \/ GateRaises
    PROVE  Distinct'
<1>1. UNCHANGED <<inFlight, phase, todo, items, gate>>
  BY DEF StopSeen, DrainEnds, TakeIntake, NothingLeft, NothingToRecord, PublishHead, Record, ScoreRaises,
         Recover, Breaks, GateCards, GateRaises, Forward, Raises, aggVars, ledger, work
<1>2. mpc \in {"top", "after", "score", "error", "gate"} /\ phase = "idle"
  BY DEF StopSeen, DrainEnds, TakeIntake, NothingLeft, NothingToRecord, PublishHead, Record,
         ScoreRaises, Recover, Breaks, GateCards, GateRaises, AsyncTyped, Phased
<1>3. CASE NothingToRecord \/ Record
  <2>1. (mpc' = "collect" => scan' = [at |-> 1, still |-> <<>>]) /\ mpc' # "step"
    BY <1>2, <1>3 DEF NothingToRecord, Record, LeaveSweep, Returns
  <2>2. QED
    BY <1>1, <1>2, <2>1, QuietDistinct DEF AsyncTyped, MergerOK
<1>4. CASE NothingLeft \/ GateCards
  <2>1. scan' = [at |-> 1, still |-> <<>>] /\ (mpc' = "step" => ~Pipelined)
    BY <1>4 DEF NothingLeft, GateCards
  <2>2. QED
    BY <1>1, <1>2, <2>1, QuietDistinct DEF AsyncTyped, MergerOK
<1>5. CASE \/ StopSeen \/ DrainEnds \/ TakeIntake \/ PublishHead \/ ScoreRaises \/ Recover
           \/ Breaks \/ GateRaises
  <2>1. mpc' \notin {"collect", "step"}
    BY <1>2, <1>5 DEF StopSeen, DrainEnds, TakeIntake, PublishHead, ScoreRaises, Recover, Breaks,
                      GateRaises, Raises
  <2>2. QED
    BY <1>1, <1>2, <2>1, QuietDistinct DEF AsyncTyped, MergerOK
<1>6. QED
  BY <1>3, <1>4, <1>5

\* What the merger decides outside a step is of one batch: the others do not share its artifacts.
LEMMA OthersApart ==
    ASSUME AsyncTyped, Distinct, mpc = "collect", phase # "idle",
           NEW i \in DOMAIN gate, i # scan.at
    PROVE  Apart(gate[i].cands, items)
<1>1. scan.at \in DOMAIN gate
  BY DEF Distinct, Walk, AsyncTyped, MergerOK
<1>2. Apart(gate[i].cands, gate[scan.at].cands)
  BY <1>1 DEF Distinct, Parted
<1>3. QED
  BY <1>2 DEF Distinct, FromBatch, Apart

\* A candidate is decided, or its decision raises: its artifact is free.
LEMMA ReleasesDistinct ==
    ASSUME AsyncTyped, Distinct, items # <<>>, phase \in {"decide", "commit"},
           mpc \in {"step", "collect"}, gate' = gate, inFlight' = inFlight \ {InHand.art},
           \/ UNCHANGED <<mpc, scan>> /\ items' = Tail(items) /\ phase' = "decide"
           \/ mpc' = "error" /\ items' = <<>> /\ phase' = "idle"
    PROVE  Distinct'
<1>1. InHand = items[1] /\ 1 \in DOMAIN items
  BY HeadAndTail DEF AsyncTyped, Typed
<1>2. mpc = "step" => gate = <<>>
  BY DEF Distinct, InStep, Claims
<1>3. ASSUME NEW i \in DOMAIN gate, mpc = "step" \/ i # scan.at, Claimed(gate[i].cands)
      PROVE  Claimed(gate[i].cands)'
  <2>1. mpc = "collect" /\ i # scan.at
    BY <1>2, <1>3
  <2>2. Apart(gate[i].cands, items)
    BY <2>1, OthersApart
  <2>3. QED
    BY <1>1, <1>3, <2>2 DEF Claimed, Apart
<1>4. \A i, j \in DOMAIN gate : i # j => Apart(gate[i].cands, gate[j].cands)'
  BY DEF Distinct, Parted, Apart
<1>5. \A i \in DOMAIN gate : OneEach(gate[i].cands)'
  BY DEF Distinct, Parted, OneEach
<1>6. \A i \in DOMAIN gate : mpc = "collect" /\ gate[i].st = "running" => i # scan.at
  BY DEF Distinct, FromBatch
<1>7. CASE mpc' = "error" /\ items' = <<>> /\ phase' = "idle"
  <2>1. Claims'
    BY <1>2, <1>3, <1>6, <1>7 DEF Distinct, Claims, IsKept
  <2>2. Parted' /\ InStep' /\ FromBatch' /\ Choosing' /\ Walk'
    BY <1>4, <1>5, <1>7 DEF Parted, OneEach, InStep, FromBatch, Choosing, Walk
  <2>3. QED
    BY <2>1, <2>2 DEF Distinct
<1>8. CASE UNCHANGED <<mpc, scan>> /\ items' = Tail(items) /\ phase' = "decide"
  <2>1. \A k \in DOMAIN items' : k + 1 \in DOMAIN items /\ items'[k] = items[k + 1] /\ k \in Nat
    BY <1>8, HeadAndTail DEF AsyncTyped, Typed
  <2>2. OneEach(items)'
    BY <2>1 DEF Distinct, Parted, OneEach
  <2>3. \A i \in DOMAIN gate : IsKept(i) => i # scan.at
    BY DEF IsKept, Distinct, Walk, AsyncTyped, MergerOK
  <2>4. Claims'
    BY <1>2, <1>3, <1>6, <1>8, <2>3 DEF Distinct, Claims, IsKept
  <2>5. InStep'
    <3>1. mpc = "step" => ~Pipelined
      BY DEF Distinct, InStep
    <3>2. QED
      BY <1>8, <3>1 DEF InStep
  <2>6. FromBatch'
    BY <1>8, <2>1 DEF Distinct, FromBatch
  <2>7. Choosing' /\ Walk'
    BY <1>8 DEF Distinct, Choosing, Walk
  <2>8. QED
    BY <1>4, <1>5, <2>2, <2>4, <2>5, <2>6, <2>7 DEF Distinct, Parted
<1>9. QED
  BY <1>7, <1>8

LEMMA PhaseDistinct ==
    ASSUME Distinct, UNCHANGED <<inFlight, items, gate, mpc, scan>>, phase # "idle",
           phase' \notin {"idle", "prepare"}, phase' = "prepared" => phase = "prepare",
           phase' \in {"decide", "commit"} /\ mpc = "step" /\ Pipelined => items = <<>>
    PROVE  Distinct'
<1>1. Parted' /\ Claims'
  BY DEF Distinct, Parted, OneEach, Apart, Claims, Claimed, IsKept
<1>2. InStep'
  BY DEF Distinct, InStep, Apart, Claimed
<1>3. FromBatch' /\ Choosing' /\ Walk'
  BY DEF Distinct, FromBatch, Choosing, Walk
<1>4. QED
  BY <1>1, <1>2, <1>3 DEF Distinct

\* A candidate that lost its race is rebased: it stays the candidate of its artifact.
LEMMA RebaseDistinct ==
    ASSUME AsyncTyped, Distinct, Rebase, UNCHANGED <<gate, mpc, scan>>
    PROVE  Distinct'
<1>1. phase = "commit" /\ phase' = "commit" /\ inFlight' = inFlight
      /\ items' = <<Rebased(InHand)>> \o Tail(items)
  BY DEF Rebase
<1>2. items # <<>> /\ InHand = items[1] /\ InHand \in Candidate /\ items \in Seq(Candidate)
  BY <1>1, HeadAndTail DEF AsyncTyped, Typed, CommitBelowBound, WorkOK
<1>3. Rebased(InHand).art = InHand.art
  BY <1>2 DEF Rebased, Candidate
<1> DEFINE r == Rebased(InHand)
<1> HIDE DEF r
<1>4. /\ DOMAIN items' = DOMAIN items
      /\ \A k \in DOMAIN items : items'[k] = IF k = 1 THEN r ELSE items[k]
  <2>1. items' = <<r>> \o Tail(items)
    BY <1>1 DEF r
  <2>2. QED
    BY <1>2, <2>1
<1>5. \A k \in DOMAIN items : items'[k].art = items[k].art
  BY <1>2, <1>3, <1>4 DEF r
<1>6. Parted'
  BY <1>4, <1>5 DEF Distinct, Parted, OneEach, Apart
<1>7. Claims'
  BY <1>1 DEF Distinct, Claims, Claimed, IsKept
<1>8. InStep'
  <2>1. mpc = "step" => ~Pipelined
    BY <1>1, <1>2 DEF Distinct, InStep
  <2>2. QED
    BY <1>1, <2>1 DEF InStep
<1>9. FromBatch'
  BY <1>1, <1>4, <1>5 DEF Distinct, FromBatch
<1>10. Choosing' /\ Walk'
  BY <1>1 DEF Distinct, Choosing, Walk
<1>11. QED
  BY <1>6, <1>7, <1>8, <1>9, <1>10 DEF Distinct

LEMMA FinishesDistinct ==
    ASSUME AsyncTyped, Distinct, Finishes
    PROVE  Distinct'
<1>1. gate' = gate /\ scan' = scan /\ mpc \in {"step", "collect"}
  BY DEF Finishes, Raises, merger
<1>2. CASE FinishRaises /\ \E commits : Raises(commits)
  <2>1. mpc' = "error" /\ items' = <<>> /\ phase' = "idle"
    BY <1>2 DEF FinishRaises, DecideRaises, CommitRaises, PromoteRaises, LeavesDecision, Unwinds, Raises
  <2>2. CASE DecideRaises \/ CommitRaises
    <3>1. items # <<>> /\ phase \in {"decide", "commit"} /\ inFlight' = inFlight \ {InHand.art}
      BY <2>2 DEF DecideRaises, CommitRaises, Land, LeavesDecision, AsyncTyped, Typed, CommitBelowBound
    <3>2. QED
      BY <1>1, <2>1, <3>1, ReleasesDistinct
  <2>3. CASE PromoteRaises
    <3>1. inFlight' = inFlight
      BY <2>3 DEF PromoteRaises
    <3>2. QED
      BY <1>1, <2>1, <3>1, LeavesDistinct
  <2>4. QED
    BY <1>2, <2>2, <2>3 DEF FinishRaises
<1>3. CASE Finishing /\ UNCHANGED merger
  <2>1. mpc' = mpc
    BY <1>3 DEF merger
  <2>2. CASE Reject \/ Commit \/ GiveUp
    <3>1. PICK outcome : Decided(outcome)
      BY <2>2 DEF Reject, Commit, GiveUp
    <3>2. /\ items # <<>> /\ phase \in {"decide", "commit"} /\ inFlight' = inFlight \ {InHand.art}
          /\ items' = Tail(items) /\ phase' = "decide"
      BY <2>2, <3>1 DEF Reject, Commit, Land, GiveUp, Decided, AsyncTyped, Typed, CommitBelowBound
    <3>3. QED
      BY <1>1, <2>1, <3>2, ReleasesDistinct
  <2>3. CASE Rebase
    BY <1>1, <2>1, <2>3, RebaseDistinct
  <2>4. CASE Accept \/ AllDecided \/ Observe \/ \E a \in Artifacts : Promote(a)
    <3>1. /\ UNCHANGED <<inFlight, items>> /\ phase \in {"decide", "observe", "promote"}
          /\ phase' \in {"commit", "observe", "promote"} /\ (phase' = "commit" => phase = "decide")
      BY <2>4 DEF Accept, AllDecided, Observe, Promote
    <3>2. phase' \in {"decide", "commit"} /\ mpc = "step" /\ Pipelined => items = <<>>
      BY <3>1 DEF Distinct, InStep
    <3>3. QED
      BY <1>1, <2>1, <3>1, <3>2, PhaseDistinct
  <2>5. QED
    BY <1>3, <2>2, <2>3, <2>4 DEF Finishing
<1>4. QED
  BY <1>2, <1>3 DEF Finishes, FinishRaises

LEMMA FinishedDistinct ==
    ASSUME AsyncTyped, Distinct, Finished
    PROVE  Distinct'
<1>1. UNCHANGED <<inFlight, gate>> /\ items' = <<>> /\ phase' = "idle" /\ phase = "promote"
  BY DEF Finished, StepReturns, Unwinds
<1>2. CASE mpc = "step"
  <2>1. mpc' = "after"
    BY <1>2 DEF Finished
  <2>2. QED
    BY <1>1, <2>1, LeavesDistinct
<1>3. CASE mpc = "collect"
  <2>1. mpc' = "collect" /\ scan' = [scan EXCEPT !.at = scan.at + 1]
    BY <1>3 DEF Finished
  <2>2. /\ scan'.at = scan.at + 1 /\ scan'.still = scan.still /\ scan.at \in Nat \ {0}
        /\ Len(gate) \in Nat /\ \A n \in DOMAIN scan.still : scan.still[n] \in Nat
    BY <2>1 DEF AsyncTyped, MergerOK
  <2>3. Parted' /\ Claims'
    BY <1>1, <1>3, <2>1, <2>2 DEF Distinct, Parted, OneEach, Apart, Claims, Claimed, IsKept
  <2>4. Walk'
    BY <1>1, <1>3, <2>1, <2>2 DEF Distinct, Walk
  <2>5. InStep' /\ FromBatch' /\ Choosing'
    BY <1>1, <2>1 DEF InStep, FromBatch, Choosing
  <2>6. QED
    BY <2>3, <2>4, <2>5 DEF Distinct
<1>4. QED
  BY <1>2, <1>3 DEF Finished

LEMMA PutForwardDistinct ==
    ASSUME AsyncTyped, Distinct, NEW a \in Artifacts, Prepare(a), UNCHANGED <<gate, mpc, scan>>,
           mpc = "step", NEW i, items' = Append(items, i), i.art = a, inFlight' = inFlight \union {a}
    PROVE  Distinct'
<1>1. phase = "prepare" /\ phase' = "prepare" /\ a \in todo /\ todo' = todo \ {a}
  BY DEF Prepare
<1>2. /\ \A k \in DOMAIN items' : \/ (k \in DOMAIN items /\ items'[k] = items[k])
                                  \/ (k = Len(items) + 1 /\ items'[k] = i)
      /\ Len(items) + 1 \notin DOMAIN items
  BY DEF AsyncTyped, Typed, WorkOK
<1>3. \A k \in DOMAIN items : items[k].art # a
  BY <1>1 DEF Distinct, Choosing
<1>4. \A j \in DOMAIN gate : \A k \in DOMAIN gate[j].cands : gate[j].cands[k].art # a
  <2>1. CASE Pipelined
    BY <1>1, <2>1 DEF Distinct, Choosing, Claims, Claimed
  <2>2. CASE ~Pipelined
    BY <2>2 DEF Distinct, Claims
  <2>3. QED
    BY <2>1, <2>2
<1>5. Parted'
  <2>1. OneEach(items)'
    BY <1>2, <1>3 DEF Distinct, Parted, OneEach
  <2>2. QED
    BY <2>1 DEF Distinct, Parted, OneEach, Apart
<1>6. Claims'
  BY DEF Distinct, Claims, Claimed, IsKept
<1>7. InStep'
  <2>1. \A j \in DOMAIN gate : Apart(gate[j].cands, items)'
    BY <1>1, <1>2, <1>4 DEF Distinct, InStep, Apart
  <2>2. Claimed(items)'
    BY <1>1, <1>2 DEF Distinct, InStep, Claimed
  <2>3. QED
    BY <1>1, <2>1, <2>2 DEF InStep
<1>8. Choosing'
  BY <1>1, <1>2, <1>3 DEF Distinct, Choosing
<1>9. FromBatch' /\ Walk'
  BY DEF FromBatch, Walk
<1>10. QED
  BY <1>5, <1>6, <1>7, <1>8, <1>9 DEF Distinct

LEMMA StepBeginsDistinct ==
    ASSUME AsyncTyped, Distinct, StepBegins
    PROVE  Distinct'
<1>1. UNCHANGED <<gate, mpc, scan>> /\ mpc = "step"
  BY DEF StepBegins, engine, merger
<1>2. CASE BeginStep(SkipInFlight)
  <2>1. inFlight' = inFlight /\ items' = <<>> /\ phase' = "prepare" /\ todo' = Ready \ SkipInFlight
    BY <1>2 DEF BeginStep
  <2>2. Parted' /\ Claims' /\ InStep'
    BY <1>1, <2>1 DEF Distinct, Parted, OneEach, Apart, Claims, Claimed, IsKept, InStep
  <2>3. Choosing' /\ FromBatch' /\ Walk'
    BY <1>1, <2>1 DEF Choosing, FromBatch, Walk, SkipInFlight
  <2>4. QED
    BY <2>2, <2>3 DEF Distinct
<1>3. ASSUME NEW a \in Artifacts, Prepare(a) PROVE Distinct'
  <2>1. CASE Filed(a)
    <3>1. UNCHANGED <<items, inFlight, phase>> /\ phase = "prepare" /\ todo' = todo \ {a}
      BY <1>3, <2>1 DEF Prepare, Filed
    <3>2. Parted' /\ Claims' /\ InStep'
      BY <1>1, <3>1 DEF Distinct, Parted, OneEach, Apart, Claims, Claimed, IsKept, InStep
    <3>3. Choosing' /\ FromBatch' /\ Walk'
      BY <1>1, <3>1 DEF Distinct, Choosing, FromBatch, Walk
    <3>4. QED
      BY <3>2, <3>3 DEF Distinct
  <2>2. ASSUME NEW survivors, NEW chosen, PutForward(a, survivors, chosen) PROVE Distinct'
    <3> DEFINE i == [art |-> a, ver |-> ver[a], content |-> content[a], chosen |-> chosen,
                     cards |-> survivors, tries |-> 0]
    <3>1. items' = Append(items, i) /\ i.art = a /\ inFlight' = inFlight \union {a}
      BY <2>2 DEF PutForward
    <3> HIDE DEF i
    <3>2. QED
      BY <1>1, <1>3, <3>1, PutForwardDistinct
  <2>3. Filed(a) \/ \E survivors, chosen : PutForward(a, survivors, chosen)
    BY <1>3 DEF Prepare
  <2>4. QED
    BY <2>1, <2>2, <2>3
<1>4. CASE Prepared
  <2>1. UNCHANGED <<inFlight, items>> /\ phase = "prepare" /\ phase' = "prepared"
    BY <1>4 DEF Prepared
  <2>2. QED
    BY <1>1, <2>1, PhaseDistinct
<1>5. QED
  BY <1>2, <1>3, <1>4 DEF StepBegins

LEMMA MeasuresDistinct ==
    ASSUME AsyncTyped, Distinct, StepMeasures \/ NothingToScore \/ PrepareFails
    PROVE  Distinct'
<1>1. UNCHANGED <<inFlight, gate>> /\ mpc = "step"
  BY DEF StepMeasures, Measure, MeasureRaises, NothingToScore, PrepareFails, PrepareRaises, Raises, merger
<1>2. CASE \/ StepMeasures /\ Measure /\ UNCHANGED merger
           \/ NothingToScore /\ phase' = "decide" /\ UNCHANGED <<todo, items, reports, mpc>>
  <2>1. /\ UNCHANGED <<items, mpc, scan>> /\ phase = "prepared" /\ phase' = "decide"
        /\ Pipelined => items = <<>>
    BY <1>2 DEF StepMeasures, Measure, NothingToScore, merger
  <2>2. QED
    BY <1>1, <2>1, PhaseDistinct
<1>3. CASE (MeasureRaises /\ Raises(Pending)) \/ PrepareFails \/ (Unwinds /\ mpc' = "after")
  <2>1. items' = <<>> /\ phase' = "idle" /\ mpc' \in {"error", "after"}
    BY <1>3 DEF MeasureRaises, PrepareFails, PrepareRaises, Raises, Unwinds
  <2>2. QED
    BY <1>1, <2>1, LeavesDistinct
<1>4. QED
  BY <1>2, <1>3 DEF StepMeasures, NothingToScore

LEMMA SubmitDistinct ==
    ASSUME AsyncTyped, Distinct, Submit
    PROVE  Distinct'
<1> DEFINE b == [cands |-> items, reports |-> reports, st |-> "running"]
           n == Len(gate) + 1
<1>1. /\ inFlight' = inFlight /\ mpc = "step" /\ mpc' = "after" /\ phase = "prepared" /\ phase' = "idle"
      /\ items' = <<>> /\ gate' = Append(gate, b) /\ Pipelined
  BY DEF Submit, Unwinds
<1>2. b.cands = items
  OBVIOUS
<1>3. gate \in Seq(Batch) /\ b \in Batch
  BY DEF AsyncTyped, MergerOK, Typed, WorkOK, Batch
<1> HIDE DEF b
<1>4. /\ gate'[n] = b /\ \A i \in DOMAIN gate : gate'[i] = gate[i]
      /\ \A i \in DOMAIN gate' : i = n \/ i \in DOMAIN gate
  BY <1>1, <1>3
<1> HIDE DEF n
<1>5. OneEach(items) /\ Claimed(items) /\ \A i \in DOMAIN gate : Apart(gate[i].cands, items)
  BY <1>1 DEF Distinct, Parted, InStep
<1>6. \A i \in DOMAIN gate' : OneEach(gate[i].cands)'
  <2> SUFFICES ASSUME NEW i \in DOMAIN gate' PROVE OneEach(gate[i].cands)'
    OBVIOUS
  <2>1. gate'[i].cands = items \/ (i \in DOMAIN gate /\ gate'[i] = gate[i])
    BY <1>2, <1>4
  <2>2. QED
    BY <1>5, <2>1 DEF Distinct, Parted, OneEach
<1>7. \A i \in DOMAIN gate' : Claimed(gate[i].cands)'
  <2> SUFFICES ASSUME NEW i \in DOMAIN gate' PROVE Claimed(gate[i].cands)'
    OBVIOUS
  <2>1. gate'[i].cands = items \/ (i \in DOMAIN gate /\ gate'[i] = gate[i])
    BY <1>2, <1>4
  <2>2. QED
    BY <1>1, <1>5, <2>1 DEF Distinct, Claims, Claimed
<1>8. \A i, j \in DOMAIN gate' : i # j => Apart(gate[i].cands, gate[j].cands)'
  <2> SUFFICES ASSUME NEW i \in DOMAIN gate', NEW j \in DOMAIN gate', i # j
               PROVE  Apart(gate[i].cands, gate[j].cands)'
    OBVIOUS
  <2>1. CASE i \in DOMAIN gate /\ j \in DOMAIN gate
    BY <1>4, <2>1 DEF Distinct, Parted, Apart
  <2>2. CASE i = n /\ j \in DOMAIN gate
    BY <1>2, <1>4, <1>5, <2>2 DEF Apart
  <2>3. CASE j = n /\ i \in DOMAIN gate
    BY <1>2, <1>4, <1>5, <2>3 DEF Apart
  <2>4. QED
    BY <1>4, <2>1, <2>2, <2>3
<1>9. Parted'
  BY <1>1, <1>6, <1>8 DEF Parted, OneEach
<1>10. Claims'
  BY <1>1, <1>7 DEF Claims
<1>11. InStep' /\ FromBatch' /\ Choosing' /\ Walk'
  BY <1>1 DEF InStep, FromBatch, Choosing, Walk
<1>12. QED
  BY <1>9, <1>10, <1>11 DEF Distinct

LEMMA ScoredDistinct ==
    ASSUME AsyncTyped, Distinct, NEW i \in 1..Len(gate), Scored(i)
    PROVE  Distinct'
<1>1. PICK st \in {"measured", "failed"} : gate' = [gate EXCEPT ![i].st = st]
  BY DEF Scored
<1>2. UNCHANGED <<inFlight, phase, todo, items, mpc, scan>>
  BY DEF Scored, aggVars, work
<1>3. gate \in Seq(Batch) /\ gate[i] \in Batch /\ i \in DOMAIN gate
  <2>1. gate \in Seq(Batch)
    BY DEF AsyncTyped, MergerOK
  <2>2. QED
    BY <2>1
<1> DEFINE b == [gate[i] EXCEPT !.st = st]
<1>4. b.cands = gate[i].cands /\ b.st = st /\ gate' = [gate EXCEPT ![i] = b]
  BY <1>1, <1>3, Rescored DEF Batch
<1> HIDE DEF b
<1>5. /\ Len(gate') = Len(gate) /\ DOMAIN gate' = DOMAIN gate /\ DOMAIN gate = 1..Len(gate)
      /\ \A j \in DOMAIN gate : gate'[j].cands = gate[j].cands
      /\ \A j \in DOMAIN gate : gate'[j].st = "running" => gate[j].st = "running"
      /\ gate = <<>> => gate' = <<>>
  BY <1>3, <1>4
<1>6. Parted' /\ Claims'
  BY <1>2, <1>5 DEF Distinct, Parted, OneEach, Apart, Claims, Claimed, IsKept
<1>7. InStep'
  BY <1>2, <1>5 DEF Distinct, InStep, Apart, Claimed
<1>8. FromBatch'
  <2>1. mpc = "collect" /\ phase # "idle" => scan.at \in DOMAIN gate
    BY <1>3, <1>5 DEF Distinct, Walk, AsyncTyped, MergerOK
  <2>2. QED
    BY <1>2, <1>5, <2>1 DEF Distinct, FromBatch
<1>9. Choosing' /\ Walk'
  BY <1>2, <1>5 DEF Distinct, Choosing, Walk
<1>10. QED
  BY <1>6, <1>7, <1>8, <1>9 DEF Distinct

LEMMA CollectDistinct ==
    ASSUME AsyncTyped, Distinct, SkipRunning \/ CollectMeasured \/ CollectRaises
    PROVE  Distinct'
<1>1. /\ UNCHANGED <<inFlight, todo, gate>> /\ mpc = "collect" /\ phase = "idle"
      /\ scan.at <= Len(gate)
  BY DEF SkipRunning, CollectMeasured, CollectRaises, AtBatch, aggVars, work, engine, merger, Raises
<1>2. /\ scan.at \in Nat \ {0} /\ scan.still \in Seq(Nat) /\ gate \in Seq(Batch)
      /\ DOMAIN gate = 1..Len(gate) /\ Len(gate) \in Nat /\ items = <<>>
      /\ scan.at \in DOMAIN gate
  BY <1>1 DEF AsyncTyped, MergerOK, Phased
<1>3. \A n \in DOMAIN scan.still : scan.still[n] < scan.at /\ scan.still[n] \in Nat
  BY <1>1, <1>2 DEF Distinct, Walk
<1>4. CASE SkipRunning
  <2> DEFINE t == scan.still
             x == scan.at
  <2>1. /\ scan' = [at |-> x + 1, still |-> Append(t, x)] /\ UNCHANGED <<items, phase, mpc>>
        /\ gate[x].st = "running"
    BY <1>4 DEF SkipRunning, aggVars, work
  <2>2. scan'.at = x + 1 /\ scan'.still = Append(t, x)
    BY <2>1
  <2>3. t \in Seq(Nat) /\ x \in Nat /\ \A n \in DOMAIN t : t[n] < x /\ t[n] \in Nat
    BY <1>2, <1>3
  <2>4. \A m, n \in DOMAIN t : t[m] = t[n] => m = n
    BY <1>1 DEF Distinct, Walk
  <2> HIDE DEF t, x
  <2>5. \A n \in DOMAIN Append(t, x) :
            \/ (n \in DOMAIN t /\ Append(t, x)[n] = t[n])
            \/ (n = Len(t) + 1 /\ Append(t, x)[n] = x)
    BY <2>3
  <2>6. Walk'
    <3>1. \A n \in DOMAIN Append(t, x) : Append(t, x)[n] < x + 1
      BY <2>3, <2>5
    <3>2. \A m, n \in DOMAIN Append(t, x) : Append(t, x)[m] = Append(t, x)[n] => m = n
      BY <2>3, <2>4, <2>5
    <3>3. x + 1 <= Len(gate) + 1
      BY <1>1, <1>2 DEF x
    <3>4. QED
      BY <1>1, <2>1, <2>2, <3>1, <3>2, <3>3 DEF Walk
  <2>7. \A i \in DOMAIN gate : IsKept(i)' => IsKept(i) \/ gate[i].st = "running"
    BY <1>1, <2>1, <2>2, <2>5 DEF IsKept, t
  <2>8. Claims'
    BY <1>1, <2>1, <2>7 DEF Distinct, Claims, Claimed
  <2>9. Parted' /\ InStep' /\ FromBatch' /\ Choosing'
    BY <1>1, <2>1 DEF Distinct, Parted, OneEach, Apart, InStep, FromBatch, Choosing
  <2>10. QED
    BY <2>6, <2>8, <2>9 DEF Distinct
<1>5. CASE CollectMeasured
  <2>1. /\ items' = gate[scan.at].cands /\ phase' = "decide" /\ UNCHANGED <<mpc, scan>>
        /\ gate[scan.at].st = "measured"
    BY <1>5 DEF CollectMeasured, engine, merger
  <2>2. OneEach(items)'
    BY <1>2, <2>1 DEF Distinct, Parted, OneEach
  <2>3. Parted' /\ Claims'
    BY <1>1, <2>1, <2>2 DEF Distinct, Parted, OneEach, Apart, Claims, Claimed, IsKept
  <2>4. FromBatch'
    BY <1>1, <2>1 DEF FromBatch
  <2>5. InStep' /\ Choosing' /\ Walk'
    BY <1>1, <2>1 DEF Distinct, InStep, Choosing, Walk
  <2>6. QED
    BY <2>3, <2>4, <2>5 DEF Distinct
<1>6. CASE CollectRaises
  <2>1. UNCHANGED <<items, phase>> /\ mpc' = "error"
    BY <1>6 DEF CollectRaises, Raises, aggVars, work
  <2>2. QED
    BY <1>1, <1>2, <2>1, LeavesDistinct
<1>7. QED
  BY <1>4, <1>5, <1>6

\* gate_inflight keeps what was still running, each batch once.
LEMMA CollectedDistinct ==
    ASSUME AsyncTyped, Distinct, Collected
    PROVE  Distinct'
<1> DEFINE t == scan.still
<1>1. /\ UNCHANGED <<inFlight, todo, items, phase>> /\ mpc = "collect" /\ phase = "idle"
      /\ mpc' \in {"step", "after"} /\ gate' = StillRunning
  BY DEF Collected, aggVars, work
<1>2. /\ t \in Seq(Nat) /\ gate \in Seq(Batch) /\ \A n \in DOMAIN t : t[n] \in DOMAIN gate
      /\ \A m, n \in DOMAIN t : t[m] = t[n] => m = n
  BY <1>1 DEF AsyncTyped, MergerOK, Scanned, Distinct, Walk
<1>3. gate' = [n \in DOMAIN t |-> gate[t[n]]]
  BY <1>1 DEF StillRunning
<1>4. \A n \in DOMAIN t : IsKept(t[n])
  BY <1>1 DEF IsKept
<1> HIDE DEF t
<1>5. /\ DOMAIN gate' = DOMAIN t /\ \A n \in DOMAIN t : gate'[n] = gate[t[n]]
      /\ DOMAIN t = 1..Len(t) /\ Len(t) \in Nat
  BY <1>2, <1>3
<1>6. items' = <<>>
  BY <1>1 DEF AsyncTyped, Phased
<1>7. Parted'
  <2>1. \A n \in DOMAIN t : OneEach(gate[n].cands)'
    BY <1>2, <1>5 DEF Distinct, Parted, OneEach
  <2>2. \A m, n \in DOMAIN t : m # n => Apart(gate[m].cands, gate[n].cands)'
    BY <1>2, <1>5 DEF Distinct, Parted, Apart
  <2>3. QED
    BY <1>5, <1>6, <2>1, <2>2 DEF Parted, OneEach
<1>8. Claims'
  <2>1. \A n \in DOMAIN t : Claimed(gate[n].cands)'
    BY <1>1, <1>2, <1>4, <1>5 DEF Distinct, Claims, Claimed
  <2>2. ~Pipelined => gate' = <<>>
    <3>1. ~Pipelined => DOMAIN t = {}
      BY <1>2 DEF Distinct, Claims
    <3>2. QED
      BY <1>3, <3>1
  <2>3. QED
    BY <1>5, <2>1, <2>2 DEF Claims
<1>9. InStep' /\ FromBatch' /\ Choosing' /\ Walk'
  BY <1>1 DEF InStep, FromBatch, Choosing, Walk
<1>10. QED
  BY <1>7, <1>8, <1>9 DEF Distinct

LEMMA DistinctAlways == Spec => []Distinct
<1>1. Init => Distinct
  <2> SUFFICES ASSUME Init PROVE Distinct
    OBVIOUS
  <2>1. gate = <<>> /\ items = <<>> /\ phase = "idle" /\ mpc = "top"
    BY DEF Init, AggInit
  <2>2. QED
    BY <2>1 DEF Distinct, Parted, OneEach, Apart, Claims, InStep, FromBatch, Choosing, Walk
<1>2. AsyncTyped /\ Distinct /\ [Next]_vars => Distinct'
  <2> SUFFICES ASSUME AsyncTyped, Distinct, [Next]_vars PROVE Distinct'
    OBVIOUS
  <2>1. CASE MergerStep
    BY <2>1, BetweenSweepsDistinct, StepBeginsDistinct, MeasuresDistinct, SubmitDistinct,
       FinishesDistinct, FinishedDistinct, CollectDistinct, CollectedDistinct DEF MergerStep
  <2>2. CASE PoolStep
    BY <2>2, ScoredDistinct DEF PoolStep
  <2>3. QED
    BY <2>1, <2>2, ThreadsDistinct DEF Next, Ended
<1>3. QED
  BY <1>1, <1>2, AsyncTypedAlways, PTL DEF Spec

(***************************************************************************)
(* No conflicts                                                            *)
(***************************************************************************)
\* A candidate is built on the head that dev has, or dev holds its diff already: then its batch was
\* decided before, in a sweep that raised later.
Fits(cands) ==
    \A k \in DOMAIN cands : \/ cands[k].ver = ver[cands[k].art]
                            \/ cands[k].chosen \subseteq content[cands[k].art]

\* _collect_gate decides the candidates of the batch it has come to.
SameDiffs ==
    mpc = "collect" /\ phase # "idle" =>
        \A k \in DOMAIN items : \E l \in DOMAIN gate[scan.at].cands :
            /\ items[k].art = gate[scan.at].cands[l].art
            /\ items[k].chosen = gate[scan.at].cands[l].chosen

Fitting == Fits(items) /\ (\A i \in DOMAIN gate : Fits(gate[i].cands)) /\ SameDiffs

LEMMA QuietFitting ==
    ASSUME Fitting, UNCHANGED <<ver, content, gate>>,
           items' = items \/ items' = <<>>,
           mpc' = "collect" /\ phase' # "idle" =>
              /\ mpc = "collect" /\ phase # "idle" /\ scan'.at = scan.at
    PROVE  Fitting'
<1>1. Fits(items)' /\ \A i \in DOMAIN gate' : Fits(gate[i].cands)'
  BY DEF Fitting, Fits
<1>2. SameDiffs'
  BY DEF Fitting, SameDiffs
<1>3. QED
  BY <1>1, <1>2 DEF Fitting

\* A decision that takes the candidate in hand off its batch, without a commit.
LEMMA ShrinksFitting ==
    ASSUME AsyncTyped, Fitting, UNCHANGED <<ver, content, gate, mpc, scan>>, phase # "idle",
           items # <<>>, items' = Tail(items)
    PROVE  Fitting'
<1>1. \A k \in DOMAIN items' : k + 1 \in DOMAIN items /\ items'[k] = items[k + 1]
  BY HeadAndTail DEF AsyncTyped, Typed
<1>2. Fits(items)' /\ \A i \in DOMAIN gate' : Fits(gate[i].cands)'
  BY <1>1 DEF Fitting, Fits
<1>3. SameDiffs'
  BY <1>1 DEF Fitting, SameDiffs
<1>4. QED
  BY <1>2, <1>3 DEF Fitting

\* A commit moves the head of one artifact. Who else has a candidate for it? Only the batch that is
\* being decided, and that one is the candidate that has just landed.
LEMMA LandFitting ==
    ASSUME AsyncTyped, Distinct, Fitting, Land, gate' = gate, mpc \in {"step", "collect"},
           \/ UNCHANGED <<mpc, scan>> /\ items' = Tail(items)
           \/ mpc' = "error" /\ items' = <<>>
    PROVE  Fitting'
<1> DEFINE a == InHand.art
<1>1. /\ phase = "commit" /\ items # <<>> /\ InHand = items[1] /\ 1 \in DOMAIN items
      /\ InHand \in Candidate
  BY HeadAndTail DEF Land, AsyncTyped, Typed, CommitBelowBound
<1>2. /\ a \in Artifacts /\ InHand.chosen \subseteq content'[a]
      /\ \A b \in Artifacts \ {a} : ver'[b] = ver[b] /\ content'[b] = content[b]
  BY <1>1 DEF Land, Candidates, Candidate, AsyncTyped, Typed, LedgerOK
<1>3. ASSUME NEW cands, Fits(cands), \A k \in DOMAIN cands : cands[k].art \in Artifacts,
             \A k \in DOMAIN cands : cands[k].art = a => cands[k].chosen = InHand.chosen
      PROVE  \A k \in DOMAIN cands : \/ cands[k].ver = ver'[cands[k].art]
                                     \/ cands[k].chosen \subseteq content'[cands[k].art]
  BY <1>2, <1>3 DEF Fits
<1>4. \A k \in DOMAIN items : items[k] \in Candidate /\ (items[k].art = a => items[k] = InHand)
  <2>1. OneEach(items)
    BY DEF Distinct, Parted
  <2>2. \A k \in DOMAIN items : items[k] \in Candidate
    BY DEF AsyncTyped, Typed, WorkOK
  <2>3. QED
    BY <1>1, <2>1, <2>2 DEF OneEach
<1>5. \A i \in DOMAIN gate : \A k \in DOMAIN gate[i].cands : gate[i].cands[k].art \in Artifacts
  <2> SUFFICES ASSUME NEW i \in DOMAIN gate, NEW k \in DOMAIN gate[i].cands
               PROVE  gate[i].cands[k].art \in Artifacts
    OBVIOUS
  <2>1. gate \in Seq(Batch)
    BY DEF AsyncTyped, MergerOK
  <2>2. gate[i] \in Batch /\ gate[i].cands \in Seq(Candidate)
    <3>1. gate[i] \in Batch
      BY <2>1
    <3>2. QED
      BY <3>1 DEF Batch
  <2>3. gate[i].cands[k] \in Candidate
    BY <2>2
  <2>4. QED
    BY <2>3 DEF Candidate
<1>6. \A i \in DOMAIN gate : \A k \in DOMAIN gate[i].cands :
         gate[i].cands[k].art = a => gate[i].cands[k].chosen = InHand.chosen
  <2> SUFFICES ASSUME NEW i \in DOMAIN gate, NEW k \in DOMAIN gate[i].cands, gate[i].cands[k].art = a
               PROVE  gate[i].cands[k].chosen = InHand.chosen
    OBVIOUS
  <2>1. mpc = "collect"
    <3>1. mpc = "step" => gate = <<>>
      BY <1>1 DEF Distinct, InStep, Claims
    <3>2. QED
      BY <3>1
  <2>2. i = scan.at
    <3>1. i # scan.at => Apart(gate[i].cands, items)
      BY <1>1, <2>1, OthersApart
    <3>2. QED
      BY <1>1, <3>1 DEF Apart
  <2>3. PICK l \in DOMAIN gate[i].cands :
           items[1].art = gate[i].cands[l].art /\ items[1].chosen = gate[i].cands[l].chosen
    BY <1>1, <2>1, <2>2 DEF Fitting, SameDiffs
  <2>4. OneEach(gate[i].cands)
    BY DEF Distinct, Parted
  <2>5. k = l
    BY <1>1, <2>3, <2>4 DEF OneEach
  <2>6. QED
    BY <1>1, <2>3, <2>5
<1>7. \A i \in DOMAIN gate' : Fits(gate[i].cands)'
  <2> SUFFICES ASSUME NEW i \in DOMAIN gate PROVE Fits(gate[i].cands)'
    OBVIOUS
  <2>1. Fits(gate[i].cands)
    BY DEF Fitting
  <2>2. QED
    BY <1>3, <1>5, <1>6, <2>1 DEF Fits
<1>8. CASE UNCHANGED <<mpc, scan>> /\ items' = Tail(items)
  <2>1. \A k \in DOMAIN items' : k + 1 \in DOMAIN items /\ items'[k] = items[k + 1]
    BY <1>1, <1>8, HeadAndTail DEF AsyncTyped, Typed
  <2>2. \A k \in DOMAIN items : \/ items[k].ver = ver'[items[k].art]
                                \/ items[k].chosen \subseteq content'[items[k].art]
    <3>1. \A k \in DOMAIN items : items[k].art \in Artifacts
      BY <1>4 DEF Candidate
    <3>2. QED
      BY <1>3, <1>4, <3>1 DEF Fitting
  <2>3. Fits(items)'
    BY <2>1, <2>2 DEF Fits
  <2>4. SameDiffs'
    BY <1>1, <1>8, <2>1 DEF Fitting, SameDiffs
  <2>5. QED
    BY <1>7, <2>3, <2>4 DEF Fitting
<1>9. CASE mpc' = "error" /\ items' = <<>>
  <2>1. Fits(items)' /\ SameDiffs'
    BY <1>9 DEF Fits, SameDiffs
  <2>2. QED
    BY <1>7, <2>1 DEF Fitting
<1>10. QED
  BY <1>8, <1>9

\* Whoever loses the compare-and-swap finds its diff in dev: nothing is rebased.
LEMMA NobodyRebases ==
    ASSUME AsyncTyped, Fitting, Rebase
    PROVE  FALSE
<1>1. 1 \in DOMAIN items /\ InHand = items[1]
  BY HeadAndTail DEF Rebase, AsyncTyped, Typed, CommitBelowBound
<1>2. QED
  BY <1>1 DEF Rebase, CanRebase, CasHolds, Fitting, Fits

LEMMA FinishesFitting ==
    ASSUME AsyncTyped, Distinct, Fitting, Finishes
    PROVE  Fitting'
<1>1. gate' = gate /\ scan' = scan /\ mpc \in {"step", "collect"}
  BY DEF Finishes, Raises, merger
<1>2. CASE Reject \/ GiveUp
  <2>1. /\ items # <<>> /\ items' = Tail(items) /\ phase # "idle" /\ UNCHANGED <<ver, content>>
    BY <1>2 DEF Reject, GiveUp, Decided, ledger, AsyncTyped, Typed, CommitBelowBound
  <2>2. mpc' = mpc
    BY <1>2 DEF Finishes, merger, Reject, GiveUp, DecideRaises, CommitRaises, PromoteRaises,
                LeavesDecision, Decided, Unwinds
  <2>3. QED
    BY <1>1, <2>1, <2>2, ShrinksFitting
<1>3. CASE Commit /\ UNCHANGED merger
  BY <1>1, <1>3, LandFitting DEF Commit, Decided, merger
<1>4. CASE CommitRaises /\ Raises(Pending \union {InHand.art})
  BY <1>1, <1>4, LandFitting DEF CommitRaises, LeavesDecision, Unwinds, Raises
<1>5. CASE (DecideRaises \/ PromoteRaises) /\ Raises(Pending)
  <2>1. UNCHANGED <<ver, content>> /\ items' = <<>> /\ phase' = "idle"
    BY <1>5 DEF DecideRaises, PromoteRaises, LeavesDecision, Unwinds, ledger
  <2>2. QED
    BY <1>1, <2>1, QuietFitting
<1>6. CASE (Accept \/ AllDecided \/ Observe \/ \E a \in Artifacts : Promote(a)) /\ UNCHANGED merger
  <2>1. UNCHANGED <<ver, content, items, mpc>> /\ phase # "idle"
    BY <1>6 DEF Accept, AllDecided, Observe, Promote, ledger, merger
  <2>2. QED
    BY <1>1, <2>1, QuietFitting
<1>7. QED
  BY <1>2, <1>3, <1>4, <1>5, <1>6, NobodyRebases DEF Finishes, Finishing

LEMMA StepBeginsFitting ==
    ASSUME AsyncTyped, Fitting, StepBegins
    PROVE  Fitting'
<1>1. UNCHANGED <<ver, content, gate, mpc, scan>> /\ mpc = "step"
  BY DEF StepBegins, BeginStep, Prepare, Prepared, engine, merger, ledger
<1>2. CASE BeginStep(SkipInFlight) \/ Prepared
  <2>1. items' = items \/ items' = <<>>
    BY <1>2 DEF BeginStep, Prepared
  <2>2. QED
    BY <1>1, <2>1, QuietFitting
<1>3. ASSUME NEW a \in Artifacts, Prepare(a) PROVE Fitting'
  <2>1. CASE Filed(a)
    BY <1>1, <2>1, QuietFitting DEF Filed
  <2>2. ASSUME NEW survivors, NEW chosen, PutForward(a, survivors, chosen) PROVE Fitting'
    <3> DEFINE i == [art |-> a, ver |-> ver[a], content |-> content[a], chosen |-> chosen,
                     cards |-> survivors, tries |-> 0]
    <3>1. items' = Append(items, i) /\ i.art = a /\ i.ver = ver[a]
      BY <2>2 DEF PutForward
    <3> HIDE DEF i
    <3>2. \A k \in DOMAIN items' : items'[k] = i \/ (k \in DOMAIN items /\ items'[k] = items[k])
      BY <3>1 DEF AsyncTyped, Typed, WorkOK
    <3>3. Fits(items)'
      BY <1>1, <3>1, <3>2 DEF Fitting, Fits
    <3>4. QED
      BY <1>1, <3>3 DEF Fitting, Fits, SameDiffs
  <2>3. Filed(a) \/ \E survivors, chosen : PutForward(a, survivors, chosen)
    BY <1>3 DEF Prepare
  <2>4. QED
    BY <2>1, <2>2, <2>3
<1>4. QED
  BY <1>2, <1>3 DEF StepBegins

LEMMA SubmitFitting ==
    ASSUME AsyncTyped, Fitting, Submit
    PROVE  Fitting'
<1> DEFINE b == [cands |-> items, reports |-> reports, st |-> "running"]
           n == Len(gate) + 1
<1>1. UNCHANGED <<ver, content>> /\ mpc' = "after" /\ items' = <<>> /\ gate' = Append(gate, b)
  BY DEF Submit, Unwinds, ledger
<1>2. b.cands = items
  OBVIOUS
<1>3. gate \in Seq(Batch) /\ b \in Batch
  BY DEF AsyncTyped, MergerOK, Typed, WorkOK, Batch
<1> HIDE DEF b
<1>4. \A i \in DOMAIN gate' : gate'[i] = b \/ (i \in DOMAIN gate /\ gate'[i] = gate[i])
  BY <1>1, <1>3
<1>5. \A i \in DOMAIN gate' : Fits(gate[i].cands)'
  BY <1>1, <1>2, <1>4 DEF Fitting, Fits
<1>6. QED
  BY <1>1, <1>5 DEF Fitting, Fits, SameDiffs

LEMMA ScoredFitting ==
    ASSUME AsyncTyped, Distinct, Fitting, NEW i \in 1..Len(gate), Scored(i)
    PROVE  Fitting'
<1>1. PICK st \in {"measured", "failed"} : gate' = [gate EXCEPT ![i].st = st]
  BY DEF Scored
<1>2. UNCHANGED <<ver, content, phase, items, mpc, scan>>
  BY DEF Scored, aggVars, work, ledger
<1>3. gate \in Seq(Batch) /\ gate[i] \in Batch /\ i \in DOMAIN gate
  <2>1. gate \in Seq(Batch)
    BY DEF AsyncTyped, MergerOK
  <2>2. QED
    BY <2>1
<1> DEFINE b == [gate[i] EXCEPT !.st = st]
<1>4. b.cands = gate[i].cands /\ gate' = [gate EXCEPT ![i] = b]
  BY <1>1, <1>3, Rescored DEF Batch
<1> HIDE DEF b
<1>5. DOMAIN gate' = DOMAIN gate /\ \A j \in DOMAIN gate : gate'[j].cands = gate[j].cands
  BY <1>3, <1>4
<1>6. mpc = "collect" /\ phase # "idle" => scan.at \in DOMAIN gate
  BY <1>3 DEF Distinct, Walk, AsyncTyped, MergerOK
<1>7. \A j \in DOMAIN gate' : Fits(gate[j].cands)'
  BY <1>2, <1>5 DEF Fitting, Fits
<1>8. SameDiffs'
  BY <1>2, <1>5, <1>6 DEF Fitting, SameDiffs
<1>9. QED
  BY <1>2, <1>7, <1>8 DEF Fitting, Fits

LEMMA CollectsFitting ==
    ASSUME AsyncTyped, Fitting, SkipRunning \/ CollectMeasured \/ Collected
    PROVE  Fitting'
<1>1. UNCHANGED <<ver, content>> /\ mpc = "collect" /\ phase = "idle"
  BY DEF SkipRunning, CollectMeasured, AtBatch, Collected, aggVars, ledger
<1>2. CASE SkipRunning
  <2>1. UNCHANGED <<items, phase, gate>>
    BY <1>2 DEF SkipRunning, aggVars, work
  <2>2. QED
    BY <1>1, <1>2, <2>1, QuietFitting
<1>3. CASE CollectMeasured
  <2>1. items' = gate[scan.at].cands /\ UNCHANGED <<gate, scan>> /\ scan.at \in DOMAIN gate
    BY <1>3 DEF CollectMeasured, AtBatch, engine, merger, AsyncTyped, MergerOK
  <2>2. Fits(items)' /\ SameDiffs' /\ \A i \in DOMAIN gate' : Fits(gate[i].cands)'
    BY <1>1, <2>1 DEF Fitting, Fits, SameDiffs
  <2>3. QED
    BY <2>2 DEF Fitting
<1>4. CASE Collected
  <2> DEFINE t == scan.still
  <2>1. UNCHANGED <<items, phase>> /\ gate' = StillRunning
    BY <1>4 DEF Collected, aggVars, work
  <2>2. gate' = [n \in DOMAIN t |-> gate[t[n]]]
    BY <2>1 DEF StillRunning
  <2>3. t \in Seq(Nat) /\ gate \in Seq(Batch) /\ \A n \in DOMAIN t : t[n] \in DOMAIN gate
    BY <1>1 DEF AsyncTyped, MergerOK, Scanned
  <2> HIDE DEF t
  <2>4. \A n \in DOMAIN gate' : Fits(gate[n].cands)'
    BY <1>1, <2>2, <2>3 DEF Fitting, Fits
  <2>5. QED
    BY <1>1, <2>1, <2>4 DEF Fitting, Fits, SameDiffs
<1>5. QED
  BY <1>2, <1>3, <1>4

LEMMA FittingAlways == Spec => []Fitting
<1>1. Init => Fitting
  BY DEF Init, AggInit, Fitting, Fits, SameDiffs
<1>2. AsyncTyped /\ Distinct /\ Fitting /\ [Next]_vars => Fitting'
  <2> SUFFICES ASSUME AsyncTyped, Distinct, Fitting, [Next]_vars PROVE Fitting'
    OBVIOUS
  <2>1. CASE StepBegins \/ Submit \/ Finishes \/ SkipRunning \/ CollectMeasured \/ Collected \/ PoolStep
    BY <2>1, StepBeginsFitting, SubmitFitting, FinishesFitting, CollectsFitting, ScoredFitting
    DEF PoolStep
  <2>2. CASE StepMeasures \/ NothingToScore \/ PrepareFails \/ Finished \/ CollectRaises
    <3>1. UNCHANGED <<ver, content, gate>> /\ (items' = items \/ items' = <<>>)
      BY <2>2 DEF StepMeasures, Measure, MeasureRaises, NothingToScore, PrepareFails, PrepareRaises,
         Finished, StepReturns, CollectRaises, Unwinds, Raises, aggVars, ledger, work, merger
    <3>2. mpc' = "collect" => phase' = "idle"
      BY <2>2 DEF StepMeasures, Measure, MeasureRaises, NothingToScore, PrepareFails, PrepareRaises,
         Finished, StepReturns, CollectRaises, Unwinds, Raises, merger
    <3>3. QED
      BY <3>1, <3>2, QuietFitting
  <2>3. CASE \/ StopSeen \/ DrainEnds \/ TakeIntake \/ NothingLeft \/ NothingToRecord \/ PublishHead
             \/ Record \/ ScoreRaises \/ Recover \/ Breaks \/ GateCards \/ GateRaises
    <3>1. UNCHANGED <<ver, content, gate, items, phase>>
      BY <2>3 DEF StopSeen, DrainEnds, TakeIntake, NothingLeft, NothingToRecord, PublishHead, Record,
         ScoreRaises, Recover, Breaks, GateCards, GateRaises, Forward, Raises, aggVars, ledger, work
    <3>2. phase = "idle"
      BY <2>3 DEF StopSeen, DrainEnds, TakeIntake, NothingLeft, NothingToRecord, PublishHead, Record,
         ScoreRaises, Recover, Breaks, GateCards, GateRaises, AsyncTyped, Phased
    <3>3. QED
      BY <3>1, <3>2, QuietFitting
  <2>4. CASE \/ \E w \in Workers : WorkerStep(w)
             \/ Deadline \/ MainStep \/ UNCHANGED vars
    <3>1. UNCHANGED <<ver, content, gate, items, phase, mpc, scan>>
      BY <2>4 DEF WorkerStep, WorkerProceeds, Snapshot, CatchUp, LoopTop, PassGate, Look, ProposesSome,
         Propose, RolloutEnds, RolloutRaises, RolloutBreaks, Deadline, MainStep, MainStops, MainJoins,
         MainEnds, vars, engine, aggVars, policy, work, merger, ledger
    <3>2. QED
      BY <3>1, QuietFitting
  <2>5. QED
    BY <2>1, <2>2, <2>3, <2>4 DEF Next, Ended, MergerStep
<1>3. QED
  BY <1>1, <1>2, DistinctAlways, AsyncTypedAlways, PTL DEF Spec

\* A candidate of the engine meets no foreign commit, however long it was out and whatever raises
\* meanwhile: it commits against the head it was measured on, or dev holds its diff already.
THEOREM NeverConflicts == Spec => []NoConflicts
<1>1. AsyncTyped /\ Fitting => NoConflicts
  <2> SUFFICES ASSUME AsyncTyped, Fitting, phase = "commit"
               PROVE  CasHolds(InHand) \/ InHand.chosen \subseteq content[InHand.art]
    BY DEF NoConflicts
  <2>1. 1 \in DOMAIN items /\ InHand = items[1]
    BY HeadAndTail DEF AsyncTyped, Typed, CommitBelowBound
  <2>2. QED
    BY <2>1 DEF Fitting, Fits, CasHolds
<1>2. QED
  BY <1>1, FittingAlways, AsyncTypedAlways, PTL

(***************************************************************************)
(* The history of commits                                                  *)
(***************************************************************************)
InBooks ==
    \A a \in Artifacts : recorded[a] + unrecorded[a] + (IF a \in Pending THEN 1 ELSE 0) = ver[a]

Undecided(cands) == \A k \in DOMAIN cands : cands[k].art \notin Pending

\* A sweep commits an artifact at most once: a round accounts for one commit of each.
OncePerSweep ==
    /\ phase \in {"decide", "commit"} => Undecided(items)
    /\ mpc = "collect" => \A i \in Live : Undecided(gate[i].cands)

\* What a sweep has reported, by where it is.
Reporting ==
    /\ mpc = "step" /\ phase \in {"idle", "prepare", "prepared"} => Pipelined \/ sweep.reports = {}
    /\ mpc \in {"top", "done", "gate", "error"} => sweep.reports = {}
    /\ mpc = "collect" /\ scan.at = 1 /\ phase = "idle" => sweep.reports = {}

Balanced == InBooks /\ OncePerSweep /\ Reporting

\* A sweep left by an exception: its commits are accounted for, the one just made among them.
LEMMA AbandonsBalanced ==
    ASSUME AsyncTyped, AsyncTyped', InBooks, NEW commits, Abandons(commits), phase' = "idle",
           mpc' \in {"error", "done"},
           \A a \in Artifacts : ver'[a] + (IF a \in Pending THEN 1 ELSE 0)
                                    = ver[a] + (IF a \in commits THEN 1 ELSE 0)
    PROVE  Balanced'
<1>1. Pending' = {} /\ sweep'.reports = {}
  BY DEF Abandons, NewSweep, Pending, AsyncTyped, Phased
<1>2. ASSUME NEW a \in Artifacts
      PROVE  recorded'[a] + unrecorded'[a] + (IF a \in Pending' THEN 1 ELSE 0) = ver'[a]
  <2>1. /\ recorded'[a] = recorded[a] /\ recorded[a] \in Nat /\ unrecorded[a] \in Nat
        /\ unrecorded'[a] = unrecorded[a] + (IF a \in commits THEN 1 ELSE 0)
    BY DEF Abandons, AsyncTyped, MergerOK
  <2>2. ver[a] \in Int /\ ver'[a] \in Int
    BY AggregatorAssumption DEF AsyncTyped, Typed, LedgerOK, Versions
  <2>3. recorded[a] + unrecorded[a] + (IF a \in Pending THEN 1 ELSE 0) = ver[a]
    BY DEF InBooks
  <2>4. a \notin Pending'
    BY <1>1
  <2>5. ver'[a] + (IF a \in Pending THEN 1 ELSE 0) = ver[a] + (IF a \in commits THEN 1 ELSE 0)
    OBVIOUS
  <2> HIDE DEF Pending
  <2>6. QED
    BY <2>1, <2>2, <2>3, <2>4, <2>5
<1>3. OncePerSweep' /\ Reporting'
  BY <1>1 DEF OncePerSweep, Reporting
<1>4. QED
  BY <1>2, <1>3 DEF Balanced, InBooks

LEMMA QuietBalanced ==
    ASSUME Balanced, UNCHANGED <<ver, books, sweep, reports, phase, items, mpc, scan>>,
           Len(gate') = Len(gate), \A i \in 1..Len(gate) : gate'[i].cands = gate[i].cands
    PROVE  Balanced'
<1>1. Live' = Live /\ Pending' = Pending
  BY DEF Live, Pending
<1>2. \A i \in Live : gate'[i].cands = gate[i].cands
  BY DEF Live
<1>3. QED
  BY <1>1, <1>2 DEF Balanced, InBooks, OncePerSweep, Undecided, Reporting, books

LEMMA ThreadsBalanced ==
    ASSUME Balanced,
           \/ \E w \in Workers : WorkerStep(w)
           \/ Deadline \/ MainStep \/ UNCHANGED vars \/ StopSeen \/ DrainEnds
    PROVE  Balanced'
<1>1. UNCHANGED <<ver, books, sweep, reports, phase, items, gate, mpc, scan>>
  BY DEF WorkerStep, WorkerProceeds, Snapshot, CatchUp, LoopTop, PassGate, Look, ProposesSome, Propose,
         RolloutEnds, RolloutRaises, RolloutBreaks, Deadline, MainStep, MainStops, MainJoins, MainEnds,
         StopSeen, DrainEnds, vars, engine, aggVars, ledger, work, merger
<1>2. QED
  BY <1>1, QuietBalanced

LEMMA ScoredBalanced ==
    ASSUME AsyncTyped, Balanced, NEW i \in 1..Len(gate), Scored(i)
    PROVE  Balanced'
<1>1. UNCHANGED <<ver, books, sweep, reports, phase, items, mpc, scan>>
  BY DEF Scored, aggVars, ledger, work
<1>2. PICK st \in {"running", "measured", "failed"} : gate' = [gate EXCEPT ![i].st = st]
  BY DEF Scored
<1>3. gate \in Seq(Batch) /\ gate[i] \in Batch /\ i \in DOMAIN gate
  <2>1. gate \in Seq(Batch)
    BY DEF AsyncTyped, MergerOK
  <2>2. QED
    BY <2>1
<1> DEFINE b == [gate[i] EXCEPT !.st = st]
<1>4. b.cands = gate[i].cands /\ gate' = [gate EXCEPT ![i] = b]
  BY <1>2, <1>3, Rescored DEF Batch
<1> HIDE DEF b
<1>5. Len(gate') = Len(gate) /\ \A j \in 1..Len(gate) : gate'[j].cands = gate[j].cands
  BY <1>3, <1>4
<1>6. QED
  BY <1>1, <1>5, QuietBalanced

\* Nothing to account for: before a sweep has decided, and after its round is recorded.
LEMMA PlainBalanced ==
    ASSUME UNCHANGED <<ver, books>>, InBooks, Pending = {}, Pending' = {}, Reporting'
    PROVE  Balanced'
BY DEF Balanced, InBooks, OncePerSweep, Undecided, books

\* The merger outside the aggregator's step.
LEMMA BetweenSweepsBalanced ==
    ASSUME AsyncTyped, AsyncTyped', Balanced,
           \/ TakeIntake \/ NothingLeft \/ NothingToRecord \/ PublishHead \/ ScoreRaises \/ Recover
           \/ Breaks \/ GateCards \/ GateRaises
    PROVE  Balanced'
<1>1. /\ UNCHANGED <<ver, phase, reports, items, gate>>
      /\ mpc \in {"top", "after", "score", "error", "gate"}
  BY DEF TakeIntake, NothingLeft, NothingToRecord, PublishHead, ScoreRaises, Recover, Breaks, GateCards,
         GateRaises, Forward, Raises, aggVars, ledger, work
<1>2. phase = "idle" /\ reports = {} /\ reports' = {}
  BY <1>1 DEF AsyncTyped, Phased
<1>3. Pending = {a \in Artifacts : CommitOf(a) \in sweep.reports}
      /\ Pending' = {a \in Artifacts : CommitOf(a) \in sweep'.reports}
  BY <1>1, <1>2 DEF Pending
<1>4. CASE PublishHead
  <2>1. UNCHANGED <<sweep, books>> /\ mpc' = "score"
    BY <1>4 DEF PublishHead
  <2>2. QED
    BY <1>1, <1>2, <1>3, <2>1 DEF Balanced, InBooks, OncePerSweep, Reporting, books
<1>5. CASE TakeIntake \/ NothingLeft \/ GateCards \/ NothingToRecord \/ Recover
  <2>1. sweep.reports = {}
    <3>1. mpc \in {"top", "gate", "error"} \/ (NothingToRecord /\ IdlePoll)
      BY <1>5 DEF TakeIntake, NothingLeft, GateCards, NothingToRecord, Recover
    <3>2. QED
      BY <3>1 DEF IdlePoll, Balanced, Reporting
  <2>2. sweep'.reports = {} /\ UNCHANGED books
    BY <1>5, <2>1 DEF TakeIntake, NothingLeft, GateCards, NothingToRecord, Recover, NewSweep, books
  <2>3. Pending = {} /\ Pending' = {}
    BY <1>3, <2>1, <2>2
  <2>4. Reporting'
    BY <2>2 DEF Reporting
  <2>5. QED
    BY <1>1, <2>2, <2>3, <2>4, PlainBalanced DEF Balanced
<1>6. CASE GateRaises \/ ScoreRaises \/ Breaks
  <2>1. Abandons(Pending) /\ mpc' \in {"error", "done"}
    BY <1>6 DEF GateRaises, ScoreRaises, Breaks, Raises
  <2>2. QED
    BY <1>1, <1>2, <2>1, AbandonsBalanced DEF Balanced
<1>7. QED
  BY <1>4, <1>5, <1>6

LEMMA RecordBalanced ==
    ASSUME AsyncTyped, Balanced, Record
    PROVE  Balanced'
<1>1. /\ UNCHANGED <<ver, phase, reports, items, gate>> /\ mpc = "score" /\ LeaveSweep
      /\ sweep' = [cards |-> FALSE, reports |-> {}] /\ UNCHANGED unrecorded
      /\ recorded' = [a \in Artifacts |-> recorded[a] + (IF a \in Commits THEN 1 ELSE 0)]
  BY DEF Record, NewSweep, aggVars, ledger, work
<1>2. phase = "idle" /\ reports = {}
  BY <1>1 DEF AsyncTyped, Phased
<1>3. Pending = Commits /\ Pending' = {}
  BY <1>1, <1>2 DEF Pending, Commits
<1>4. InBooks'
  <2> SUFFICES ASSUME NEW a \in Artifacts PROVE recorded'[a] + unrecorded[a] + 0 = ver[a]
    BY <1>1, <1>3 DEF InBooks
  <2>1. /\ recorded[a] \in Nat /\ unrecorded[a] \in Nat
        /\ recorded'[a] = recorded[a] + (IF a \in Commits THEN 1 ELSE 0)
    BY <1>1 DEF AsyncTyped, MergerOK
  <2>2. recorded[a] + unrecorded[a] + (IF a \in Commits THEN 1 ELSE 0) = ver[a]
    BY <1>3 DEF Balanced, InBooks
  <2>3. QED
    BY <2>1, <2>2
<1>5. mpc' \in {"top", "done", "collect"}
  BY <1>1 DEF LeaveSweep, Returns
<1>6. Reporting'
  BY <1>1, <1>2, <1>5 DEF Reporting
<1>7. OncePerSweep'
  BY <1>3 DEF OncePerSweep, Undecided
<1>8. QED
  BY <1>4, <1>6, <1>7 DEF Balanced

LEMMA StepBeginsBalanced ==
    ASSUME AsyncTyped, AsyncTyped', Balanced, StepBegins
    PROVE  Balanced'
<1>1. /\ UNCHANGED <<ver, recorded, unrecorded, sweep, mpc, gate, scan>> /\ mpc = "step"
      /\ phase' \in {"prepare", "prepared"} /\ phase \in {"idle", "prepare"}
  BY DEF StepBegins, BeginStep, Prepare, Prepared, ledger, engine, merger, books
<1>2. PlainReports(reports) /\ PlainReports(reports')
  BY <1>1 DEF AsyncTyped, Phased, PlainReports
<1>3. Pending' = Pending
  BY <1>1, <1>2 DEF Pending, PlainReports
<1>4. QED
  BY <1>1, <1>3 DEF Balanced, InBooks, OncePerSweep, Reporting

LEMMA MeasuresBalanced ==
    ASSUME AsyncTyped, AsyncTyped', Balanced, StepMeasures \/ PrepareFails
    PROVE  Balanced'
<1>1. ver' = ver /\ mpc = "step"
  BY DEF StepMeasures, Measure, MeasureRaises, PrepareFails, PrepareRaises, ledger
<1>2. CASE StepMeasures /\ Measure /\ UNCHANGED merger
  <2>1. /\ UNCHANGED <<books, sweep, reports>> /\ ~Pipelined
        /\ mpc' = "step" /\ phase = "prepared" /\ phase' = "decide"
    BY <1>1, <1>2 DEF StepMeasures, Measure, merger
  <2>2. sweep.reports = {} /\ PlainReports(reports)
    BY <1>1, <2>1 DEF Balanced, Reporting, AsyncTyped, Phased
  <2>3. Pending = {} /\ Pending' = {}
    BY <2>1, <2>2 DEF Pending, PlainReports
  <2>4. Reporting'
    BY <2>1 DEF Reporting
  <2>5. QED
    BY <1>1, <2>1, <2>3, <2>4, PlainBalanced DEF Balanced
<1>3. CASE (MeasureRaises \/ PrepareFails) /\ Raises(Pending)
  <2>1. phase' = "idle" /\ mpc' = "error" /\ Abandons(Pending)
    BY <1>3 DEF MeasureRaises, PrepareFails, PrepareRaises, Unwinds, Raises
  <2>2. QED
    BY <1>1, <2>1, AbandonsBalanced DEF Balanced
<1>4. QED
  BY <1>2, <1>3 DEF StepMeasures, PrepareFails

LEMMA SubmitBalanced ==
    ASSUME AsyncTyped, Balanced, Submit \/ NothingToScore
    PROVE  Balanced'
<1>1. /\ UNCHANGED <<ver, books, sweep>> /\ mpc = "step" /\ phase = "prepared" /\ Pipelined
      /\ reports' \in {reports, {}}
      /\ \/ mpc' = "after" /\ phase' = "idle"
         \/ mpc' = "step" /\ phase' = "decide" /\ items' = <<>>
  BY DEF Submit, NothingToScore, Unwinds, ledger
<1>2. Pending' = Pending
  BY <1>1 DEF AsyncTyped, Phased, PlainReports, Pending
<1>3. QED
  BY <1>1, <1>2 DEF Balanced, InBooks, OncePerSweep, Undecided, Reporting, books

LEMMA FinishRaisesBalanced ==
    ASSUME AsyncTyped, AsyncTyped', Balanced, NEW commits, Raises(commits),
           \/ (DecideRaises \/ PromoteRaises) /\ commits = Pending
           \/ CommitRaises /\ commits = Pending \union {InHand.art}
    PROVE  Balanced'
<1>1. phase' = "idle" /\ mpc' = "error" /\ Abandons(commits)
  BY DEF DecideRaises, CommitRaises, PromoteRaises, LeavesDecision, Unwinds, Raises
<1>2. CASE (DecideRaises \/ PromoteRaises) /\ commits = Pending
  <2>1. ver' = ver /\ commits = Pending
    BY <1>2 DEF DecideRaises, PromoteRaises, ledger
  <2>2. QED
    BY <1>1, <2>1, AbandonsBalanced DEF Balanced
<1>3. CASE CommitRaises /\ commits = Pending \union {InHand.art}
  <2>1. /\ phase = "commit" /\ ver' = [ver EXCEPT ![InHand.art] = @ + 1]
        /\ InHand = items[1] /\ 1 \in DOMAIN items
    BY <1>3, HeadAndTail DEF CommitRaises, Land, AsyncTyped, Typed, CommitBelowBound
  <2>2. InHand.art \in Artifacts /\ InHand.art \notin Pending
    BY <2>1, ItemArts DEF Balanced, OncePerSweep, Undecided
  <2>3. ASSUME NEW a \in Artifacts
        PROVE  ver'[a] + (IF a \in Pending THEN 1 ELSE 0) = ver[a] + (IF a \in commits THEN 1 ELSE 0)
    <3>1. ver[a] \in Int /\ ver' = [ver EXCEPT ![InHand.art] = @ + 1] /\ ver \in [Artifacts -> Versions]
      BY <2>1, AggregatorAssumption DEF AsyncTyped, Typed, LedgerOK, Versions
    <3>2. CASE a = InHand.art
      <4>1. ver'[a] = ver[a] + 1 /\ a \notin Pending /\ a \in commits
        BY <1>3, <2>2, <3>1, <3>2
      <4>2. QED
        BY <3>1, <4>1
    <3>3. CASE a # InHand.art
      <4>1. ver'[a] = ver[a] /\ (a \in commits <=> a \in Pending)
        BY <1>3, <2>2, <3>1, <3>3
      <4>2. QED
        BY <3>1, <4>1
    <3>4. QED
      BY <3>2, <3>3
  <2>4. QED
    BY <1>1, <2>3, AbandonsBalanced DEF Balanced
<1>4. QED
  BY <1>2, <1>3

LEMMA FinishingBalanced ==
    ASSUME AsyncTyped, Distinct, Balanced, Finishing, UNCHANGED merger, mpc \in {"step", "collect"}
    PROVE  Balanced'
<1>1. UNCHANGED <<recorded, unrecorded, books, sweep, gate, scan, mpc>>
  BY DEF merger, books
<1>2. CASE Reject \/ GiveUp \/ Commit
  <2>1. items # <<>> /\ phase \in {"decide", "commit"} /\ phase' = "decide"
    BY <1>2 DEF Reject, GiveUp, Commit, Land, Decided, AsyncTyped, Typed, CommitBelowBound
  <2>2. /\ InHand = items[1] /\ 1 \in DOMAIN items
        /\ \A k \in DOMAIN items' : k + 1 \in DOMAIN items /\ items'[k] = items[k + 1] /\ k + 1 # 1
    BY <1>2, <2>1, HeadAndTail DEF Reject, GiveUp, Commit, Decided, AsyncTyped, Typed
  <2>3. Live' = Live
    BY <1>1, <2>1 DEF Live
  <2>4. Undecided(items) /\ (mpc = "collect" => \A i \in Live : Undecided(gate[i].cands))
    BY <2>1 DEF Balanced, OncePerSweep
  <2>5. Reporting'
    BY <1>1, <2>1 DEF Reporting, AsyncTyped, Phased
  <2>6. CASE Reject \/ GiveUp
    <3>1. PICK outcome \in {"oracle", "other"} : Decided(outcome)
      BY <2>6 DEF Reject, GiveUp
    <3>2. ver' = ver /\ Pending' = Pending
      BY <1>1, <2>1, <2>6, <3>1, DecidedPending DEF Reject, GiveUp, ledger
    <3>3. Undecided(items)'
      BY <2>2, <2>4, <3>2 DEF Undecided
    <3>4. InBooks' /\ OncePerSweep'
      BY <1>1, <2>1, <2>3, <2>4, <3>2, <3>3 DEF Balanced, InBooks, OncePerSweep, Undecided
    <3>5. QED
      BY <2>5, <3>4 DEF Balanced
  <2>7. CASE Commit
    <3>1. Pending' = Pending \union {InHand.art} /\ ver' = [ver EXCEPT ![InHand.art] = @ + 1]
      BY <1>1, <2>1, <2>7, DecidedPending DEF Commit, Land
    <3>2. InHand.art \in Artifacts /\ InHand.art \notin Pending
      BY <2>2, <2>4, ItemArts DEF Undecided
    <3>3. InBooks'
      <4> SUFFICES ASSUME NEW a \in Artifacts
                   PROVE  recorded[a] + unrecorded[a] + (IF a \in Pending' THEN 1 ELSE 0) = ver'[a]
        BY <1>1 DEF InBooks
      <4>1. recorded[a] \in Nat /\ unrecorded[a] \in Nat /\ ver \in [Artifacts -> Versions]
        BY DEF AsyncTyped, MergerOK, Typed, LedgerOK
      <4>2. recorded[a] + unrecorded[a] + (IF a \in Pending THEN 1 ELSE 0) = ver[a]
        BY DEF Balanced, InBooks
      <4>3. CASE a = InHand.art
        BY <3>1, <3>2, <4>1, <4>2, <4>3
      <4>4. CASE a # InHand.art
        BY <3>1, <3>2, <4>1, <4>2, <4>4
      <4>5. QED
        BY <4>3, <4>4
    <3>4. Undecided(items)'
      <4>1. \A k \in DOMAIN items' : items'[k].art # InHand.art
        BY <2>2 DEF Distinct, Parted, OneEach
      <4>2. QED
        BY <2>2, <2>4, <3>1, <4>1 DEF Undecided
    <3>5. ASSUME mpc = "collect", NEW i \in Live
          PROVE  \A k \in DOMAIN gate[i].cands : gate[i].cands[k].art # InHand.art
      <4>1. i \in DOMAIN gate /\ i # scan.at
        BY <2>1, <3>5 DEF Live, Distinct, Walk, AsyncTyped, MergerOK
      <4>2. Apart(gate[i].cands, items)
        BY <2>1, <3>5, <4>1, OthersApart
      <4>3. QED
        BY <2>2, <4>2 DEF Apart
    <3>6. OncePerSweep'
      BY <1>1, <2>3, <2>4, <3>1, <3>4, <3>5 DEF OncePerSweep, Undecided
    <3>7. QED
      BY <2>5, <3>3, <3>6 DEF Balanced
  <2>8. QED
    BY <1>2, <2>6, <2>7
<1>3. CASE Rebase
  <2>1. /\ UNCHANGED <<ver, reports>> /\ phase = "commit" /\ phase' = "commit"
        /\ items' = <<Rebased(InHand)>> \o Tail(items)
    BY <1>3 DEF Rebase, ledger
  <2>2. /\ InHand = items[1] /\ 1 \in DOMAIN items /\ InHand \in Candidate
        /\ Tail(items) \in Seq(Candidate)
        /\ \A k \in DOMAIN Tail(items) : k + 1 \in DOMAIN items /\ Tail(items)[k] = items[k + 1]
    BY <2>1, HeadAndTail DEF AsyncTyped, Typed, CommitBelowBound
  <2>3. Rebased(InHand).art = InHand.art
    BY <2>2 DEF Rebased, Candidate
  <2>4. Live' = Live /\ Pending' = Pending /\ Undecided(items)
    BY <1>1, <2>1 DEF Live, Pending, Balanced, OncePerSweep
  <2>5. Undecided(items)'
    <3> DEFINE r == Rebased(InHand)
               s == Tail(items)
    <3> HIDE DEF r, s
    <3>1. items' = <<r>> \o s /\ s \in Seq(Candidate)
      BY <2>1, <2>2 DEF r, s
    <3>2. \A k \in DOMAIN items' : items'[k] = r \/ \E l \in DOMAIN s : items'[k] = s[l]
      BY <3>1
    <3>3. r.art \notin Pending /\ \A l \in DOMAIN s : s[l].art \notin Pending
      BY <2>2, <2>3, <2>4 DEF Undecided, r, s
    <3>4. \A k \in DOMAIN items' : items'[k].art \notin Pending
      BY <3>2, <3>3
    <3>5. QED
      BY <2>4, <3>4 DEF Undecided
  <2>6. OncePerSweep'
    BY <1>1, <2>4, <2>5, <2>1 DEF Balanced, OncePerSweep, Undecided
  <2>7. Reporting'
    BY <1>1, <2>1 DEF Balanced, Reporting
  <2>8. QED
    BY <1>1, <2>1, <2>4, <2>6, <2>7 DEF Balanced, InBooks
<1>4. CASE Accept \/ AllDecided \/ Observe \/ \E a \in Artifacts : Promote(a)
  <2>1. /\ UNCHANGED <<ver, reports, items>> /\ phase \in {"decide", "observe", "promote"}
        /\ \/ phase' = "commit" /\ phase = "decide"
           \/ phase' \in {"observe", "promote"}
    BY <1>4 DEF Accept, AllDecided, Observe, Promote, ledger
  <2>2. Live' = Live /\ Pending' = Pending
    BY <1>1, <2>1 DEF Live, Pending
  <2>3. QED
    BY <1>1, <2>1, <2>2 DEF Balanced, InBooks, OncePerSweep, Undecided, Reporting
<1>5. QED
  BY <1>1, <1>2, <1>3, <1>4 DEF Finishing

LEMMA FinishesBalanced ==
    ASSUME AsyncTyped, AsyncTyped', Distinct, Balanced, Finishes
    PROVE  Balanced'
<1>1. CASE (DecideRaises \/ PromoteRaises) /\ Raises(Pending)
  BY <1>1, FinishRaisesBalanced
<1>2. CASE CommitRaises /\ Raises(Pending \union {InHand.art})
  BY <1>2, FinishRaisesBalanced
<1>3. QED
  BY <1>1, <1>2, FinishingBalanced DEF Finishes

LEMMA FinishedBalanced ==
    ASSUME AsyncTyped, Balanced, Finished
    PROVE  Balanced'
<1>1. /\ UNCHANGED <<ver, recorded, unrecorded, gate>> /\ mpc \in {"step", "collect"}
      /\ phase = "promote" /\ phase' = "idle" /\ reports' = {}
  BY DEF Finished, StepReturns, Unwinds, ledger, books
<1>2. sweep' = [sweep EXCEPT !.reports = sweep.reports \union reports]
  BY DEF Finished
<1>3. sweep'.reports = sweep.reports \union reports
  BY <1>2 DEF AsyncTyped, MergerOK
<1>4. Pending' = Pending
  BY <1>1, <1>3 DEF Pending
<1>5. CASE mpc = "step"
  <2>1. mpc' = "after"
    BY <1>5 DEF Finished
  <2>2. QED
    BY <1>1, <1>4, <2>1 DEF Balanced, InBooks, OncePerSweep, Reporting
<1>6. CASE mpc = "collect"
  <2>1. mpc' = "collect" /\ scan' = [scan EXCEPT !.at = scan.at + 1]
    BY <1>6 DEF Finished
  <2>2. scan'.at = scan.at + 1 /\ scan'.still = scan.still /\ scan.at \in Nat \ {0}
    BY <2>1 DEF AsyncTyped, MergerOK
  <2>3. Live' \subseteq Live
    <3> SUFFICES ASSUME NEW i \in Live' PROVE i \in Live
      OBVIOUS
    <3>1. i \in 1..Len(gate) /\ (i > scan.at \/ \E n \in DOMAIN scan.still : scan.still[n] = i)
      BY <1>1, <2>1, <2>2 DEF Live
    <3>2. QED
      BY <1>6, <3>1 DEF Live
  <2>4. OncePerSweep'
    BY <1>1, <1>4, <1>6, <2>3 DEF Balanced, OncePerSweep, Undecided
  <2>5. Reporting'
    BY <1>1, <2>1, <2>2 DEF Reporting
  <2>6. QED
    BY <1>1, <1>4, <2>4, <2>5 DEF Balanced, InBooks
<1>7. QED
  BY <1>1, <1>5, <1>6

LEMMA CollectBalanced ==
    ASSUME AsyncTyped, Balanced, SkipRunning \/ CollectMeasured
    PROVE  Balanced'
<1>1. /\ UNCHANGED <<ver, recorded, unrecorded, sweep, gate>> /\ mpc = "collect" /\ phase = "idle"
      /\ scan.at <= Len(gate)
  BY DEF SkipRunning, CollectMeasured, AtBatch, aggVars, ledger, engine, merger, books
<1>2. /\ scan.at \in Nat \ {0} /\ scan.still \in Seq(Nat) /\ gate \in Seq(Batch)
      /\ DOMAIN gate = 1..Len(gate) /\ Len(gate) \in Nat /\ reports = {} /\ PlainReports({})
  BY <1>1 DEF AsyncTyped, MergerOK, Phased, PlainReports
<1>3. scan.at \in Live /\ scan.at \in DOMAIN gate
  BY <1>1, <1>2 DEF Live
<1>4. \A i \in Live : Undecided(gate[i].cands)
  BY <1>1 DEF Balanced, OncePerSweep
<1>5. CASE SkipRunning
  <2> DEFINE t == scan.still
             x == scan.at
  <2>1. scan' = [at |-> x + 1, still |-> Append(t, x)] /\ UNCHANGED <<items, phase, mpc, reports>>
    BY <1>5 DEF SkipRunning, aggVars, work
  <2>2. scan'.at = x + 1 /\ scan'.still = Append(t, x) /\ x \in Nat /\ x # 0 /\ t \in Seq(Nat)
    BY <1>2, <2>1
  <2> HIDE DEF t, x
  <2>3. \A n \in DOMAIN Append(t, x) : (n \in DOMAIN t /\ Append(t, x)[n] = t[n]) \/ Append(t, x)[n] = x
    BY <2>2
  <2>4. Live' \subseteq Live
    BY <1>1, <1>2, <1>3, <2>1, <2>2, <2>3 DEF Live, t, x
  <2>5. Pending' = Pending
    BY <1>1, <2>1 DEF Pending
  <2>6. OncePerSweep'
    BY <1>1, <1>4, <2>1, <2>4, <2>5 DEF OncePerSweep, Undecided
  <2>7. Reporting'
    BY <1>1, <2>1, <2>2 DEF Reporting
  <2>8. QED
    BY <1>1, <2>5, <2>6, <2>7 DEF Balanced, InBooks
<1>6. CASE CollectMeasured
  <2>1. /\ items' = gate[scan.at].cands /\ reports' = gate[scan.at].reports /\ phase' = "decide"
        /\ UNCHANGED <<mpc, scan>>
    BY <1>6 DEF CollectMeasured, engine, merger
  <2>2. Live' \subseteq Live
    BY <1>1, <1>2, <2>1 DEF Live
  <2>3. Pending' = Pending
    <3>1. PlainReports(reports) /\ PlainReports(reports')
      BY <1>2, <1>3, <2>1 DEF AsyncTyped, GateOK
    <3>2. QED
      BY <1>1, <3>1 DEF Pending, PlainReports
  <2>4. Undecided(items)'
    BY <1>3, <1>4, <2>1, <2>3 DEF Undecided
  <2>5. OncePerSweep'
    BY <1>1, <1>4, <2>1, <2>2, <2>3, <2>4 DEF OncePerSweep, Undecided
  <2>6. Reporting'
    BY <1>1, <2>1 DEF Reporting
  <2>7. QED
    BY <1>1, <2>3, <2>5, <2>6 DEF Balanced, InBooks
<1>7. QED
  BY <1>5, <1>6

LEMMA CollectRaisesBalanced ==
    ASSUME AsyncTyped, AsyncTyped', Balanced, CollectRaises
    PROVE  Balanced'
<1>1. ver' = ver /\ phase' = "idle" /\ mpc' = "error" /\ Abandons(Pending)
  BY DEF CollectRaises, AtBatch, Raises, aggVars, ledger, work
<1>2. QED
  BY <1>1, AbandonsBalanced DEF Balanced

LEMMA CollectedBalanced ==
    ASSUME AsyncTyped, Distinct, Balanced, Collected
    PROVE  Balanced'
<1>1. /\ UNCHANGED <<ver, recorded, unrecorded, sweep, phase, reports, items>> /\ phase = "idle"
      /\ mode # "finish" => mpc' = "step"
      /\ mode = "finish" => mpc' = "after"
  BY DEF Collected, aggVars, ledger, work, books
<1>2. Pending' = Pending
  BY <1>1 DEF Pending
<1>3. Reporting'
  <2>1. Pipelined \/ sweep.reports = {}
    <3> SUFFICES ASSUME ~Pipelined PROVE sweep.reports = {}
      OBVIOUS
    <3>1. gate = <<>> /\ mpc = "collect" /\ scan.at <= Len(gate) + 1 /\ scan.at > Len(gate)
          /\ scan.at \in Nat \ {0} /\ Len(<<>>) = 0
      BY DEF Collected, Distinct, Claims, Walk, AsyncTyped, MergerOK
    <3>2. QED
      BY <1>1, <3>1 DEF Balanced, Reporting
  <2>2. QED
    BY <1>1, <2>1 DEF Reporting
<1>4. QED
  BY <1>1, <1>2, <1>3 DEF Balanced, InBooks, OncePerSweep

LEMMA BalancedAlways == Spec => []Balanced
<1>1. Init => Balanced
  <2> SUFFICES ASSUME Init PROVE Balanced
    OBVIOUS
  <2>1. /\ phase = "idle" /\ mpc = "top" /\ reports = {} /\ sweep.reports = {}
        /\ \A a \in Artifacts : recorded[a] = 0 /\ unrecorded[a] = 0 /\ ver[a] = 0
    BY DEF Init, AggInit, NewSweep
  <2>2. Pending = {}
    BY <2>1 DEF Pending
  <2>3. QED
    BY <2>1, <2>2 DEF Balanced, InBooks, OncePerSweep, Reporting
<1>2. AsyncTyped /\ AsyncTyped' /\ Distinct /\ Balanced /\ [Next]_vars => Balanced'
  <2> SUFFICES ASSUME AsyncTyped, AsyncTyped', Distinct, Balanced, [Next]_vars PROVE Balanced'
    OBVIOUS
  <2>1. CASE MergerStep
    BY <2>1, ThreadsBalanced, BetweenSweepsBalanced, RecordBalanced, StepBeginsBalanced,
       MeasuresBalanced, SubmitBalanced, FinishesBalanced, FinishedBalanced, CollectBalanced,
       CollectRaisesBalanced, CollectedBalanced DEF MergerStep
  <2>2. CASE PoolStep
    BY <2>2, ScoredBalanced DEF PoolStep
  <2>3. QED
    BY <2>1, <2>2, ThreadsBalanced DEF Next, Ended
<1>3. QED
  BY <1>1, <1>2, DistinctAlways, AsyncTypedAlways, PTL DEF Spec

\* Between sweeps every commit in the ledger is in one round of the history or was lost to a sweep
\* that raised: with the pipelined gate or without, whatever raises, batches decided twice included.
THEOREM CommitsAreRecorded == Spec => []HistoryAccountsForCommits
<1>1. AsyncTyped /\ Balanced => HistoryAccountsForCommits
  <2> SUFFICES ASSUME AsyncTyped, Balanced, mpc \in {"top", "error", "done"}, NEW a \in Artifacts
               PROVE  recorded[a] + unrecorded[a] = ver[a]
    BY DEF HistoryAccountsForCommits
  <2>1. a \notin Pending
    BY DEF Balanced, Reporting, AsyncTyped, Phased, Pending
  <2>2. recorded[a] \in Nat /\ unrecorded[a] \in Nat
    BY DEF AsyncTyped, MergerOK
  <2>3. recorded[a] + unrecorded[a] + (IF a \in Pending THEN 1 ELSE 0) = ver[a]
    BY DEF Balanced, InBooks
  <2>4. QED
    BY <2>1, <2>2, <2>3
<1>2. QED
  BY <1>1, BalancedAlways, AsyncTypedAlways, PTL

(***************************************************************************)
(* The evidence                                                            *)
(***************************************************************************)
Carries(cands, c) == \E k \in DOMAIN cands : c \in cands[k].cards

\* Where a card without an outcome still is.  A batch that _collect_gate has been through is in
\* gate_inflight until the walk ends, and counts no more.
Kept(c) ==
    \/ c \in intake \/ c \in batch
    \/ \E a \in Artifacts : c \in buffer[a]
    \/ Carries(items, c)
    \/ \E i \in Live : Carries(gate[i].cands, c)

\* Of some of the cards, none without an outcome is lost.
Tracked(S) == \A c \in S : fate[c] = "open" => Kept(c)

\* A batch is taken and emptied within one sweep, and nobody is promoted before all are decided.
Tidy ==
    /\ mpc # "gate" => batch = {}
    /\ phase \in {"observe", "promote"} => items = <<>>

LEMMA RestsTracked ==
    ASSUME NEW S \in SUBSET Cards, Tracked(S), UNCHANGED <<fate, buffer, items>>, Live \subseteq Live',
           intake \union batch \subseteq intake' \union batch',
           \A i \in Live : gate'[i].cands = gate[i].cands
    PROVE  Tracked(S)'
<1>1. ASSUME NEW c \in S, fate'[c] = "open"
      PROVE  Kept(c)'
  <2>1. Kept(c)
    BY <1>1 DEF Tracked
  <2>2. QED
    BY <2>1 DEF Kept, Carries
<1>2. QED
  BY <1>1 DEF Tracked

LEMMA ThreadsTracked ==
    ASSUME NEW S \in SUBSET Cards, Tracked(S),
           \/ \E w \in Workers : WorkerProceeds(w) \/ RolloutEnds(w) \/ RolloutRaises(w) \/ RolloutBreaks(w)
           \/ Deadline \/ MainStep \/ UNCHANGED vars \/ StopSeen \/ DrainEnds
    PROVE  Tracked(S)'
<1>1. UNCHANGED <<fate, buffer, items, gate, intake, batch, mpc, scan, phase>>
  BY DEF WorkerProceeds, Snapshot, CatchUp, LoopTop, PassGate, Look, RolloutEnds, RolloutRaises,
         RolloutBreaks, Deadline, MainStep, MainStops, MainJoins, MainEnds, StopSeen, DrainEnds, vars,
         engine, aggVars, bufvars, work, merger, shared
<1>2. Live' = Live
  BY <1>1 DEF Live
<1>3. QED
  BY <1>1, <1>2, RestsTracked DEF Tracked

LEMMA ProposeTracked ==
    ASSUME NEW S \in SUBSET Cards, AsyncTyped, Tracked(S),
           NEW w \in Workers, NEW a \in Artifacts, NEW c \in Cards, Propose(w, a, c)
    PROVE  Tracked(S)'
<1>1. /\ UNCHANGED <<buffer, items, gate, batch, mpc, scan, phase>>
      /\ intake' = intake \union {c} /\ fate' = [fate EXCEPT ![c] = "open"]
  BY DEF Propose, work, merger
<1>2. Live' = Live
  BY <1>1 DEF Live
<1>3. ASSUME NEW d \in S, fate'[d] = "open"
      PROVE  Kept(d)'
  <2>1. d = c \/ fate[d] = "open"
    BY <1>1, <1>3 DEF AsyncTyped, Typed, HistoryOK
  <2>2. CASE d = c
    BY <1>1, <2>2 DEF Kept
  <2>3. CASE fate[d] = "open"
    <3>1. Kept(d)
      BY <2>3 DEF Tracked
    <3>2. QED
      BY <1>1, <1>2, <3>1 DEF Kept, Carries
  <2>4. QED
    BY <2>1, <2>2, <2>3
<1>4. QED
  BY <1>1, <1>3 DEF Tracked

LEMMA ScoredTracked ==
    ASSUME NEW S \in SUBSET Cards, AsyncTyped, Tidy, Tracked(S), NEW i \in 1..Len(gate), Scored(i)
    PROVE  Tracked(S)'
<1>1. UNCHANGED <<fate, buffer, items, intake, batch, mpc, scan, phase>>
  BY DEF Scored, aggVars, bufvars, work, shared
<1>2. PICK st \in {"running", "measured", "failed"} : gate' = [gate EXCEPT ![i].st = st]
  BY DEF Scored
<1>3. gate \in Seq(Batch) /\ gate[i] \in Batch /\ i \in DOMAIN gate
  <2>1. gate \in Seq(Batch)
    BY DEF AsyncTyped, MergerOK
  <2>2. QED
    BY <2>1
<1> DEFINE b == [gate[i] EXCEPT !.st = st]
<1>4. b.cands = gate[i].cands /\ gate' = [gate EXCEPT ![i] = b]
  BY <1>2, <1>3, Rescored DEF Batch
<1> HIDE DEF b
<1>5. Len(gate') = Len(gate) /\ \A j \in 1..Len(gate) : gate'[j].cands = gate[j].cands
  BY <1>3, <1>4
<1>6. Live' = Live /\ Live \subseteq 1..Len(gate)
  BY <1>1, <1>5 DEF Live
<1>7. QED
  BY <1>1, <1>5, <1>6, RestsTracked DEF Tracked

\* The merger outside the aggregator's step and the staleness gate.
LEMMA BetweenSweepsTracked ==
    ASSUME NEW S \in SUBSET Cards, AsyncTyped, Tidy, Tracked(S),
           \/ TakeIntake \/ NothingLeft \/ NothingToRecord \/ PublishHead \/ Record \/ ScoreRaises
           \/ Recover \/ Breaks \/ CollectRaises
    PROVE  Tracked(S)'
<1>1. /\ UNCHANGED <<fate, buffer, items, gate, phase>>
      /\ mpc \in {"top", "after", "score", "error", "collect"}
  BY DEF TakeIntake, NothingLeft, NothingToRecord, PublishHead, Record, ScoreRaises, Recover, Breaks,
         CollectRaises, AtBatch, Raises, aggVars, bufvars, work
<1>2. phase = "idle"
  BY <1>1 DEF TakeIntake, NothingLeft, NothingToRecord, PublishHead, Record, ScoreRaises, Recover, Breaks,
              CollectRaises, AtBatch, AsyncTyped, Phased
<1>3. batch = {} /\ intake \union batch \subseteq intake' \union batch' /\ (mpc' # "gate" => batch' = {})
  BY <1>1 DEF TakeIntake, NothingLeft, NothingToRecord, PublishHead, Record, ScoreRaises, Recover, Breaks,
              CollectRaises, Raises, Tidy, shared
<1>4. mpc' = "collect" => scan' = [at |-> 1, still |-> <<>>]
  <2>1. CASE NothingToRecord \/ Record
    BY <2>1 DEF NothingToRecord, Record, LeaveSweep, Returns
  <2>2. CASE NothingLeft
    BY <2>2 DEF NothingLeft
  <2>3. CASE TakeIntake \/ PublishHead \/ ScoreRaises \/ Recover \/ Breaks \/ CollectRaises
    BY <2>3 DEF TakeIntake, PublishHead, ScoreRaises, Recover, Breaks, CollectRaises, Raises
  <2>4. QED
    BY <2>1, <2>2, <2>3
<1>5. Live \subseteq Live'
  <2>1. Len(gate) \in Nat
    BY DEF AsyncTyped, MergerOK
  <2>2. CASE mpc' # "collect"
    BY <1>1, <2>2 DEF Live
  <2>3. CASE mpc' = "collect" /\ scan' = [at |-> 1, still |-> <<>>]
    BY <1>1, <1>2, <2>1, <2>3 DEF Live
  <2>4. QED
    BY <1>4, <2>2, <2>3
<1>6. QED
  BY <1>1, <1>2, <1>3, <1>5, RestsTracked

LEMMA GateTracked ==
    ASSUME NEW S \in SUBSET Cards, AsyncTyped, Tidy, Tracked(S), GateCards
    PROVE  Tracked(S)'
<1>1. PICK unproved \in SUBSET Acting(batch, "rebase") :
         Forward(Survivors(batch, unproved), batch \ Survivors(batch, unproved))
  BY DEF GateCards
<1> DEFINE cs == Survivors(batch, unproved)
<1>2. /\ UNCHANGED <<items, gate, intake, phase>> /\ mpc = "gate" /\ batch' = {}
      /\ buffer' = Ingested(cs) /\ fate' = Fated(batch \ cs, "discarded")
      /\ mpc' \in {"collect", "step"} /\ scan' = [at |-> 1, still |-> <<>>]
  BY <1>1 DEF GateCards, Forward, work, shared
<1> HIDE DEF cs
<1>3. phase = "idle" /\ Len(gate) \in Nat
  BY <1>2 DEF AsyncTyped, Phased, MergerOK
<1>4. Live \subseteq Live'
  BY <1>2, <1>3 DEF Live
<1>5. ASSUME NEW c \in S, fate'[c] = "open"
      PROVE  Kept(c)'
  <2>1. fate[c] = "open" /\ c \notin batch \ cs
    BY <1>2, <1>5 DEF Fated
  <2>2. CASE c \in cs
    <3>1. c \in batch
      BY <2>2 DEF cs, Survivors
    <3>2. card[c].art \in Artifacts
      BY <3>1 DEF AsyncTyped, Proposed
    <3>3. c \in buffer'[card[c].art]
      BY <1>2, <2>2, <3>2 DEF Ingested
    <3>4. QED
      BY <3>2, <3>3 DEF Kept
  <2>3. CASE c \notin cs
    <3>1. Kept(c) /\ c \notin batch
      BY <2>1, <2>3 DEF Tracked
    <3>2. \A a \in Artifacts : buffer[a] \subseteq buffer'[a]
      BY <1>2 DEF Ingested
    <3>3. QED
      BY <1>2, <1>4, <3>1, <3>2 DEF Kept, Carries
  <2>4. QED
    BY <2>2, <2>3
<1>6. QED
  BY <1>2, <1>3, <1>5 DEF Tracked

LEMMA StepBeginsTracked ==
    ASSUME NEW S \in SUBSET Cards, AsyncTyped, Tidy, Tracked(S), StepBegins
    PROVE  Tracked(S)'
<1>1. /\ UNCHANGED <<gate, intake, batch, mpc, scan>> /\ mpc = "step"
      /\ phase' \in {"prepare", "prepared"}
  BY DEF StepBegins, BeginStep, Prepare, Prepared, engine, merger, shared
<1>2. Live' = Live
  BY <1>1 DEF Live
<1>3. CASE BeginStep(SkipInFlight) \/ Prepared
  <2>1. UNCHANGED <<fate, buffer, items>>
    BY <1>3 DEF BeginStep, Prepared, AsyncTyped, Phased, bufvars
  <2>2. QED
    BY <1>1, <1>2, <2>1, RestsTracked DEF Tracked
<1>4. ASSUME NEW a \in Artifacts, Prepare(a) PROVE Tracked(S)'
  <2>1. buffer' = [buffer EXCEPT ![a] = {}] /\ buffer \in [Artifacts -> SUBSET Cards]
    BY <1>4 DEF Prepare, Drained, AsyncTyped, Typed, BufferOK
  <2>2. ASSUME NEW settled, fate' = Fated(settled, "settled"),
               \A c \in buffer[a] : c \in settled \/ Carries(items', c),
               \A c \in Cards : Carries(items, c) => Carries(items', c)
        PROVE  Tracked(S)'
    <3>1. ASSUME NEW c \in S, fate'[c] = "open"
          PROVE  Kept(c)'
      <4>1. fate[c] = "open" /\ c \notin settled
        BY <2>2, <3>1 DEF Fated
      <4>2. Kept(c)
        BY <4>1 DEF Tracked
      <4>3. Carries(items', c) <=> Carries(items, c)'
        BY DEF Carries
      <4>4. CASE c \in buffer[a]
        BY <2>2, <4>1, <4>3, <4>4 DEF Kept
      <4>5. CASE \E d \in Artifacts : d # a /\ c \in buffer[d]
        BY <2>1, <4>5 DEF Kept
      <4>6. CASE Carries(items, c)
        BY <2>2, <4>3, <4>6 DEF Kept
      <4>7. CASE c \in intake \/ c \in batch
        BY <1>1, <4>7 DEF Kept
      <4>8. CASE \E i \in Live : Carries(gate[i].cands, c)
        BY <1>1, <1>2, <4>8 DEF Kept, Carries
      <4>9. QED
        BY <4>2, <4>4, <4>5, <4>6, <4>7, <4>8 DEF Kept
    <3>2. QED
      BY <1>1, <3>1 DEF Tracked
  <2>3. PICK screened \in SUBSET buffer[a] :
          \E unproved \in SUBSET Acting(buffer[a] \ screened, "rebase") :
            LET stale     == Acting(buffer[a] \ screened, "discard") \union unproved
                settled   == screened \union stale
                survivors == buffer[a] \ settled
            IN \/ survivors = {} /\ fate' = Fated(settled, "settled") /\ Filed(a)
               \/ survivors # {} /\ fate' = Fated(buffer[a], "settled") /\ Filed(a)
               \/ /\ fate' = Fated(settled, "settled")
                  /\ \E chosen \in Selections(survivors) : PutForward(a, survivors, chosen)
    BY <1>4 DEF Prepare
  <2>4. PICK unproved \in SUBSET Acting(buffer[a] \ screened, "rebase") :
            LET stale     == Acting(buffer[a] \ screened, "discard") \union unproved
                settled   == screened \union stale
                survivors == buffer[a] \ settled
            IN \/ survivors = {} /\ fate' = Fated(settled, "settled") /\ Filed(a)
               \/ survivors # {} /\ fate' = Fated(buffer[a], "settled") /\ Filed(a)
               \/ /\ fate' = Fated(settled, "settled")
                  /\ \E chosen \in Selections(survivors) : PutForward(a, survivors, chosen)
    BY <2>3
  <2> DEFINE settled   == screened \union (Acting(buffer[a] \ screened, "discard") \union unproved)
             survivors == buffer[a] \ settled
  <2>5. \/ survivors = {} /\ fate' = Fated(settled, "settled") /\ Filed(a)
        \/ survivors # {} /\ fate' = Fated(buffer[a], "settled") /\ Filed(a)
        \/ /\ fate' = Fated(settled, "settled")
           /\ \E chosen \in Selections(survivors) : PutForward(a, survivors, chosen)
    BY <2>4
  <2> HIDE DEF settled
  <2>6. CASE survivors = {} /\ fate' = Fated(settled, "settled") /\ Filed(a)
    BY <2>2, <2>6 DEF Filed
  <2>7. CASE survivors # {} /\ fate' = Fated(buffer[a], "settled") /\ Filed(a)
    BY <2>2, <2>7 DEF Filed
  <2>8. ASSUME fate' = Fated(settled, "settled"), NEW chosen, PutForward(a, survivors, chosen)
        PROVE  Tracked(S)'
    <3> DEFINE i == [art |-> a, ver |-> ver[a], content |-> content[a], chosen |-> chosen,
                     cards |-> survivors, tries |-> 0]
    <3>1. items' = Append(items, i) /\ i.cards = survivors
      BY <2>8 DEF PutForward
    <3> HIDE DEF i
    <3>2. /\ Len(items) + 1 \in DOMAIN items' /\ items'[Len(items) + 1] = i
          /\ \A k \in DOMAIN items : k \in DOMAIN items' /\ items'[k] = items[k]
      BY <3>1 DEF AsyncTyped, Typed, WorkOK
    <3>3. \A c \in survivors : Carries(items', c)
      BY <3>1, <3>2 DEF Carries
    <3>4. \A c \in Cards : Carries(items, c) => Carries(items', c)
      BY <3>2 DEF Carries
    <3>5. \A c \in buffer[a] : c \in settled \/ c \in survivors
      OBVIOUS
    <3>6. QED
      BY <2>2, <2>8, <3>3, <3>4, <3>5
  <2>9. QED
    BY <2>5, <2>6, <2>7, <2>8
<1>5. QED
  BY <1>3, <1>4 DEF StepBegins

LEMMA MeasuresTracked ==
    ASSUME NEW S \in SUBSET Cards, AsyncTyped, Tracked(S), StepMeasures \/ NothingToScore, ~Thrown
    PROVE  Tracked(S)'
<1>1. /\ UNCHANGED <<fate, buffer, items, gate, intake, batch>> /\ mpc = "step"
      /\ phase' \in {"decide", "idle"} /\ mpc' \in {"step", "after"}
  BY DEF StepMeasures, Measure, MeasureRaises, NothingToScore, Unwinds, Raises, Thrown, bufvars, merger,
         shared
<1>2. Live' = Live
  BY <1>1 DEF Live
<1>3. QED
  BY <1>1, <1>2, RestsTracked DEF Tracked

\* gate_pool.submit hands the candidates over before the step is left.
LEMMA SubmitTracked ==
    ASSUME NEW S \in SUBSET Cards, AsyncTyped, Tidy, Tracked(S), Submit
    PROVE  Tracked(S)'
<1> DEFINE b == [cands |-> items, reports |-> reports, st |-> "running"]
           n == Len(gate) + 1
<1>1. /\ UNCHANGED <<fate, buffer, intake, batch>> /\ mpc = "step" /\ mpc' = "after"
      /\ phase' = "idle" /\ gate' = Append(gate, b)
  BY DEF Submit, Unwinds, bufvars, shared
<1>2. b.cands = items
  OBVIOUS
<1>3. gate \in Seq(Batch) /\ b \in Batch
  BY DEF AsyncTyped, MergerOK, Typed, WorkOK, Batch
<1> HIDE DEF b
<1>4. /\ Len(gate') = n /\ n \in 1..n /\ gate'[n] = b
      /\ \A i \in 1..Len(gate) : i \in 1..n /\ gate'[i] = gate[i]
  BY <1>1, <1>3
<1> HIDE DEF n
<1>5. Live = 1..Len(gate) /\ Live' = 1..n
  BY <1>1, <1>4 DEF Live
<1>6. ASSUME NEW c \in S, fate'[c] = "open"
      PROVE  Kept(c)'
  <2>1. Kept(c)
    BY <1>1, <1>6 DEF Tracked
  <2>2. CASE Carries(items, c)
    <3>1. Carries(gate'[n].cands, c)
      BY <1>2, <1>4, <2>2
    <3>2. n \in Live'
      BY <1>4, <1>5
    <3>3. QED
      BY <3>1, <3>2 DEF Kept, Carries
  <2>3. CASE \E i \in Live : Carries(gate[i].cands, c)
    <3>1. PICK i \in 1..Len(gate) : Carries(gate[i].cands, c)
      BY <1>5, <2>3
    <3>2. Carries(gate[i].cands, c)' /\ i \in 1..n
      BY <1>4, <3>1 DEF Carries
    <3>3. QED
      BY <1>5, <3>2 DEF Kept
  <2>4. CASE ~Carries(items, c) /\ ~\E i \in Live : Carries(gate[i].cands, c)
    BY <1>1, <2>1, <2>4 DEF Kept
  <2>5. QED
    BY <2>2, <2>3, <2>4
<1>7. QED
  BY <1>1, <1>6 DEF Tracked

LEMMA FinishesTracked ==
    ASSUME NEW S \in SUBSET Cards, AsyncTyped, Tidy, Tracked(S), Finishes, ~Thrown
    PROVE  Tracked(S)'
<1> SUFFICES ASSUME Finishing, UNCHANGED merger PROVE Tracked(S)'
  BY DEF Finishes, DecideRaises, CommitRaises, Land, PromoteRaises, Raises, Thrown
<1>1. /\ UNCHANGED <<gate, scan, mpc, batch, intake, buffer>> /\ mpc \in {"step", "collect"}
  BY DEF Finishes, Finishing, merger, shared, Reject, Accept, Commit, Land, Rebase, GiveUp, AllDecided,
         Observe, Promote, bufvars
<1>2. CASE Reject \/ GiveUp \/ Commit
  <2>1. items # <<>> /\ phase \in {"decide", "commit"} /\ phase' = "decide" /\ items' = Tail(items)
    BY <1>2 DEF Reject, GiveUp, Commit, Land, Decided, AsyncTyped, Typed, CommitBelowBound
  <2>2. /\ InHand = items[1] /\ 1 \in DOMAIN items
        /\ \A k \in DOMAIN items : k # 1 => k - 1 \in DOMAIN items' /\ items'[k - 1] = items[k]
    BY <2>1 DEF AsyncTyped, Typed, WorkOK, InHand
  <2>3. Live' = Live
    BY <1>1, <2>1 DEF Live
  <2>4. \A c \in Cards : fate'[c] = "open" => fate[c] = "open" /\ c \notin InHand.cards
    <3>1. CASE Reject \/ GiveUp
      BY <3>1 DEF Reject, GiveUp, Fated
    <3>2. CASE Commit
      BY <3>2 DEF Commit, Land
    <3>3. QED
      BY <1>2, <3>1, <3>2
  <2>5. ASSUME NEW c \in S, fate'[c] = "open"
        PROVE  Kept(c)'
    <3>1. Kept(c) /\ c \notin items[1].cards
      BY <2>2, <2>4, <2>5 DEF Tracked
    <3>2. Carries(items, c) => Carries(items, c)'
      BY <2>2, <3>1 DEF Carries
    <3>3. QED
      BY <1>1, <2>3, <3>1, <3>2 DEF Kept, Carries
  <2>6. QED
    BY <1>1, <2>1, <2>5 DEF Tracked
<1>3. CASE Rebase
  <2>1. items # <<>> /\ UNCHANGED <<fate, phase>> /\ phase = "commit"
    BY <1>3 DEF Rebase, AsyncTyped, Typed, CommitBelowBound
  <2>2. Rebased(InHand) \in Candidate /\ Rebased(InHand).cards = InHand.cards
    <3>1. InHand \in Candidate
      BY <2>1, HeadAndTail DEF AsyncTyped, Typed
    <3>2. Rebased(InHand).cards = InHand.cards
      BY <3>1 DEF Rebased, Candidate
    <3>3. InHand.art \in Artifacts
      BY <3>1 DEF Candidate
    <3>4. ver[InHand.art] \in Versions /\ content[InHand.art] \in SUBSET Cards
      BY <3>3 DEF AsyncTyped, Typed, LedgerOK
    <3>5. InHand.tries + 1 \in Nat
      BY <3>1 DEF Candidate
    <3>6. QED
      BY <3>1, <3>2, <3>4, <3>5, UpdatedCandidate DEF Rebased
  <2>3. /\ InHand = items[1] /\ DOMAIN items' = DOMAIN items /\ items'[1] = Rebased(InHand)
        /\ \A k \in DOMAIN items : k # 1 => items'[k] = items[k]
    <3>1. items' = <<Rebased(InHand)>> \o Tail(items) /\ items \in Seq(Candidate) /\ Len(items) > 0
      BY <1>3, <2>1 DEF Rebase, AsyncTyped, Typed, WorkOK
    <3>2. <<Rebased(InHand)>> \in Seq(Candidate) /\ Tail(items) \in Seq(Candidate)
      BY <2>2, <3>1
    <3>3. QED
      BY <3>1, <3>2 DEF InHand
  <2>4. Live' = Live
    BY <1>1, <2>1 DEF Live
  <2>5. ASSUME NEW c \in S, fate'[c] = "open"
        PROVE  Kept(c)'
    <3>1. Kept(c)
      BY <2>1, <2>5 DEF Tracked
    <3>2. Carries(items, c) => Carries(items, c)'
      BY <2>2, <2>3 DEF Carries
    <3>3. QED
      BY <1>1, <2>4, <3>1, <3>2 DEF Kept, Carries
  <2>6. QED
    BY <1>1, <2>1, <2>5 DEF Tracked
<1>4. CASE Accept \/ AllDecided \/ Observe \/ \E a \in Artifacts : Promote(a)
  <2>1. /\ UNCHANGED <<fate, items>> /\ phase # "idle"
        /\ \/ phase' = "commit"
           \/ phase' \in {"observe", "promote"} /\ items = <<>>
    BY <1>4 DEF Accept, AllDecided, Observe, Promote, Tidy
  <2>2. Live' = Live
    BY <1>1, <2>1 DEF Live
  <2>3. QED
    BY <1>1, <2>1, <2>2, RestsTracked DEF Tracked
<1>5. QED
  BY <1>1, <1>2, <1>3, <1>4 DEF Finishing

LEMMA FinishedTracked ==
    ASSUME NEW S \in SUBSET Cards, AsyncTyped, Tidy, Tracked(S), Finished
    PROVE  Tracked(S)'
<1>1. /\ UNCHANGED <<fate, buffer, items, gate, intake, batch>> /\ mpc \in {"step", "collect"}
      /\ phase = "promote" /\ phase' = "idle"
  BY DEF Finished, StepReturns, Unwinds, bufvars, shared, Tidy
<1>2. mpc' \in {"after", "collect"}
  BY DEF Finished
<1>3. Live \subseteq Live'
  <2>1. CASE mpc = "step"
    <3>1. mpc' = "after"
      BY <2>1 DEF Finished
    <3>2. QED
      BY <1>1, <2>1, <3>1 DEF Live
  <2>2. CASE mpc = "collect"
    <3>1. mpc' = "collect" /\ scan' = [scan EXCEPT !.at = scan.at + 1]
      BY <2>2 DEF Finished
    <3>2. scan'.at = scan.at + 1 /\ scan'.still = scan.still /\ scan.at \in Nat
      BY <3>1 DEF AsyncTyped, MergerOK
    <3>3. ASSUME NEW i \in Live PROVE i \in Live'
      <4>1. i \in 1..Len(gate) /\ Len(gate) \in Nat
        BY DEF Live, AsyncTyped, MergerOK
      <4>2. i > scan.at \/ \E n \in DOMAIN scan.still : scan.still[n] = i
        BY <1>1, <2>2 DEF Live
      <4>3. CASE i > scan.at
        BY <1>1, <3>1, <3>2, <4>1, <4>3 DEF Live
      <4>4. CASE \E n \in DOMAIN scan.still : scan.still[n] = i
        BY <1>1, <3>1, <3>2, <4>1, <4>4 DEF Live
      <4>5. QED
        BY <4>2, <4>3, <4>4
    <3>4. QED
      BY <3>3
  <2>3. QED
    BY <1>1, <2>1, <2>2
<1>4. QED
  BY <1>1, <1>2, <1>3, RestsTracked DEF Tracked

LEMMA CollectTracked ==
    ASSUME NEW S \in SUBSET Cards, AsyncTyped, Tidy, Tracked(S), SkipRunning \/ CollectMeasured
    PROVE  Tracked(S)'
<1>1. /\ UNCHANGED <<fate, buffer, gate, intake, batch, mpc>> /\ mpc = "collect" /\ phase = "idle"
      /\ scan.at <= Len(gate)
  BY DEF SkipRunning, CollectMeasured, AtBatch, aggVars, bufvars, engine, merger, shared
<1>2. /\ scan.at \in Nat \ {0} /\ scan.still \in Seq(Nat) /\ Len(gate) \in Nat /\ items = <<>>
  BY <1>1 DEF AsyncTyped, MergerOK, Phased
<1>3. CASE SkipRunning
  <2> DEFINE t == scan.still
             x == scan.at
  <2>1. scan' = [at |-> x + 1, still |-> Append(t, x)] /\ UNCHANGED <<items, phase>>
    BY <1>3 DEF SkipRunning, aggVars, work
  <2>2. scan'.at = x + 1 /\ scan'.still = Append(t, x) /\ x \in Nat /\ t \in Seq(Nat)
    BY <1>2, <2>1
  <2> HIDE DEF t, x
  <2>3. /\ \A n \in DOMAIN t : n \in DOMAIN Append(t, x) /\ Append(t, x)[n] = t[n]
        /\ Len(t) + 1 \in DOMAIN Append(t, x) /\ Append(t, x)[Len(t) + 1] = x
    BY <2>2
  <2>4. ASSUME NEW i \in Live PROVE i \in Live'
    <3>1. i \in 1..Len(gate) /\ (i > x \/ i = x \/ \E n \in DOMAIN t : t[n] = i)
      BY <1>1 DEF Live, t, x
    <3>2. i > x + 1 \/ i = x + 1 \/ \E n \in DOMAIN Append(t, x) : Append(t, x)[n] = i
      BY <1>2, <2>2, <2>3, <3>1
    <3>3. phase' = "idle" /\ mpc' = "collect" /\ gate' = gate
      BY <1>1, <2>1
    <3>4. QED
      BY <2>2, <3>1, <3>2, <3>3 DEF Live
  <2>5. Live \subseteq Live'
    BY <2>4
  <2>6. QED
    BY <1>1, <2>1, <2>5, RestsTracked DEF Tracked
<1>4. CASE CollectMeasured
  <2>1. items' = gate[scan.at].cands /\ phase' = "decide" /\ UNCHANGED scan
    BY <1>4 DEF CollectMeasured, engine, merger
  <2>2. ASSUME NEW i \in Live PROVE i = scan.at \/ i \in Live'
    BY <1>1, <2>1 DEF Live
  <2>3. ASSUME NEW c \in S, fate'[c] = "open"
        PROVE  Kept(c)'
    <3>1. Kept(c) /\ ~Carries(items, c)
      BY <1>1, <1>2, <2>3 DEF Tracked, Carries
    <3>2. CASE \E i \in Live : Carries(gate[i].cands, c)
      <4>1. PICK i \in Live : Carries(gate[i].cands, c)
        BY <3>2
      <4>2. CASE i = scan.at
        BY <2>1, <4>1, <4>2 DEF Kept, Carries
      <4>3. CASE i \in Live'
        BY <1>1, <4>1, <4>3 DEF Kept, Carries
      <4>4. QED
        BY <2>2, <4>2, <4>3
    <3>3. CASE ~\E i \in Live : Carries(gate[i].cands, c)
      BY <1>1, <3>1, <3>3 DEF Kept
    <3>4. QED
      BY <3>2, <3>3
  <2>4. QED
    BY <1>1, <2>1, <2>3 DEF Tracked
<1>5. QED
  BY <1>3, <1>4

\* What the walk is through with has an outcome; what it keeps, gate_inflight keeps.
LEMMA CollectedTracked ==
    ASSUME NEW S \in SUBSET Cards, AsyncTyped, Tidy, Tracked(S), Collected
    PROVE  Tracked(S)'
<1> DEFINE t == scan.still
<1>1. /\ UNCHANGED <<fate, buffer, items, intake, batch, phase>> /\ mpc = "collect" /\ phase = "idle"
      /\ mpc' \in {"step", "after"} /\ gate' = StillRunning /\ scan.at > Len(gate)
  BY DEF Collected, aggVars, bufvars, work, shared
<1>2. t \in Seq(Nat) /\ Len(gate) \in Nat /\ scan.at \in Nat
  BY DEF AsyncTyped, MergerOK
<1>3. gate' = [n \in DOMAIN t |-> gate[t[n]]]
  BY <1>1 DEF StillRunning
<1>4. \A i \in Live : \E n \in DOMAIN t : t[n] = i
  BY <1>1, <1>2 DEF Live
<1> HIDE DEF t
<1>5. DOMAIN t = 1..Len(t) /\ Len(t) \in Nat /\ \A n \in DOMAIN t : gate'[n] = gate[t[n]]
  BY <1>2, <1>3
<1>6. Live' = DOMAIN t
  <2>1. Len(gate') = Len(t)
    BY <1>3, <1>5
  <2>2. QED
    BY <1>1, <1>5, <2>1 DEF Live
<1>7. ASSUME NEW c \in S, fate'[c] = "open"
      PROVE  Kept(c)'
  <2>1. Kept(c)
    BY <1>1, <1>7 DEF Tracked
  <2>2. CASE \E i \in Live : Carries(gate[i].cands, c)
    <3>1. PICK i \in Live : Carries(gate[i].cands, c)
      BY <2>2
    <3>2. PICK n \in DOMAIN t : t[n] = i
      BY <1>4
    <3>3. n \in Live' /\ gate'[n] = gate[i]
      BY <1>5, <1>6, <3>2
    <3>4. QED
      BY <3>1, <3>3 DEF Kept, Carries
  <2>3. CASE ~\E i \in Live : Carries(gate[i].cands, c)
    BY <1>1, <2>1, <2>3 DEF Kept, Carries
  <2>4. QED
    BY <2>2, <2>3
<1>8. QED
  BY <1>1, <1>7 DEF Tracked

LEMMA TrackedKept ==
    ASSUME NEW S \in SUBSET Cards, AsyncTyped, Tidy, Tracked(S), [Next]_vars, ~Thrown
    PROVE  Tracked(S)'
<1>1. CASE MergerStep
  <2>1. ~(GateRaises \/ PrepareFails)
    BY DEF Thrown, GateRaises, PrepareFails, PrepareRaises, Raises
  <2>2. QED
    BY <1>1, <2>1, ThreadsTracked, BetweenSweepsTracked, GateTracked, StepBeginsTracked,
       MeasuresTracked, SubmitTracked, FinishesTracked, FinishedTracked, CollectTracked,
       CollectedTracked DEF MergerStep
<1>2. CASE PoolStep
  BY <1>2, ScoredTracked DEF PoolStep
<1>3. CASE \E w \in Workers : WorkerStep(w)
  BY <1>3, ThreadsTracked, ProposeTracked DEF WorkerStep, ProposesSome
<1>4. QED
  BY <1>1, <1>2, <1>3, ThreadsTracked DEF Next, Ended

LEMMA TidyAlways == Spec => []Tidy
<1>1. Init => Tidy
  BY DEF Init, AggInit, Tidy
<1>2. AsyncTyped /\ Tidy /\ [Next]_vars => Tidy'
  <2> SUFFICES ASSUME AsyncTyped, Tidy, [Next]_vars PROVE Tidy'
    OBVIOUS
  <2>1. mpc' # "gate" => batch' = {}
    <3>1. \/ UNCHANGED <<mpc, batch>>
          \/ mpc # "gate" /\ batch' = batch
          \/ batch' = {} \/ mpc' = "gate"
      <4>1. CASE MergerStep
        <5>1. CASE GateCards \/ GateRaises \/ TakeIntake
          BY <5>1 DEF GateCards, GateRaises, Forward, TakeIntake
        <5>2. CASE ~(GateCards \/ GateRaises \/ TakeIntake)
          BY <4>1, <5>2 DEF MergerStep, StopSeen, DrainEnds, NothingLeft, StepBegins, PrepareFails,
             StepMeasures, Submit, NothingToScore, Finishes, Finished, SkipRunning, CollectMeasured,
             CollectRaises, AtBatch, Collected, NothingToRecord, PublishHead, Record, ScoreRaises,
             Recover, Breaks, Raises, merger, engine
        <5>3. QED
          BY <5>1, <5>2
      <4>2. CASE ~MergerStep
        BY <4>2 DEF Next, Ended, PoolStep, Scored, WorkerStep, WorkerProceeds, Snapshot, CatchUp, LoopTop,
           PassGate, Look, ProposesSome, Propose, RolloutEnds, RolloutRaises, RolloutBreaks, Deadline,
           MainStep, MainStops, MainJoins, MainEnds, vars, engine, merger
      <4>3. QED
        BY <4>1, <4>2
    <3>2. QED
      BY <3>1 DEF Tidy
  <2>2. phase' \in {"observe", "promote"} => items' = <<>>
    <3> SUFFICES ASSUME phase' \in {"observe", "promote"} PROVE items' = <<>>
      OBVIOUS
    <3>1. \/ UNCHANGED <<phase, items>>
          \/ AllDecided \/ Observe \/ \E a \in Artifacts : Promote(a)
      <4>1. CASE MergerStep
        BY <4>1 DEF MergerStep, StopSeen, DrainEnds, TakeIntake, NothingLeft, GateCards, GateRaises,
           Forward, StepBegins, BeginStep, Prepare, Prepared, PrepareFails, PrepareRaises, StepMeasures,
           Measure, MeasureRaises, Submit, NothingToScore, Finishes, Finishing, Reject, Accept, Commit,
           Rebase, GiveUp, Decided, DecideRaises, CommitRaises, PromoteRaises, LeavesDecision, Unwinds,
           Finished, StepReturns, SkipRunning, CollectMeasured, CollectRaises, Collected,
           NothingToRecord, PublishHead, Record, ScoreRaises, Recover, Breaks, aggVars, work
      <4>2. CASE ~MergerStep
        BY <4>2 DEF Next, Ended, PoolStep, Scored, WorkerStep, WorkerProceeds, Snapshot, CatchUp, LoopTop,
           PassGate, Look, ProposesSome, Propose, RolloutEnds, RolloutRaises, RolloutBreaks, Deadline,
           MainStep, MainStops, MainJoins, MainEnds, vars, aggVars, work
      <4>3. QED
        BY <4>1, <4>2
    <3>2. QED
      BY <3>1 DEF Tidy, AllDecided, Observe, Promote
  <2>3. QED
    BY <2>1, <2>2 DEF Tidy
<1>3. QED
  BY <1>1, <1>2, AsyncTypedAlways, PTL DEF Spec

\* What a batch on the pool carries is kept, however the sweep that goes through the pool ends: a
\* batch that it is past counts again once the sweep is left, and has no card without an outcome.
Listed ==
    \A c \in Cards : fate[c] = "open" /\ (\E i \in 1..Len(gate) : Carries(gate[i].cands, c)) => Kept(c)

LEMMA ListedKept ==
    ASSUME AsyncTyped, Tidy, Listed, [Next]_vars
    PROVE  Listed'
<1> SUFFICES ASSUME NEW c \in Cards, fate'[c] = "open",
                    NEW i \in 1..Len(gate'), Carries(gate'[i].cands, c)
             PROVE  Kept(c)'
  BY DEF Listed, Carries
<1>1. CASE Live' = 1..Len(gate')
  BY <1>1 DEF Kept, Carries
<1>2. CASE /\ mpc = "collect" /\ mpc' = "collect"
           /\ Len(gate') = Len(gate) /\ \A j \in 1..Len(gate) : gate'[j].cands = gate[j].cands
  <2>1. Carries(gate[i].cands, c) /\ i \in 1..Len(gate)
    BY <1>2 DEF Carries
  <2>2. fate[c] = "open" => Kept(c)
    BY <2>1 DEF Listed
  <2>3. Tracked({c}) /\ {c} \in SUBSET Cards
    BY <2>2 DEF Tracked
  <2>4. ~Thrown
    BY <1>2 DEF Thrown
  <2>5. Tracked({c})'
    BY <2>3, <2>4, TrackedKept
  <2>6. QED
    BY <2>5 DEF Tracked
<1>3. \/ Live' = 1..Len(gate')
      \/ /\ mpc = "collect" /\ mpc' = "collect"
         /\ Len(gate') = Len(gate) /\ \A j \in 1..Len(gate) : gate'[j].cands = gate[j].cands
  <2>1. CASE mpc' # "collect"
    BY <2>1 DEF Live
  <2>2. CASE mpc' = "collect" /\ mpc # "collect"
    <3>1. /\ NothingLeft \/ GateCards \/ NothingToRecord \/ Record
          /\ scan' = [at |-> 1, still |-> <<>>] /\ phase' = phase
      <4>1. NothingLeft \/ GateCards \/ NothingToRecord \/ Record
        BY <2>2 DEF Next, Ended, MergerStep, StopSeen, DrainEnds, TakeIntake, GateRaises, StepBegins,
           PrepareFails, StepMeasures, Submit, NothingToScore, Finishes, Finished, SkipRunning,
           CollectMeasured, CollectRaises, AtBatch, Collected, PublishHead, ScoreRaises, Recover,
           Breaks, Raises, merger, engine, PoolStep, Scored, WorkerStep, WorkerProceeds, Snapshot,
           CatchUp, LoopTop, PassGate, Look, ProposesSome, Propose, RolloutEnds, RolloutRaises,
           RolloutBreaks, Deadline, MainStep, MainStops, MainJoins, MainEnds, vars
      <4>2. QED
        BY <2>2, <4>1 DEF NothingLeft, GateCards, Forward, NothingToRecord, Record, LeaveSweep,
           Returns, aggVars, work
    <3>2. phase = "idle"
      BY <3>1 DEF NothingLeft, GateCards, NothingToRecord, Record, AsyncTyped, Phased
    <3>3. gate' = gate /\ Len(gate) \in Nat
      <4>1. gate' = gate
        BY <3>1 DEF NothingLeft, GateCards, NothingToRecord, Record
      <4>2. QED
        BY <4>1 DEF AsyncTyped, MergerOK
    <3>4. QED
      BY <2>2, <3>1, <3>2, <3>3 DEF Live
  <2>3. CASE mpc' = "collect" /\ mpc = "collect"
    <3>1. CASE PoolStep
      <4>1. PICK k \in 1..Len(gate), st \in {"measured", "failed"} : gate' = [gate EXCEPT ![k].st = st]
        BY <3>1 DEF PoolStep, Scored
      <4>2. gate \in Seq(Batch) /\ gate[k] \in Batch /\ k \in DOMAIN gate
        <5>1. gate \in Seq(Batch)
          BY DEF AsyncTyped, MergerOK
        <5>2. QED
          BY <5>1
      <4> DEFINE b == [gate[k] EXCEPT !.st = st]
      <4>3. b.cands = gate[k].cands /\ gate' = [gate EXCEPT ![k] = b]
        BY <4>1, <4>2, Rescored DEF Batch
      <4> HIDE DEF b
      <4>4. QED
        BY <2>3, <4>2, <4>3
    <3>2. CASE ~PoolStep
      <4>1. gate' = gate
        BY <2>3, <3>2 DEF Next, Ended, MergerStep, StopSeen, DrainEnds, TakeIntake, NothingLeft,
           GateCards, GateRaises, StepBegins, PrepareFails, StepMeasures, Submit, NothingToScore,
           Finishes, Finished, SkipRunning, CollectMeasured, CollectRaises, AtBatch, Collected,
           NothingToRecord, PublishHead, Record, ScoreRaises, Recover, Breaks, Raises, merger, engine,
           WorkerStep, WorkerProceeds, Snapshot, CatchUp, LoopTop, PassGate, Look, ProposesSome,
           Propose, RolloutEnds, RolloutRaises, RolloutBreaks, Deadline, MainStep, MainStops,
           MainJoins, MainEnds, vars
      <4>2. QED
        BY <2>3, <4>1
    <3>3. QED
      BY <3>1, <3>2
  <2>4. QED
    BY <2>1, <2>2, <2>3
<1>4. QED
  BY <1>1, <1>2, <1>3

LEMMA ListedAlways == Spec => []Listed
<1>1. Init => Listed
  BY DEF Init, AggInit, Listed
<1>2. AsyncTyped /\ Tidy /\ Listed /\ [Next]_vars => Listed'
  BY ListedKept
<1>3. QED
  BY <1>1, <1>2, AsyncTypedAlways, TidyAlways, PTL DEF Spec

LEMMA KeptIsHeld ==
    ASSUME AsyncTyped, NEW c \in Cards, Kept(c)
    PROVE  c \in Held
<1>1. CASE c \in intake \/ c \in batch
  BY <1>1 DEF Held
<1>2. CASE \E a \in Artifacts : c \in buffer[a]
  <2>1. c \in UNION Range(buffer)
    BY <1>2 DEF AsyncTyped, Typed, BufferOK, Range
  <2>2. QED
    BY <2>1 DEF Held
<1>3. CASE Carries(items, c)
  <2>1. c \in Carried(items)
    BY <1>3 DEF Carries, Carried, Range
  <2>2. QED
    BY <2>1 DEF Held
<1>4. CASE \E i \in Live : Carries(gate[i].cands, c)
  <2>1. PICK i \in 1..Len(gate) : Carries(gate[i].cands, c)
    BY <1>4 DEF Live
  <2>2. c \in Carried(gate[i].cands)
    BY <2>1 DEF Carries, Carried, Range
  <2>3. gate[i] \in Range(gate)
    BY DEF AsyncTyped, MergerOK, Range
  <2>4. c \in UNION {Carried(b.cands) : b \in Range(gate)}
    BY <2>2, <2>3
  <2>5. QED
    BY <2>4 DEF Held
<1>5. QED
  BY <1>1, <1>2, <1>3, <1>4 DEF Kept

LEMMA HeldIsKept ==
    ASSUME AsyncTyped, Listed, NEW c \in Cards, fate[c] = "open", c \in Held
    PROVE  Kept(c)
<1>1. CASE c \in intake \union batch
  BY <1>1 DEF Kept
<1>2. CASE c \in UNION Range(buffer)
  BY <1>2 DEF Kept, Range, AsyncTyped, Typed, BufferOK
<1>3. CASE c \in Carried(items)
  BY <1>3 DEF Kept, Carries, Carried, Range
<1>4. CASE c \in UNION {Carried(b.cands) : b \in Range(gate)}
  <2>1. PICK i \in DOMAIN gate : c \in Carried(gate[i].cands)
    BY <1>4 DEF Range
  <2>2. i \in 1..Len(gate)
    BY DEF AsyncTyped, MergerOK
  <2>3. Carries(gate[i].cands, c)
    BY <2>1 DEF Carries, Carried, Range
  <2>4. QED
    BY <2>2, <2>3 DEF Listed
<1>5. QED
  BY <1>1, <1>2, <1>3, <1>4 DEF Held

\* No card is dropped on its way from the worker that proposed it to its outcome, whatever a worker, a
\* measurement on the pool, the bookkeeping or a caller's bug does in between: unless the frame that
\* held it on the merger's thread is left by an exception.
THEOREM EvidenceIsKept == Spec => NoEvidenceLost
<1> DEFINE Keeps == \A c \in Cards :
                       fate'[c] = "open" /\ (fate[c] = "open" => c \in Held) => c \in Held' \/ Thrown
       Holds == \A c \in Cards : Kept(c) => c \in Held
<1>1. AsyncTyped => Holds
  BY KeptIsHeld
<1>2. AsyncTyped /\ Holds' /\ Tidy /\ Listed /\ [Next]_vars => Keeps
  <2> SUFFICES ASSUME AsyncTyped, Holds', Tidy, Listed, [Next]_vars, ~Thrown,
                      NEW c \in Cards, fate'[c] = "open", fate[c] = "open" => c \in Held
               PROVE  c \in Held'
    OBVIOUS
  <2>1. fate[c] = "open" => Kept(c)
    BY HeldIsKept
  <2>2. Tracked({c}) /\ {c} \in SUBSET Cards
    BY <2>1 DEF Tracked
  <2>3. Tracked({c})'
    BY <2>2, TrackedKept
  <2>4. Kept(c)'
    BY <2>3 DEF Tracked
  <2>5. QED
    BY <2>4
<1>3. QED
  BY <1>1, <1>2, AsyncTypedAlways, TidyAlways, ListedAlways, PTL DEF Spec, NoEvidenceLost

(***************************************************************************)
(* One outcome                                                             *)
(***************************************************************************)
InBuffer(c) == \E a \in Artifacts : c \in buffer[a]

OnPool(c) == \E i \in Live : Carries(gate[i].cands, c)

\* A card on its way to the buffer is nowhere else.
Waiting ==
    /\ intake \intersect batch = {}
    /\ \A c \in intake \union batch :
          fate[c] = "open" /\ ~InBuffer(c) /\ ~Carries(items, c) /\ ~OnPool(c)

\* Nor is one that is out being measured.
Measuring ==
    /\ \A i \in Live : \A k \in DOMAIN gate[i].cands : gate[i].cands[k].chosen \subseteq gate[i].cands[k].cards
    /\ \A i \in Live : \A k, l \in DOMAIN gate[i].cands :
          k # l => gate[i].cands[k].cards \intersect gate[i].cands[l].cards = {}
    /\ \A c \in Cards : OnPool(c) => fate[c] = "open" /\ ~InBuffer(c) /\ ~Carries(items, c)
    /\ \A c \in Cards : \A i, j \in Live :
          Carries(gate[i].cands, c) /\ Carries(gate[j].cands, c) => i = j

Spread == OnePlace /\ Waiting /\ Measuring

\* Cards that only leave where they are, or go from the buffer into a candidate.
LEMMA RestsSpread ==
    ASSUME AsyncTyped, Spread, OnePlace', Live' \subseteq Live,
           \A i \in Live : gate'[i].cands = gate[i].cands,
           intake' \union batch' \subseteq intake \union batch, intake' \intersect batch' = {},
           \A a \in Artifacts : buffer'[a] \subseteq buffer[a],
           \A c \in Cards : Carries(items', c) => Carries(items, c) \/ InBuffer(c),
           \A c \in Cards : fate'[c] # fate[c] => Carries(items, c) \/ InBuffer(c)
    PROVE  Spread'
<1>1. intake \union batch \subseteq Cards
  BY DEF AsyncTyped, SharedOK, MergerOK
<1>2. \A c \in Cards : /\ InBuffer(c)' => InBuffer(c)
                       /\ OnPool(c)' => OnPool(c)
                       /\ Carries(items, c)' => Carries(items, c) \/ InBuffer(c)
  BY DEF InBuffer, OnPool, Carries
<1>3. Waiting'
  <2>1. ASSUME NEW c \in intake' \union batch'
        PROVE  (fate[c] = "open" /\ ~InBuffer(c) /\ ~Carries(items, c) /\ ~OnPool(c))'
    <3>1. c \in Cards /\ fate[c] = "open" /\ ~InBuffer(c) /\ ~Carries(items, c) /\ ~OnPool(c)
      BY <1>1 DEF Spread, Waiting
    <3>2. QED
      BY <1>2, <3>1
  <2>2. QED
    BY <2>1 DEF Waiting
<1>4. Measuring'
  <2>1. ASSUME NEW c \in Cards, OnPool(c)'
        PROVE  (fate[c] = "open" /\ ~InBuffer(c) /\ ~Carries(items, c))'
    <3>1. fate[c] = "open" /\ ~InBuffer(c) /\ ~Carries(items, c)
      BY <1>2, <2>1 DEF Spread, Measuring
    <3>2. QED
      BY <1>2, <3>1
  <2>2. ASSUME NEW c \in Cards, NEW i \in Live', NEW j \in Live',
               Carries(gate[i].cands, c)', Carries(gate[j].cands, c)'
        PROVE  i = j
    <3>1. Carries(gate[i].cands, c) /\ Carries(gate[j].cands, c)
      BY <2>2 DEF Carries
    <3>2. QED
      BY <3>1 DEF Spread, Measuring
  <2>3. \A i \in Live' : /\ i \in Live /\ gate'[i].cands = gate[i].cands
    OBVIOUS
  <2>4. /\ \A i \in Live' : \A k \in DOMAIN gate'[i].cands :
              gate'[i].cands[k].chosen \subseteq gate'[i].cands[k].cards
        /\ \A i \in Live' : \A k, l \in DOMAIN gate'[i].cands :
              k # l => gate'[i].cands[k].cards \intersect gate'[i].cands[l].cards = {}
    BY <2>3 DEF Spread, Measuring
  <2>5. QED
    BY <2>1, <2>2, <2>4 DEF Measuring
<1>5. QED
  BY <1>3, <1>4 DEF Spread

\* What the aggregator does with the cards of its buffer and of the batch in hand.
LEMMA AggregatorSpreads ==
    ASSUME AsyncTyped, Spread,
           \/ StepBegins \/ PrepareFails \/ StepMeasures \/ NothingToScore \/ Finishes \/ Finished
    PROVE  /\ OnePlace'
           /\ \A a \in Artifacts : buffer'[a] \subseteq buffer[a]
           /\ \A c \in Cards : Carries(items', c) => Carries(items, c) \/ InBuffer(c)
           /\ \A c \in Cards : fate'[c] # fate[c] => /\ fate[c] = "open"
                                                     /\ Carries(items, c) \/ InBuffer(c)
<1> USE DEF AsyncTyped, Spread
<1>1. \A c \in Cards : ~Carries(<<>>, c)
  BY DEF Carries
<1>2. ASSUME UNCHANGED <<buffer, card, fate>>, items' = items \/ items' = <<>>
      PROVE  /\ OnePlace'
             /\ \A a \in Artifacts : buffer'[a] \subseteq buffer[a]
             /\ \A c \in Cards : Carries(items', c) => Carries(items, c)
             /\ \A c \in Cards : fate'[c] = fate[c]
  BY <1>1, <1>2, SameCards
<1>3. ASSUME NEW a \in Artifacts, Prepare(a)
      PROVE  /\ OnePlace'
             /\ \A b \in Artifacts : buffer'[b] \subseteq buffer[b]
             /\ \A c \in Cards : Carries(items', c) => Carries(items, c) \/ InBuffer(c)
             /\ \A c \in Cards : fate'[c] # fate[c] => fate[c] = "open" /\ InBuffer(c)
  <2>1. OnePlace'
    BY <1>3, PrepareKeepsPlaces
  <2>2. PICK settled \in SUBSET buffer[a] :
          /\ fate' = Fated(settled, "settled")
          /\ \/ items' = items
             \/ \E survivors \in SUBSET (buffer[a] \ settled) : \E chosen \in SUBSET survivors :
                   PutForward(a, survivors, chosen)
    BY <1>3, PrepareCards
  <2>3. \A b \in Artifacts : buffer'[b] \subseteq buffer[b]
    BY <1>3 DEF Prepare, Drained, Typed, BufferOK
  <2>4. \A c \in Cards : fate'[c] # fate[c] => fate[c] = "open" /\ InBuffer(c)
    BY <2>2 DEF Fated, OnePlace, InBuckets, InBuffer
  <2>5. ASSUME NEW survivors \in SUBSET (buffer[a] \ settled), NEW chosen,
               PutForward(a, survivors, chosen), NEW c \in Cards, Carries(items', c)
        PROVE  Carries(items, c) \/ InBuffer(c)
    <3> DEFINE i == [art |-> a, ver |-> ver[a], content |-> content[a], chosen |-> chosen,
                     cards |-> survivors, tries |-> 0]
    <3>1. items' = Append(items, i) /\ i.cards = survivors
      BY <2>5 DEF PutForward
    <3> HIDE DEF i
    <3>2. \A k \in DOMAIN items' : items'[k] = i \/ (k \in DOMAIN items /\ items'[k] = items[k])
      BY <3>1 DEF Typed, WorkOK
    <3>3. QED
      BY <2>5, <3>1, <3>2 DEF Carries, InBuffer
  <2>6. QED
    BY <2>1, <2>2, <2>3, <2>4, <2>5
<1>4. ASSUME Reject \/ GiveUp \/ Commit
      PROVE  /\ OnePlace'
             /\ \A a \in Artifacts : buffer'[a] \subseteq buffer[a]
             /\ \A c \in Cards : Carries(items', c) => Carries(items, c)
             /\ \A c \in Cards : fate'[c] # fate[c] => fate[c] = "open" /\ Carries(items, c)
  <2>1. /\ items # <<>> /\ items' = Tail(items) /\ UNCHANGED <<buffer, card>>
        /\ \A c \in Cards \ InHand.cards : fate'[c] = fate[c]
        /\ \A c \in InHand.cards : fate[c] = "open"
    <3>1. items' = Tail(items)
      BY <1>4 DEF Reject, GiveUp, Commit, Decided
    <3>2. QED
      BY <1>4, <3>1, DecidesTheHead DEF Commit
  <2>2. InHand = items[1] /\ 1 \in DOMAIN items
        /\ \A k \in DOMAIN items' : k + 1 \in DOMAIN items /\ items'[k] = items[k + 1]
    BY <2>1, HeadAndTail DEF Typed
  <2>3. OnePlace'
    BY <2>1, HeadDecided
  <2>4. \A c \in Cards : Carries(items', c) => Carries(items, c)
    BY <2>2 DEF Carries
  <2>5. \A c \in InHand.cards : Carries(items, c)
    BY <2>2 DEF Carries
  <2>6. QED
    BY <2>1, <2>3, <2>4, <2>5
<1>5. ASSUME Rebase
      PROVE  /\ OnePlace' /\ UNCHANGED <<buffer, fate>>
             /\ \A c \in Cards : Carries(items', c) => Carries(items, c)
  <2>1. OnePlace'
    BY <1>5, RebaseKeepsPlaces
  <2>2. /\ items # <<>> /\ InHand \in Candidate /\ InHand = items[1] /\ 1 \in DOMAIN items
        /\ items' = <<Rebased(InHand)>> \o Tail(items)
        /\ UNCHANGED <<buffer, card, fate>>
    BY <1>5, HeadAndTail DEF Rebase, CommitBelowBound, Typed, bufvars
  <2>3. Rebased(InHand).cards = InHand.cards
    BY <2>2 DEF Rebased, Candidate
  <2>4. /\ items'[1] = Rebased(InHand) /\ DOMAIN items' = DOMAIN items
        /\ \A k \in DOMAIN items \ {1} : items'[k] = items[k]
    BY <2>2 DEF Typed, WorkOK
  <2>5. \A k \in DOMAIN items : items'[k].cards = items[k].cards
    BY <2>2, <2>3, <2>4
  <2>6. QED
    BY <2>1, <2>2, <2>4, <2>5 DEF Carries
<1>6. ASSUME BeginStep(SkipInFlight) \/ Prepared \/ Measure \/ MeasureRaises \/ Accept \/ AllDecided
             \/ Observe \/ StepReturns \/ DecideRaises \/ PromoteRaises \/ NothingToScore
      PROVE  UNCHANGED <<buffer, card, fate>> /\ (items' = items \/ items' = <<>>)
  BY <1>6 DEF BeginStep, Prepared, Measure, MeasureRaises, Accept, AllDecided, Observe, StepReturns,
              DecideRaises, LeavesDecision, PromoteRaises, NothingToScore, Unwinds, bufvars
<1>7. ASSUME NEW a \in Artifacts, Promote(a)
      PROVE  UNCHANGED <<buffer, card, fate>> /\ items' = items
  BY <1>7 DEF Promote, bufvars
<1>8. ASSUME NEW a \in Artifacts, PrepareRaises(a)
      PROVE  /\ OnePlace' /\ items' = <<>>
             /\ \A b \in Artifacts : buffer'[b] \subseteq buffer[b]
             /\ \A c \in Cards : fate'[c] # fate[c] => fate[c] = "open" /\ InBuffer(c)
  <2>1. OnePlace' /\ items' = <<>>
    BY <1>8, BucketLost DEF PrepareRaises, Unwinds
  <2>2. \A b \in Artifacts : buffer'[b] \subseteq buffer[b]
    BY <1>8 DEF PrepareRaises, Drained, Typed, BufferOK
  <2>3. \A c \in Cards : fate'[c] # fate[c] => fate[c] = "open" /\ InBuffer(c)
    BY <1>8 DEF PrepareRaises, Fated, OnePlace, InBuckets, InBuffer
  <2>4. QED
    BY <2>1, <2>2, <2>3
<1>9. ASSUME CommitRaises
      PROVE  /\ OnePlace' /\ items' = <<>> /\ UNCHANGED buffer
             /\ \A c \in Cards : fate'[c] # fate[c] => fate[c] = "open" /\ Carries(items, c)
  <2>1. /\ items # <<>> /\ UNCHANGED buffer /\ items' = <<>>
        /\ \A c \in Cards \ InHand.cards : fate'[c] = fate[c]
        /\ \A c \in InHand.cards : fate[c] = "open"
    BY <1>9, DecidesTheHead DEF CommitRaises, LeavesDecision, Unwinds
  <2>2. \A c \in InHand.cards : Carries(items, c)
    BY <2>1, HeadAndTail DEF Typed, Carries
  <2>3. QED
    BY <1>9, <2>1, <2>2, CommitRaisesKeepsPlaces
<1>10. CASE StepBegins
  BY <1>2, <1>3, <1>6, <1>10 DEF StepBegins
<1>11. CASE PrepareFails
  BY <1>1, <1>8, <1>11 DEF PrepareFails
<1>12. CASE StepMeasures \/ NothingToScore \/ Finished
  BY <1>2, <1>6, <1>12 DEF StepMeasures, Finished
<1>13. CASE Finishes /\ ~CommitRaises
  BY <1>2, <1>4, <1>5, <1>6, <1>7, <1>13 DEF Finishes, Finishing
<1>14. CASE CommitRaises
  BY <1>1, <1>9, <1>14
<1>15. QED
  BY <1>10, <1>11, <1>12, <1>13, <1>14

LEMMA InStepSpread ==
    ASSUME DecidesOnce, AsyncTyped, Exclusive, Spread,
           \/ StepBegins \/ PrepareFails \/ StepMeasures \/ NothingToScore \/ Finishes \/ Finished
    PROVE  Spread'
<1>1. UNCHANGED <<gate, intake, batch>> /\ mpc \in {"step", "collect"}
  BY DEF StepBegins, PrepareFails, StepMeasures, NothingToScore, Finishes, Finished, Raises, engine,
         merger, shared
<1>2. Live' \subseteq Live
  <2>1. CASE mpc = "step"
    <3>1. Live = 1..Len(gate)
      BY <2>1 DEF Live
    <3>2. QED
      BY <1>1, <3>1 DEF Live
  <2>2. CASE mpc = "collect" /\ FinishRaises
    <3>1. ~Pipelined
      BY <2>2 DEF FinishRaises, DecideRaises, CommitRaises, PromoteRaises, LeavesDecision, DecidesOnce
    <3>2. gate = <<>> /\ Len(<<>>) = 0
      BY <3>1 DEF Exclusive, PoolOK
    <3>3. QED
      BY <1>1, <3>2 DEF Live
  <2>3. CASE mpc = "collect" /\ Finishes /\ ~FinishRaises
    <3>1. UNCHANGED <<mpc, scan>> /\ Finishing
      BY <2>3 DEF Finishes, FinishRaises, merger
    <3>2. phase # "idle" /\ phase' # "idle"
      BY <2>3, <3>1 DEF Finishing, Reject, Accept, Commit, Rebase, GiveUp, AllDecided, Observe, Promote,
                        Land, Decided
    <3>3. QED
      BY <1>1, <3>1, <3>2 DEF Live
  <2>4. CASE mpc = "collect" /\ Finished
    <3>1. mpc' = "collect" /\ scan' = [scan EXCEPT !.at = scan.at + 1] /\ phase = "promote" /\ phase' = "idle"
      BY <2>4 DEF Finished, StepReturns, Unwinds
    <3>2. scan'.at = scan.at + 1 /\ scan'.still = scan.still /\ scan.at \in Nat /\ Len(gate) \in Nat
      BY <3>1 DEF AsyncTyped, MergerOK
    <3>3. ASSUME NEW i \in Live' PROVE i \in Live
      <4>1. i \in 1..Len(gate) /\ (i > scan.at \/ \E n \in DOMAIN scan.still : scan.still[n] = i)
        BY <1>1, <3>1, <3>2 DEF Live
      <4>2. QED
        BY <4>1 DEF Live
    <3>4. QED
      BY <3>3
  <2>5. QED
    BY <1>1, <2>1, <2>2, <2>3, <2>4 DEF StepBegins, PrepareFails, StepMeasures, NothingToScore
<1>3. QED
  BY <1>1, <1>2, AggregatorSpreads, RestsSpread DEF Spread, Waiting

\* Everything else that leaves the buffer and the batch in hand alone.
LEMMA QuietSpread ==
    ASSUME AsyncTyped, Spread, UNCHANGED <<buffer, card, fate, items>>, Live' \subseteq Live,
           \A i \in Live : gate'[i].cands = gate[i].cands,
           intake' \union batch' \subseteq intake \union batch, intake' \intersect batch' = {}
    PROVE  Spread'
<1>1. OnePlace'
  BY SameCards DEF Spread
<1>2. \A c \in Cards : Carries(items', c) => Carries(items, c)
  OBVIOUS
<1>3. QED
  BY <1>1, <1>2, RestsSpread

LEMMA ThreadsSpread ==
    ASSUME AsyncTyped, Spread,
           \/ \E w \in Workers : WorkerProceeds(w) \/ RolloutEnds(w) \/ RolloutRaises(w) \/ RolloutBreaks(w)
           \/ Deadline \/ MainStep \/ UNCHANGED vars \/ StopSeen \/ DrainEnds
    PROVE  Spread'
<1>1. UNCHANGED <<fate, buffer, card, items, gate, intake, batch, mpc, scan, phase>>
  BY DEF WorkerProceeds, Snapshot, CatchUp, LoopTop, PassGate, Look, RolloutEnds, RolloutRaises,
         RolloutBreaks, Deadline, MainStep, MainStops, MainJoins, MainEnds, StopSeen, DrainEnds, vars,
         engine, aggVars, bufvars, work, merger, shared
<1>2. Live' = Live
  BY <1>1 DEF Live
<1>3. QED
  BY <1>1, <1>2, QuietSpread DEF Spread, Waiting

LEMMA ScoredSpread ==
    ASSUME AsyncTyped, Spread, NEW i \in 1..Len(gate), Scored(i)
    PROVE  Spread'
<1>1. UNCHANGED <<fate, buffer, card, items, intake, batch, mpc, scan, phase>>
  BY DEF Scored, aggVars, bufvars, work, shared
<1>2. PICK st \in {"running", "measured", "failed"} : gate' = [gate EXCEPT ![i].st = st]
  BY DEF Scored
<1>3. gate \in Seq(Batch) /\ gate[i] \in Batch /\ i \in DOMAIN gate
  <2>1. gate \in Seq(Batch)
    BY DEF AsyncTyped, MergerOK
  <2>2. QED
    BY <2>1
<1> DEFINE b == [gate[i] EXCEPT !.st = st]
<1>4. b.cands = gate[i].cands /\ gate' = [gate EXCEPT ![i] = b]
  BY <1>2, <1>3, Rescored DEF Batch
<1> HIDE DEF b
<1>5. Len(gate') = Len(gate) /\ \A j \in 1..Len(gate) : gate'[j].cands = gate[j].cands
  BY <1>3, <1>4
<1>6. Live' = Live /\ Live \subseteq 1..Len(gate)
  BY <1>1, <1>5 DEF Live
<1>7. QED
  BY <1>1, <1>5, <1>6, QuietSpread DEF Spread, Waiting

LEMMA BetweenSweepsSpread ==
    ASSUME DecidesOnce, AsyncTyped, Exclusive, Spread,
           \/ TakeIntake \/ NothingLeft \/ NothingToRecord \/ PublishHead \/ Record \/ ScoreRaises
           \/ Recover \/ Breaks \/ CollectRaises
    PROVE  Spread'
<1>1. UNCHANGED <<fate, buffer, card, items, gate>>
  BY DEF TakeIntake, NothingLeft, NothingToRecord, PublishHead, Record, ScoreRaises, Recover,
         Breaks, CollectRaises, AtBatch, Raises, aggVars, bufvars, work
<1>2. intake' \union batch' \subseteq intake \union batch /\ intake' \intersect batch' = {}
  <2>1. CASE TakeIntake
    BY <2>1 DEF TakeIntake
  <2>2. CASE ~TakeIntake
    BY <2>2 DEF NothingLeft, NothingToRecord, PublishHead, Record, ScoreRaises, Recover, Breaks,
                CollectRaises, Raises, Spread, Waiting, shared
  <2>3. QED
    BY <2>1, <2>2
<1>3. Live' \subseteq Live
  <2>1. CASE mpc # "collect"
    <3>1. Live = 1..Len(gate)
      BY <2>1 DEF Live
    <3>2. QED
      BY <1>1, <3>1 DEF Live
  <2>2. CASE mpc = "collect"
    <3>1. CollectRaises
      BY <2>2 DEF TakeIntake, NothingLeft, NothingToRecord, PublishHead, Record, ScoreRaises, Recover, Breaks
    <3>2. /\ phase = "idle" /\ scan.at \in 1..Len(gate) /\ Len(gate) \in Nat
          /\ gate[scan.at].st = "failed"
      BY <3>1 DEF CollectRaises, AtBatch, AsyncTyped, MergerOK
    <3>3. Len(gate) <= 1
      <4>1. gate \in Seq(Batch)
        BY DEF AsyncTyped, MergerOK
      <4>2. scan.at \in DOMAIN gate
        BY <3>2, <4>1
      <4>3. QED
        BY <3>2, <4>2 DEF Exclusive, PoolOK
    <3>4. \A i \in 1..Len(gate) : i = scan.at
      BY <3>2, <3>3
    <3>5. QED
      BY <1>1, <3>2, <3>4 DEF Live
  <2>3. QED
    BY <2>1, <2>2
<1>4. QED
  BY <1>1, <1>2, <1>3, QuietSpread

LEMMA SkipSpread ==
    ASSUME AsyncTyped, Spread, SkipRunning
    PROVE  Spread'
<1> DEFINE t == scan.still
           x == scan.at
<1>1. /\ UNCHANGED <<fate, buffer, card, items, gate, intake, batch, phase, mpc>> /\ phase = "idle"
      /\ mpc = "collect" /\ scan' = [at |-> x + 1, still |-> Append(t, x)] /\ x <= Len(gate)
  BY DEF SkipRunning, AtBatch, aggVars, bufvars, work, shared
<1>2. scan'.at = x + 1 /\ scan'.still = Append(t, x) /\ x \in Nat /\ t \in Seq(Nat) /\ Len(gate) \in Nat
  BY <1>1 DEF AsyncTyped, MergerOK
<1> HIDE DEF t, x
<1>3. \A n \in DOMAIN Append(t, x) : (n \in DOMAIN t /\ Append(t, x)[n] = t[n]) \/ Append(t, x)[n] = x
  BY <1>2
<1>4. ASSUME NEW i \in Live' PROVE i \in Live
  <2>1. i \in 1..Len(gate) /\ (i > x \/ i = x \/ \E n \in DOMAIN t : t[n] = i)
    BY <1>1, <1>2, <1>3 DEF Live
  <2>2. QED
    BY <1>1, <2>1 DEF Live, t, x
<1>5. Live' \subseteq Live
  BY <1>4
<1>6. QED
  BY <1>1, <1>5, QuietSpread DEF Spread, Waiting

\* A proposal takes a card that is nowhere yet.
LEMMA ProposeSpread ==
    ASSUME ~Reuse, AsyncTyped, Spread, NEW w \in Workers, NEW a \in Artifacts, NEW c \in Cards,
           Propose(w, a, c)
    PROVE  /\ Spread'
           /\ \A d \in Cards : fate[d] \notin {"unused", "open"} => fate'[d] = fate[d]
<1>1. /\ UNCHANGED <<buffer, items, gate, batch, mpc, scan, phase>> /\ fate[c] = "unused"
      /\ intake' = intake \union {c} /\ fate' = [fate EXCEPT ![c] = "open"]
      /\ card' = [card EXCEPT ![c] = [art |-> a, base |-> base[w][a]]]
  BY DEF Propose, Fresh, work, merger
<1>2. Live' = Live
  BY <1>1 DEF Live
<1>3. /\ ~InBuffer(c) /\ ~Carries(items, c) /\ ~OnPool(c) /\ c \notin batch
  BY <1>1 DEF Spread, OnePlace, InBuckets, InCandidates, InBuffer, Carries, Measuring, Waiting
<1>4. \A d \in Cards : d # c => fate'[d] = fate[d] /\ card'[d] = card[d]
  BY <1>1 DEF AsyncTyped, Typed, HistoryOK, BufferOK
<1>5. fate'[c] = "open"
  BY <1>1 DEF AsyncTyped, Typed, HistoryOK
<1>6. OnePlace'
  <2>1. \A b \in Artifacts : \A d \in buffer[b] : d # c /\ d \in Cards
    BY <1>3 DEF InBuffer, AsyncTyped, Typed, BufferOK
  <2>2. \A k \in DOMAIN items : \A d \in items[k].cards : d # c /\ d \in Cards
    <3> SUFFICES ASSUME NEW k \in DOMAIN items PROVE \A d \in items[k].cards : d # c /\ d \in Cards
      OBVIOUS
    <3>1. items[k] \in Candidate
      BY ItemArts
    <3>2. items[k].cards \subseteq Cards
      BY <3>1 DEF Candidate
    <3>3. QED
      BY <1>3, <3>2 DEF Carries
  <2>3. InBuckets'
    BY <1>1, <1>4, <2>1 DEF Spread, OnePlace, InBuckets
  <2>4. InCandidates' /\ InOneCandidate'
    BY <1>1, <1>4, <2>2 DEF Spread, OnePlace, InCandidates, InOneCandidate
  <2>5. QED
    BY <2>3, <2>4 DEF OnePlace
<1>7. \A d \in Cards : /\ InBuffer(d)' = InBuffer(d) /\ OnPool(d)' = OnPool(d)
                       /\ Carries(items, d)' = Carries(items, d)
  BY <1>1, <1>2 DEF InBuffer, OnPool, Carries
<1>8. intake \union batch \subseteq Cards
  BY DEF AsyncTyped, SharedOK, MergerOK
<1>9. Waiting'
  <2>1. ASSUME NEW d \in intake' \union batch'
        PROVE  (fate[d] = "open" /\ ~InBuffer(d) /\ ~Carries(items, d) /\ ~OnPool(d))'
    <3>1. CASE d = c
      BY <1>3, <1>5, <1>7, <3>1
    <3>2. CASE d # c
      <4>1. d \in intake \union batch /\ d \in Cards
        BY <1>1, <1>8, <2>1, <3>2
      <4>2. fate[d] = "open" /\ ~InBuffer(d) /\ ~Carries(items, d) /\ ~OnPool(d)
        BY <4>1 DEF Spread, Waiting
      <4>3. QED
        BY <1>4, <1>7, <3>2, <4>1, <4>2
    <3>3. QED
      BY <3>1, <3>2
  <2>2. intake' \intersect batch' = {}
    BY <1>1, <1>3 DEF Spread, Waiting
  <2>3. QED
    BY <2>1, <2>2 DEF Waiting
<1>10. Measuring'
  <2>1. ASSUME NEW d \in Cards, OnPool(d)'
        PROVE  (fate[d] = "open" /\ ~InBuffer(d) /\ ~Carries(items, d))'
    <3>1. OnPool(d) /\ d # c
      BY <1>3, <1>7, <2>1
    <3>2. fate[d] = "open" /\ ~InBuffer(d) /\ ~Carries(items, d)
      BY <3>1 DEF Spread, Measuring
    <3>3. QED
      BY <1>4, <1>7, <3>1, <3>2
  <2>2. QED
    BY <1>1, <1>2, <2>1 DEF Spread, Measuring, Carries
<1>11. QED
  BY <1>1, <1>4, <1>6, <1>9, <1>10 DEF Spread

LEMMA SubmitSpread ==
    ASSUME AsyncTyped, Spread, Submit
    PROVE  Spread'
<1> DEFINE b == [cands |-> items, reports |-> reports, st |-> "running"]
           n == Len(gate) + 1
<1>1. /\ UNCHANGED <<fate, buffer, card, intake, batch>> /\ mpc = "step" /\ mpc' = "after"
      /\ items' = <<>> /\ gate' = Append(gate, b)
  BY DEF Submit, Unwinds, bufvars, shared
<1>2. b.cands = items
  OBVIOUS
<1>3. gate \in Seq(Batch) /\ b \in Batch
  BY DEF AsyncTyped, MergerOK, Typed, WorkOK, Batch
<1> HIDE DEF b
<1>4. /\ Len(gate') = n /\ gate'[n].cands = items /\ n \notin 1..Len(gate)
      /\ \A i \in 1..n : i = n \/ (i \in 1..Len(gate) /\ gate'[i] = gate[i])
  BY <1>1, <1>2, <1>3
<1> HIDE DEF n
<1>5. Live = 1..Len(gate) /\ Live' = 1..n
  BY <1>1, <1>4 DEF Live
<1>6. OnePlace'
  BY <1>1, SameCards DEF Spread
<1>7. \A c \in Cards : /\ OnPool(c)' => OnPool(c) \/ Carries(items, c)
                       /\ InBuffer(c)' = InBuffer(c) /\ ~Carries(items, c)'
  BY <1>1, <1>4, <1>5 DEF OnPool, InBuffer, Carries
<1>8. Waiting'
  <2>1. ASSUME NEW c \in intake \union batch
        PROVE  (fate[c] = "open" /\ ~InBuffer(c) /\ ~Carries(items, c) /\ ~OnPool(c))'
    <3>1. c \in Cards
      BY DEF AsyncTyped, SharedOK, MergerOK
    <3>2. fate[c] = "open" /\ ~InBuffer(c) /\ ~Carries(items, c) /\ ~OnPool(c)
      BY DEF Spread, Waiting
    <3>3. QED
      BY <1>1, <1>7, <3>1, <3>2
  <2>2. QED
    BY <1>1, <2>1 DEF Spread, Waiting
<1>9. \A i \in Live' : \/ gate'[i].cands = items /\ i = n
                       \/ gate'[i].cands = gate[i].cands /\ i \in Live
  BY <1>4, <1>5
<1>10. Measuring'
  <2>1. ASSUME NEW c \in Cards, OnPool(c)'
        PROVE  (fate[c] = "open" /\ ~InBuffer(c) /\ ~Carries(items, c))'
    <3>1. fate[c] = "open" /\ ~InBuffer(c)
      <4>1. CASE OnPool(c)
        BY <4>1 DEF Spread, Measuring
      <4>2. CASE Carries(items, c)
        BY <4>2 DEF Spread, OnePlace, InCandidates, Carries, InBuffer
      <4>3. QED
        BY <1>7, <2>1, <4>1, <4>2
    <3>2. QED
      BY <1>1, <1>7, <3>1
  <2>2. ASSUME NEW c \in Cards, NEW i \in Live', NEW j \in Live',
               Carries(gate'[i].cands, c), Carries(gate'[j].cands, c)
        PROVE  i = j
    <3>1. \A k \in Live : Carries(gate[k].cands, c) => ~Carries(items, c)
      BY DEF Spread, Measuring, OnPool
    <3>2. QED
      BY <1>9, <2>2, <3>1 DEF Spread, Measuring
  <2>3. ASSUME NEW i \in Live'
        PROVE  /\ \A k \in DOMAIN gate'[i].cands : gate'[i].cands[k].chosen \subseteq gate'[i].cands[k].cards
               /\ \A k, l \in DOMAIN gate'[i].cands :
                     k # l => gate'[i].cands[k].cards \intersect gate'[i].cands[l].cards = {}
    <3>1. CASE gate'[i].cands = items
      BY <3>1 DEF Spread, OnePlace, InCandidates, InOneCandidate
    <3>2. CASE gate'[i].cands = gate[i].cands /\ i \in Live
      BY <3>2 DEF Spread, Measuring
    <3>3. QED
      BY <1>9, <3>1, <3>2
  <2>4. QED
    BY <2>1, <2>2, <2>3 DEF Measuring, Carries
<1>11. QED
  BY <1>6, <1>8, <1>10 DEF Spread

LEMMA CollectSpread ==
    ASSUME AsyncTyped, Exclusive, Spread, CollectMeasured
    PROVE  Spread'
<1> DEFINE x == scan.at
<1>1. /\ UNCHANGED <<fate, buffer, card, gate, intake, batch, mpc, scan>> /\ mpc = "collect"
      /\ phase = "idle" /\ x <= Len(gate) /\ phase' = "decide" /\ items' = gate[x].cands
  BY DEF CollectMeasured, AtBatch, bufvars, engine, merger, shared
<1>2. /\ x \in Nat \ {0} /\ Len(gate) \in Nat /\ gate \in Seq(Batch) /\ items = <<>>
      /\ \A n \in DOMAIN scan.still : scan.still[n] < x /\ scan.still[n] \in Nat
  BY <1>1 DEF AsyncTyped, MergerOK, Phased, Exclusive, Walk
<1>3. x \in Live /\ Live' \subseteq Live /\ x \notin Live'
  BY <1>1, <1>2 DEF Live
<1>4. \A k \in DOMAIN items' : items'[k] \in Candidate /\ items'[k].cards \subseteq Cards
  <2>1. gate[x] \in Batch
    BY <1>1, <1>2
  <2>2. \A k \in DOMAIN gate[x].cands : gate[x].cands[k] \in Candidate
    BY <2>1 DEF Batch
  <2>3. QED
    BY <1>1, <2>2 DEF Candidate
<1>5. \A c \in Cards : /\ Carries(items', c) => OnPool(c)
                       /\ OnPool(c)' => OnPool(c) /\ ~Carries(items', c)
                       /\ InBuffer(c)' = InBuffer(c)
  <2> SUFFICES ASSUME NEW c \in Cards
               PROVE  /\ Carries(items', c) => OnPool(c)
                      /\ OnPool(c)' => OnPool(c) /\ ~Carries(items', c)
                      /\ InBuffer(c)' = InBuffer(c)
    OBVIOUS
  <2>1. Carries(items', c) => OnPool(c)
    BY <1>1, <1>3 DEF OnPool
  <2>2. ASSUME OnPool(c)' PROVE OnPool(c) /\ ~Carries(items', c)
    <3>1. PICK i \in Live' : Carries(gate[i].cands, c)
      BY <1>1, <2>2 DEF OnPool, Carries
    <3>2. i \in Live /\ i # x
      BY <1>3
    <3>3. QED
      BY <1>1, <1>3, <3>1, <3>2 DEF Spread, Measuring, OnPool
  <2>3. QED
    BY <1>1, <2>1, <2>2 DEF InBuffer
<1>6. OnePlace'
  <2>1. InBuckets'
    BY <1>1 DEF Spread, OnePlace, InBuckets
  <2>2. ASSUME NEW k \in DOMAIN items'
        PROVE  /\ items'[k].chosen \subseteq items'[k].cards
               /\ \A c \in items'[k].cards : fate[c] = "open" /\ \A a \in Artifacts : c \notin buffer[a]
    <3>1. items'[k].chosen \subseteq items'[k].cards
      BY <1>1, <1>3 DEF Spread, Measuring
    <3>2. ASSUME NEW c \in items'[k].cards PROVE fate[c] = "open" /\ ~InBuffer(c)
      <4>1. c \in Cards /\ Carries(items', c)
        BY <1>4 DEF Carries
      <4>2. QED
        BY <1>5, <4>1 DEF Spread, Measuring
    <3>3. QED
      BY <3>1, <3>2 DEF InBuffer
  <2>3. InCandidates'
    BY <1>1, <2>2 DEF InCandidates
  <2>4. InOneCandidate'
    BY <1>1, <1>3 DEF Spread, Measuring, InOneCandidate
  <2>5. QED
    BY <2>1, <2>3, <2>4 DEF OnePlace
<1>7. Waiting'
  <2>1. ASSUME NEW c \in intake \union batch
        PROVE  (fate[c] = "open" /\ ~InBuffer(c) /\ ~Carries(items, c) /\ ~OnPool(c))'
    <3>1. c \in Cards
      BY DEF AsyncTyped, SharedOK, MergerOK
    <3>2. fate[c] = "open" /\ ~InBuffer(c) /\ ~OnPool(c)
      BY DEF Spread, Waiting
    <3>3. ~Carries(items', c) /\ ~OnPool(c)' /\ ~InBuffer(c)'
      BY <1>5, <3>1, <3>2
    <3>4. QED
      BY <1>1, <3>2, <3>3 DEF Carries
  <2>2. QED
    BY <1>1, <2>1 DEF Spread, Waiting
<1>8. Measuring'
  <2>1. ASSUME NEW c \in Cards, OnPool(c)'
        PROVE  (fate[c] = "open" /\ ~InBuffer(c) /\ ~Carries(items, c))'
    <3>1. OnPool(c) /\ ~Carries(items', c)
      BY <1>5, <2>1
    <3>2. fate[c] = "open" /\ ~InBuffer(c)
      BY <3>1 DEF Spread, Measuring
    <3>3. QED
      BY <1>1, <1>5, <3>1, <3>2 DEF Carries
  <2>2. QED
    BY <1>1, <1>3, <2>1 DEF Spread, Measuring, Carries
<1>9. QED
  BY <1>6, <1>7, <1>8 DEF Spread

LEMMA CollectedSpread ==
    ASSUME AsyncTyped, Exclusive, Spread, Collected
    PROVE  Spread'
<1> DEFINE t == scan.still
<1>1. /\ UNCHANGED <<fate, buffer, card, items, intake, batch>> /\ mpc = "collect"
      /\ mpc' \in {"step", "after"} /\ gate' = StillRunning
  BY DEF Collected, aggVars, bufvars, work, shared
<1>2. /\ t \in Seq(Nat) /\ gate \in Seq(Batch) /\ \A n \in DOMAIN t : t[n] \in 1..Len(gate)
      /\ \A m, n \in DOMAIN t : t[m] = t[n] => m = n
  BY <1>1 DEF AsyncTyped, MergerOK, Scanned, Exclusive, Walk
<1>3. gate' = [n \in DOMAIN t |-> gate[t[n]]]
  BY <1>1 DEF StillRunning
<1>4. \A n \in DOMAIN t : t[n] \in Live
  BY <1>1, <1>2 DEF Live
<1> HIDE DEF t
<1>5. DOMAIN t = 1..Len(t) /\ Len(t) \in Nat /\ \A n \in DOMAIN t : gate'[n] = gate[t[n]]
  BY <1>2, <1>3
<1>6. Live' = DOMAIN t
  <2>1. Len(gate') = Len(t)
    BY <1>3, <1>5
  <2>2. QED
    BY <1>1, <1>5, <2>1 DEF Live
<1>7. OnePlace'
  BY <1>1, SameCards DEF Spread
<1>8. \A c \in Cards : /\ OnPool(c)' => OnPool(c)
                       /\ InBuffer(c)' = InBuffer(c) /\ Carries(items, c)' = Carries(items, c)
  BY <1>1, <1>4, <1>5, <1>6 DEF OnPool, InBuffer, Carries
<1>9. Waiting'
  <2>1. ASSUME NEW c \in intake \union batch
        PROVE  (fate[c] = "open" /\ ~InBuffer(c) /\ ~Carries(items, c) /\ ~OnPool(c))'
    <3>1. c \in Cards
      BY DEF AsyncTyped, SharedOK, MergerOK
    <3>2. fate[c] = "open" /\ ~InBuffer(c) /\ ~Carries(items, c) /\ ~OnPool(c)
      BY DEF Spread, Waiting
    <3>3. QED
      BY <1>1, <1>8, <3>1, <3>2
  <2>2. QED
    BY <1>1, <2>1 DEF Spread, Waiting
<1>10. Measuring'
  <2>1. ASSUME NEW c \in Cards, OnPool(c)'
        PROVE  (fate[c] = "open" /\ ~InBuffer(c) /\ ~Carries(items, c))'
    <3>1. fate[c] = "open" /\ ~InBuffer(c) /\ ~Carries(items, c)
      BY <1>8, <2>1 DEF Spread, Measuring
    <3>2. QED
      BY <1>1, <1>8, <3>1
  <2>2. ASSUME NEW c \in Cards, NEW m \in DOMAIN t, NEW n \in DOMAIN t,
               Carries(gate'[m].cands, c), Carries(gate'[n].cands, c)
        PROVE  m = n
    <3>1. t[m] = t[n]
      BY <1>4, <1>5, <2>2 DEF Spread, Measuring
    <3>2. QED
      BY <1>2, <3>1
  <2>3. ASSUME NEW n \in DOMAIN t
        PROVE  /\ \A k \in DOMAIN gate'[n].cands : gate'[n].cands[k].chosen \subseteq gate'[n].cands[k].cards
               /\ \A k, l \in DOMAIN gate'[n].cands :
                     k # l => gate'[n].cands[k].cards \intersect gate'[n].cands[l].cards = {}
    BY <1>4, <1>5 DEF Spread, Measuring
  <2>4. QED
    BY <1>6, <2>1, <2>2, <2>3 DEF Measuring, Carries
<1>11. QED
  BY <1>7, <1>9, <1>10 DEF Spread

\* The staleness gate sends a card of the sweep to the buffer, or discards it.
LEMMA ForwardSpread ==
    ASSUME AsyncTyped, Spread, NEW cs \in SUBSET batch, NEW dropped \in SUBSET batch,
           cs \intersect dropped = {}, Forward(cs, dropped), mpc = "gate", UNCHANGED <<gate, intake>>
    PROVE  /\ Spread'
           /\ \A c \in Cards : fate[c] \notin {"unused", "open"} => fate'[c] = fate[c]
<1>1. /\ card' = [c \in Cards |-> IF c \in cs THEN [card[c] EXCEPT !.base = ver[card[c].art]]
                                  ELSE card[c]]
      /\ buffer' = Ingested(cs) /\ fate' = Fated(dropped, "discarded") /\ batch' = {}
      /\ UNCHANGED <<items, phase>>
  BY DEF Forward, work
<1>2. batch \subseteq Cards /\ intake \subseteq Cards /\ items = <<>>
  BY DEF AsyncTyped, SharedOK, MergerOK, Phased
<1>3. Live' \subseteq Live
  BY DEF Live
<1>4. \A c \in Cards : c \notin batch => fate'[c] = fate[c] /\ card'[c] = card[c]
  BY <1>1 DEF Fated
<1>5. \A c \in cs : fate'[c] = fate[c] /\ card'[c].art = card[c].art
  <2> SUFFICES ASSUME NEW c \in cs PROVE fate'[c] = fate[c] /\ card'[c].art = card[c].art
    OBVIOUS
  <2>1. card[c] \in [art : Artifacts, base : Versions] /\ c \in Cards
    BY <1>2 DEF AsyncTyped, Proposed
  <2>2. card'[c] = [card[c] EXCEPT !.base = ver[card[c].art]]
    BY <1>1, <2>1
  <2>3. card'[c].art = card[c].art
    BY <2>1, <2>2
  <2>4. fate'[c] = fate[c]
    BY <1>1, <2>1 DEF Fated
  <2>5. QED
    BY <2>3, <2>4
<1>6. \A a \in Artifacts : \A c \in buffer'[a] : c \in buffer[a] \/ (c \in cs /\ card[c].art = a)
  BY <1>1 DEF Ingested
<1>7. \A c \in batch : fate[c] = "open" /\ ~InBuffer(c) /\ ~OnPool(c) /\ c \notin intake
  BY DEF Spread, Waiting
<1>8. OnePlace'
  <2>1. ASSUME NEW a \in Artifacts, NEW c \in buffer'[a]
        PROVE  fate'[c] = "open" /\ card'[c].art = a
    <3>1. CASE c \in cs /\ card[c].art = a
      BY <1>5, <1>7, <3>1
    <3>2. CASE c \in buffer[a]
      <4>1. c \in Cards /\ c \notin batch
        BY <1>7, <3>2 DEF InBuffer, AsyncTyped, Typed, BufferOK
      <4>2. fate[c] = "open" /\ card[c].art = a
        BY <3>2 DEF Spread, OnePlace, InBuckets
      <4>3. QED
        BY <1>4, <4>1, <4>2
    <3>3. QED
      BY <1>6, <3>1, <3>2
  <2>2. InBuckets'
    BY <2>1 DEF InBuckets
  <2>3. QED
    BY <1>1, <1>2, <2>2 DEF OnePlace, InCandidates, InOneCandidate
<1>9. \A c \in Cards : /\ c \notin batch => (InBuffer(c)' => InBuffer(c))
                       /\ OnPool(c)' => OnPool(c)
                       /\ ~Carries(items, c)'
  BY <1>1, <1>2, <1>3, <1>6 DEF InBuffer, OnPool, Carries
<1>10. Waiting'
  <2>1. ASSUME NEW c \in intake
        PROVE  (fate[c] = "open" /\ ~InBuffer(c) /\ ~Carries(items, c) /\ ~OnPool(c))'
    <3>1. c \in Cards /\ c \notin batch /\ fate[c] = "open" /\ ~InBuffer(c) /\ ~OnPool(c)
      BY <1>2, <1>7 DEF Spread, Waiting
    <3>2. QED
      BY <1>4, <1>9, <3>1
  <2>2. QED
    BY <1>1, <2>1 DEF Waiting
<1>11. Measuring'
  <2>1. ASSUME NEW c \in Cards, OnPool(c)'
        PROVE  (fate[c] = "open" /\ ~InBuffer(c) /\ ~Carries(items, c))'
    <3>1. OnPool(c) /\ c \notin batch
      BY <1>7, <1>9, <2>1
    <3>2. fate[c] = "open" /\ ~InBuffer(c)
      BY <3>1 DEF Spread, Measuring
    <3>3. QED
      BY <1>4, <1>9, <3>1, <3>2
  <2>2. QED
    BY <1>3, <2>1 DEF Spread, Measuring, Carries
<1>12. \A c \in Cards : fate[c] \notin {"unused", "open"} => fate'[c] = fate[c]
  BY <1>4, <1>7
<1>13. QED
  BY <1>8, <1>10, <1>11, <1>12 DEF Spread

LEMMA GateSpread ==
    ASSUME AsyncTyped, Spread, GateCards \/ GateRaises
    PROVE  /\ Spread'
           /\ \A c \in Cards : fate[c] \notin {"unused", "open"} => fate'[c] = fate[c]
<1>1. mpc = "gate" /\ UNCHANGED <<gate, intake>>
  BY DEF GateCards, GateRaises, shared
<1>2. PICK through \in SUBSET batch :
        \E unproved \in SUBSET Acting(through, "rebase") :
           Forward(Survivors(through, unproved), through \ Survivors(through, unproved))
  BY DEF GateCards, GateRaises
<1>3. PICK unproved \in SUBSET Acting(through, "rebase") :
           Forward(Survivors(through, unproved), through \ Survivors(through, unproved))
  BY <1>2
<1>4. Survivors(through, unproved) \subseteq through
  BY DEF Survivors
<1>5. QED
  BY <1>1, <1>2, <1>3, <1>4, ForwardSpread

LEMMA SpreadKept ==
    ASSUME DecidesOnce, ~Reuse, AsyncTyped, Exclusive, Spread, [Next]_vars
    PROVE  /\ Spread'
           /\ \A c \in Cards : fate[c] \notin {"unused", "open"} => fate'[c] = fate[c]
<1>1. CASE StepBegins \/ PrepareFails \/ StepMeasures \/ NothingToScore \/ Finishes \/ Finished
  BY <1>1, InStepSpread, AggregatorSpreads
<1>2. CASE GateCards \/ GateRaises
  BY <1>2, GateSpread
<1>3. CASE \E w \in Workers : ProposesSome(w)
  BY <1>3, ProposeSpread DEF ProposesSome
<1>4. CASE \/ \E w \in Workers : WorkerProceeds(w) \/ RolloutEnds(w) \/ RolloutRaises(w) \/ RolloutBreaks(w)
           \/ Deadline \/ MainStep \/ UNCHANGED vars \/ StopSeen \/ DrainEnds
  <2>1. fate' = fate
    BY <1>4 DEF WorkerProceeds, Snapshot, CatchUp, LoopTop, PassGate, Look, RolloutEnds, RolloutRaises,
         RolloutBreaks, Deadline, MainStep, MainStops, MainJoins, MainEnds, StopSeen, DrainEnds, vars,
         aggVars
  <2>2. QED
    BY <1>4, <2>1, ThreadsSpread
<1>5. CASE \/ TakeIntake \/ NothingLeft \/ NothingToRecord \/ PublishHead \/ Record \/ ScoreRaises
           \/ Recover \/ Breaks \/ CollectRaises \/ SkipRunning \/ Submit \/ CollectMeasured \/ Collected
           \/ PoolStep
  <2>1. fate' = fate
    BY <1>5 DEF TakeIntake, NothingLeft, NothingToRecord, PublishHead, Record, ScoreRaises, Recover,
         Breaks, CollectRaises, Raises, SkipRunning, Submit, CollectMeasured, Collected, PoolStep, Scored,
         aggVars
  <2>2. QED
    BY <1>5, <2>1, BetweenSweepsSpread, SkipSpread, SubmitSpread, CollectSpread, CollectedSpread,
       ScoredSpread DEF PoolStep
<1>6. QED
  BY <1>1, <1>2, <1>3, <1>4, <1>5 DEF Next, Ended, MergerStep, WorkerStep

\* In the engine too a card gets one outcome: at the staleness gate, in the buffer or from the decision
\* on its candidate, however many sweeps that is measured through; as long as no batch is collected
\* twice, and a name is proposed under once.
THEOREM AsyncCardsDecidedOnce == ASSUME DecidesOnce, ~Reuse PROVE Spec => DecidedOnce
<1> DEFINE A == \A c \in Cards : fate[c] \notin {"unused", "open"} => fate'[c] = fate[c]
<1>1. Init => Spread
  <2> SUFFICES ASSUME Init PROVE Spread
    OBVIOUS
  <2>1. gate = <<>> /\ Len(<<>>) = 0 /\ items = <<>> /\ intake = {} /\ batch = {}
        /\ \A a \in Artifacts : buffer[a] = {}
    BY DEF Init, AggInit
  <2>2. Live = {}
    BY <2>1 DEF Live
  <2>3. QED
    BY <2>1, <2>2 DEF Spread, OnePlace, InBuckets, InCandidates, InOneCandidate, Waiting, Measuring, OnPool
<1>2. AsyncTyped /\ Exclusive /\ Spread /\ [Next]_vars => Spread'
  BY SpreadKept
<1>3. AsyncTyped /\ Exclusive /\ Spread /\ [Next]_vars => [A]_fate
  BY SpreadKept
<1>4. Spec => []Exclusive
  BY ExclusiveAlways
<1>5. QED
  BY <1>1, <1>2, <1>3, <1>4, AsyncTypedAlways, PTL DEF Spec, DecidedOnce
=============================================================================
