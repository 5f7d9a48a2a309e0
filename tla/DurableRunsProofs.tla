------------------------- MODULE DurableRunsProofs -------------------------
(***************************************************************************)
(* Proofs about DurableRuns, for every number of processes, lease length,  *)
(* clock lag and retry bound.                                              *)
(***************************************************************************)
EXTENDS DurableRuns, FiniteSetTheorems, TLAPS

\* Keys and the locals of a call that has not started are well-typed.
LEMMA KeyTypes ==
  /\ \A tag \in Kinds \cup {"event"}, x, n \in Nat : Key(tag, x, n) \in Keys
  /\ Kinds = {"attempt", "step", "completed", "failed", "cancelled"}
  /\ Statuses = {"pending", "running", "completed", "failed", "cancelled"}
  /\ \A kind \in Kinds : StatusFor(kind) \in Statuses
  /\ NoSnap \in Snapshots
  /\ NoOutcome \in Outcomes
BY DEF Keys, Key, Kinds, Statuses, Terminal, StatusFor, NoSnap, Snapshots,
       NoOutcome, Outcomes, Verdicts

LEMMA PushTypes ==
  ASSUME log \in Seq(Events), attempts \in Nat,
         NEW kind \in Kinds, NEW key \in Keys, NEW seen \in Nat,
         Push(kind, key, seen)
  PROVE  log' \in Seq(Events) /\ status' \in Statuses /\ attempts' \in Nat
<1>1. [kind |-> kind, key |-> key, seen |-> seen] \in Events
  BY DEF Events
<1>2. log' \in Seq(Events)
  BY <1>1 DEF Push
<1>3. status' \in Statuses
  BY KeyTypes DEF Push
<1>4. attempts' \in Nat
  BY DEF Push
<1>5. QED
  BY <1>2, <1>3, <1>4

LEMMA LeaseTypes ==
  ASSUME owner \in Ids \cup {None}, left \in Int, NEW p \in Procs,
         Beat(p) \/ BeatFails(p)
  PROVE  owner' \in Ids \cup {None} /\ left' \in Int
<1>1. CASE Beat(p)
  <2>1. PICK d \in 0..Lag : Grant(owner, d)
    BY <1>1 DEF Beat
  <2>2. QED
    BY <2>1, ServiceAssumption DEF Grant
<1>2. CASE BeatFails(p)
  BY <1>2 DEF BeatFails, lease
<1>3. QED
  BY <1>1, <1>2

LEMMA LeavesType ==
  ASSUME lost \in Nat, NEW p \in Procs, Leaves(p)
  PROVE  lost' \in Nat
<1>1. lost' = lost + 1 \/ lost' = lost + 0
  BY DEF Leaves
<1>2. QED
  BY <1>1

LEMMA FewerTurns ==
  ASSUME turns \in [Procs -> Nat], NEW p \in Procs, turns[p] > 0
  PROVE  [turns EXCEPT ![p] = turns[p] - 1] \in [Procs -> Nat]
<1>1. turns[p] - 1 \in Nat
  OBVIOUS
<1>2. QED
  BY <1>1

\* The variables keep their types.
THEOREM TypeCorrect == Spec => []TypeOK
<1> USE ServiceAssumption
<1>1. Init => TypeOK
  BY KeyTypes DEF Init, TypeOK
<1>2. TypeOK /\ [Next]_vars => TypeOK'
  <2> SUFFICES ASSUME TypeOK, [Next]_vars PROVE TypeOK'
    OBVIOUS
  <2> USE KeyTypes DEF TypeOK, row, lease, local, Goto
  <2>1. ASSUME NEW p \in Procs, Claim(p) PROVE TypeOK'
    BY <2>1 DEF Claim, Grant
  <2>2. ASSUME NEW p \in Procs, LoopTop(p) PROVE TypeOK'
    <3>1. owner' \in Ids \cup {None} /\ left' \in Int
      <4>1. Beat(p) \/ BeatFails(p) \/ UNCHANGED lease
        BY <2>2 DEF LoopTop
      <4>2. CASE Beat(p) \/ BeatFails(p)
        BY <4>2, LeaseTypes
      <4>3. CASE UNCHANGED lease
        BY <4>3
      <4>4. QED
        BY <4>1, <4>2, <4>3
    <3>2. turns' \in [Procs -> Nat]
      <4>1. \/ turns' = turns
            \/ turns[p] > 0 /\ turns' = [turns EXCEPT ![p] = turns[p] - 1]
        BY <2>2 DEF LoopTop
      <4>2. QED
        BY <4>1, FewerTurns
    <3>3. QED
      BY <2>2, <3>1, <3>2 DEF LoopTop
  <2>3. ASSUME NEW p \in Procs, ReadRow(p) PROVE TypeOK'
    BY <2>3 DEF ReadRow, Snapshots
  <2>4. ASSUME NEW p \in Procs, ReadEvents(p) PROVE TypeOK'
    BY <2>4 DEF ReadEvents, Snapshots
  <2>5. ASSUME NEW p \in Procs, AnyStep(p) PROVE TypeOK'
    <3>1. ASSUME NEW verdict \in Verdicts, NEW key \in Keys,
                 StepReturns(p, verdict, key)
          PROVE  TypeOK'
      BY <3>1 DEF StepReturns, Outcomes, Verdicts
    <3>2. /\ DefaultKey(p) \in Keys
          /\ Key("completed", 0, 0) \in Keys
          /\ Key("attempt", snap[p].attempts + 1, 0) \in Keys
          /\ \A e \in EventKeys : Key("event", e, 0) \in Keys
      BY DEF DefaultKey, Snapshots
    <3>3. QED
      BY <2>5, <3>1, <3>2 DEF AnyStep, Verdicts
  <2>6. ASSUME NEW p \in Procs, NEW kind \in Kinds, NEW key \in Keys,
               Stored(p, kind, key)
        PROVE  log' \in Seq(Events) /\ status' \in Statuses /\ attempts' \in Nat
    <3>1. Len(snap[p].events) \in Nat
      BY DEF Snapshots
    <3>2. QED
      BY <2>6, <3>1, PushTypes DEF Stored
  <2>7. ASSUME NEW p \in Procs, RecordAttempt(p) PROVE TypeOK'
    BY <2>6, <2>7 DEF RecordAttempt, Refused, Outcomes
  <2>8. ASSUME NEW p \in Procs, AfterAttempt(p) PROVE TypeOK'
    BY <2>8, LeaseTypes, LeavesType DEF AfterAttempt
  <2>9. ASSUME NEW p \in Procs, RecordFailed(p) PROVE TypeOK'
    <3>1. log' \in Seq(Events) /\ status' \in Statuses /\ attempts' \in Nat
      BY <2>6, <2>9 DEF RecordFailed, Refused
    <3>2. lost' \in Nat
      BY <2>9, LeavesType DEF RecordFailed
    <3>3. QED
      BY <2>9, <3>1, <3>2 DEF RecordFailed
  <2>10. ASSUME NEW p \in Procs, CheckDone(p) PROVE TypeOK'
    BY <2>10 DEF CheckDone
  <2>11. ASSUME NEW p \in Procs, RecordCompleted(p) PROVE TypeOK'
    BY <2>6, <2>11 DEF RecordCompleted, Refused, Outcomes
  <2>12. ASSUME NEW p \in Procs, RecordStep(p) PROVE TypeOK'
    BY <2>6, <2>12 DEF RecordStep, Refused, Outcomes
  <2>13. ASSUME NEW p \in Procs, AfterStep(p) PROVE TypeOK'
    BY <2>13, LeaseTypes DEF AfterStep
  <2>14. ASSUME NEW p \in Procs, Release(p) PROVE TypeOK'
    BY <2>14 DEF Release, Unlease, Forget
  <2>15. ASSUME NEW p \in Procs, Crash(p) PROVE TypeOK'
    BY <2>15, LeavesType DEF Crash, Forget
  <2>16. CASE Environment
    <3>1. CASE CancelAppend
      <4>1. Key("cancelled", 0, 0) \in Keys /\ "cancelled" \in Kinds /\ Len(log) \in Nat
        OBVIOUS
      <4>2. log' \in Seq(Events) /\ status' \in Statuses /\ attempts' \in Nat
        BY <3>1, <4>1, PushTypes DEF CancelAppend
      <4>3. QED
        BY <3>1, <4>2 DEF CancelAppend
    <3>2. CASE CancelCheck \/ RecoverExpired \/ Tick
      BY <3>2 DEF CancelCheck, RecoverExpired, Tick, Unlease
    <3>3. QED
      BY <2>16, <3>1, <3>2 DEF Environment
  <2>17. CASE UNCHANGED vars
    BY <2>17 DEF vars
  <2>18. QED
    BY <2>1, <2>2, <2>3, <2>4, <2>5, <2>7, <2>8, <2>9, <2>10, <2>11, <2>12,
       <2>13, <2>14, <2>15, <2>16, <2>17 DEF Next, Service
<1>3. QED
  BY <1>1, <1>2, PTL DEF Spec
-----------------------------------------------------------------------------
(* The fence.  Only the owner of the lease writes, and with distinct ids a *)
(* process that lost the lease cannot be the owner again within its call,  *)
(* so what each action does is local to one process: the lemmas below      *)
(* treat the others once and for all.                                      *)

\* p acts, and every other process keeps its place and its locals.
OnlyMoves(p) ==
  \A q \in Procs \ {p} :
    pc'[q] = pc[q] /\ snap'[q] = snap[q] /\ outcome'[q] = outcome[q]

\* The parts of Inv that speak of one process.
Mine(p) ==
  /\ pc[p] \in Deciding /\ owner = WorkerId[p] /\ status \notin Terminal =>
       log = snap[p].events /\ attempts = snap[p].attempts
  /\ owner = WorkerId[p] /\ status \notin Terminal =>
       /\ pc[p] = "events" => attempts = snap[p].attempts
       /\ pc[p] \in {"beat", "fail"} =>
            /\ Len(log) = Len(snap[p].events) + 1
            /\ log[Len(log)].kind = "attempt"
  /\ pc[p] = "attempt" =>
       outcome[p].key = Key("attempt", snap[p].attempts + 1, 0)
  /\ pc[p] \in {"complete", "commit", "record"} =>
       outcome[p].key.tag \notin {"attempt", "failed", "cancelled"}

\* The parts that speak of the run.
Ours ==
  /\ TerminalSticky
  /\ \A i \in DOMAIN log :
       /\ log[i].key.tag = "attempt" => log[i].key.a <= attempts
       /\ log[i].key.tag \in {"failed", "cancelled"} => log[i].kind = log[i].key.tag

LEMMA InvParts == Inv <=> Ours /\ \A p \in Procs : Mine(p)
BY DEF Inv, Ours, Mine, OwnerIsCurrent, OwnerIsBetween, KeysFollowLog

LEMMA InvPartsPrime == Ours' /\ (\A p \in Procs : Mine(p)') => Inv'
BY DEF Inv, Ours, Mine, OwnerIsCurrent, OwnerIsBetween, KeysFollowLog

\* A step of p that writes nothing to the run and takes no lease but its own.
LEMMA LocalStep ==
  ASSUME TypeOK, Inv, DistinctIds, UNCHANGED row, NEW p \in Procs,
         OnlyMoves(p), owner' \in {owner, WorkerId[p], None}, Mine(p)'
  PROVE  Inv'
<1>1. Ours'
  BY InvParts DEF Ours, TerminalSticky, row, StatusFor, Terminal
<1>2. ASSUME NEW q \in Procs \ {p} PROVE Mine(q)'
  <2>1. Mine(q)
    BY InvParts
  <2>2. owner' = WorkerId[q] => owner = WorkerId[q]
    BY ServiceAssumption DEF DistinctIds
  <2>3. QED
    BY <2>1, <2>2 DEF Mine, OnlyMoves, row, Terminal, Deciding, Key
<1>3. QED
  BY <1>1, <1>2, InvPartsPrime

\* A live run has no terminal event.
LEMMA LiveLog ==
  ASSUME TypeOK, TerminalSticky, status \notin Terminal
  PROVE  \A i \in DOMAIN log : log[i].kind \notin Terminal
BY DEF TerminalSticky, TypeOK, StatusFor

\* What a new event makes of the run.
LEMMA PushOurs ==
  ASSUME TypeOK, Ours, status \notin Terminal,
         NEW kind \in Kinds, NEW key \in Keys, NEW seen \in Nat,
         Push(kind, key, seen),
         key.tag = "attempt" => kind = "attempt" /\ key.a = attempts + 1,
         key.tag \in {"failed", "cancelled"} => kind = key.tag
  PROVE  Ours'
<1> DEFINE e == [kind |-> kind, key |-> key, seen |-> seen]
<1>1. /\ log' = Append(log, e) /\ log \in Seq(Events) /\ e \in Events
      /\ Len(log') = Len(log) + 1 /\ log'[Len(log')] = e
      /\ \A i \in 1..Len(log) : log'[i] = log[i]
  BY DEF Push, TypeOK, Events
<1>2. status' = StatusFor(kind) /\ attempts' >= attempts
  BY DEF Push, TypeOK
<1>3. kind = "attempt" => attempts' = attempts + 1
  BY DEF Push
<1>4. TerminalSticky'
  <2>1. \A i \in DOMAIN log' : log'[i].kind \in Terminal => i = Len(log')
    BY <1>1, LiveLog DEF Ours
  <2>2. log' # <<>> /\ status' = StatusFor(log'[Len(log')].kind)
    BY <1>1, <1>2
  <2>3. QED
    BY <2>1, <2>2 DEF TerminalSticky, StatusFor, Terminal
<1>5. ASSUME NEW i \in DOMAIN log'
      PROVE  /\ log'[i].key.tag = "attempt" => log'[i].key.a <= attempts'
             /\ log'[i].key.tag \in {"failed", "cancelled"} => log'[i].kind = log'[i].key.tag
  <2>1. CASE i = Len(log')
    BY <2>1, <1>1, <1>3 DEF Keys, TypeOK
  <2>2. CASE i \in 1..Len(log)
    <3>1. log'[i] = log[i] /\ log[i] \in Events
      BY <2>2, <1>1
    <3>2. log[i].key.a \in Nat
      BY <3>1 DEF Events, Keys
    <3>3. QED
      BY <2>2, <3>1, <3>2, <1>2, <1>1 DEF Ours, TypeOK, Push
  <2>3. QED
    BY <1>1, <2>1, <2>2
<1>6. QED
  BY <1>4, <1>5 DEF Ours

\* A fenced write of p.
LEMMA WriteStep ==
  ASSUME TypeOK, Inv, DistinctIds, NEW p \in Procs,
         status \notin Terminal, owner = WorkerId[p], owner' = owner,
         NEW kind \in Kinds, NEW key \in Keys,
         Push(kind, key, Len(snap[p].events)),
         key.tag = "attempt" => kind = "attempt" /\ key.a = attempts + 1,
         key.tag # "cancelled", key.tag = "failed" => kind = "failed",
         OnlyMoves(p), Mine(p)'
  PROVE  Inv'
<1>1. Len(snap[p].events) \in Nat
  BY DEF TypeOK, Snapshots
<1>2. Ours'
  BY <1>1, PushOurs, InvParts
<1>3. ASSUME NEW q \in Procs \ {p} PROVE Mine(q)'
  <2>1. Mine(q)
    BY InvParts
  <2>2. owner' # WorkerId[q]
    BY DEF DistinctIds
  <2>3. QED
    BY <2>1, <2>2 DEF Mine, OnlyMoves, Deciding, Key
<1>4. QED
  BY <1>2, <1>3, InvPartsPrime

THEOREM InvInitial == Init => Inv
BY KeyTypes DEF Init, Inv, TerminalSticky, OwnerIsCurrent, OwnerIsBetween,
   KeysFollowLog, Deciding

\* The inductive step.
THEOREM InvPreserved ==
  ASSUME TypeOK, TypeOK', Inv, DistinctIds, [Next]_vars
  PROVE  Inv'
<1> USE DEF row, lease, local, Goto
<1>1. ASSUME NEW p \in Procs, Claim(p) PROVE Inv'
  <2>1. OnlyMoves(p) /\ Mine(p)' /\ owner' = WorkerId[p]
    BY <1>1 DEF Claim, Grant, OnlyMoves, Mine, Deciding, TypeOK
  <2>2. QED
    BY <1>1, <2>1, LocalStep DEF Claim
<1>2. ASSUME NEW p \in Procs, LoopTop(p) PROVE Inv'
  <2>1. OnlyMoves(p) /\ pc'[p] \in {"row", "release"}
    BY <1>2 DEF LoopTop, OnlyMoves, TypeOK
  <2>2. Mine(p)'
    BY <2>1 DEF Mine, Deciding
  <2>3. owner' = owner
    BY <1>2 DEF LoopTop, Beat, BeatFails, Grant
  <2>4. QED
    BY <1>2, <2>1, <2>2, <2>3, LocalStep DEF LoopTop
<1>3. ASSUME NEW p \in Procs, ReadRow(p) PROVE Inv'
  <2>1. OnlyMoves(p) /\ Mine(p)'
    BY <1>3 DEF ReadRow, OnlyMoves, Mine, Deciding, TypeOK, Snapshots
  <2>2. QED
    BY <1>3, <2>1, LocalStep DEF ReadRow
<1>4. ASSUME NEW p \in Procs, ReadEvents(p) PROVE Inv'
  <2>1. Mine(p)
    BY InvParts
  <2>2. OnlyMoves(p) /\ Mine(p)'
    BY <1>4, <2>1 DEF ReadEvents, OnlyMoves, Mine, Deciding, TypeOK, Snapshots
  <2>3. QED
    BY <1>4, <2>2, LocalStep DEF ReadEvents
<1>5. ASSUME NEW p \in Procs, AnyStep(p) PROVE Inv'
  <2>1. Mine(p)
    BY InvParts
  <2>2. ASSUME NEW verdict \in Verdicts, NEW key,
               StepReturns(p, verdict, key),
               verdict \in {"retryable", "fatal"} =>
                 key = Key("attempt", snap[p].attempts + 1, 0),
               verdict \in {"step", "done"} =>
                 key.tag \notin {"attempt", "failed", "cancelled"}
        PROVE  Inv'
    <3>1. OnlyMoves(p) /\ Mine(p)'
      BY <2>1, <2>2 DEF StepReturns, OnlyMoves, Mine, Deciding, TypeOK, Verdicts, Key
    <3>2. QED
      BY <2>2, <3>1, LocalStep DEF StepReturns
  <2>3. QED
    BY <1>5, <2>2 DEF AnyStep, DefaultKey, Key, Verdicts
<1>6. ASSUME NEW p \in Procs, RecordAttempt(p) PROVE Inv'
  <2>1. Mine(p) /\ Ours
    BY InvParts
  <2>2. OnlyMoves(p)
    BY <1>6 DEF RecordAttempt, OnlyMoves, TypeOK
  <2>3. outcome[p].key = Key("attempt", snap[p].attempts + 1, 0)
    BY <1>6, <2>1 DEF RecordAttempt, Mine
  <2>4. CASE UNCHANGED row
    \* A key already taken: then p is no longer the owner of a live run.
    <3>1. pc'[p] = "beat" => KeyUsed(outcome[p].key)
      BY <1>6, <2>4 DEF RecordAttempt, Stored, Push, TypeOK
    <3>2. ~(KeyUsed(outcome[p].key) /\ owner = WorkerId[p] /\ status \notin Terminal)
      <4> SUFFICES ASSUME KeyUsed(outcome[p].key), owner = WorkerId[p],
                          status \notin Terminal
                   PROVE  FALSE
        OBVIOUS
      <4>1. attempts = snap[p].attempts /\ attempts \in Nat
        BY <1>6, <2>1 DEF RecordAttempt, Mine, Deciding, TypeOK
      <4>2. PICK i \in DOMAIN log : log[i].key = Key("attempt", attempts + 1, 0)
        BY <2>3, <4>1 DEF KeyUsed
      <4>3. log[i].key.tag = "attempt" /\ log[i].key.a = attempts + 1
        BY <4>2 DEF Key
      <4>4. QED
        BY <2>1, <4>1, <4>3 DEF Ours
    <3>3. Mine(p)'
      BY <1>6, <2>4, <3>1, <3>2 DEF RecordAttempt, Mine, Deciding, TypeOK
    <3>4. QED
      BY <1>6, <2>2, <2>4, <3>3, LocalStep DEF RecordAttempt
  <2>5. CASE /\ \E d \in 0..Lag : Fenced(p, d)
             /\ Push("attempt", outcome[p].key, Len(snap[p].events))
    <3>1. status \notin Terminal /\ owner = WorkerId[p] /\ owner' = owner
      BY <1>6, <2>5 DEF Fenced, RecordAttempt
    <3>2. log = snap[p].events /\ attempts = snap[p].attempts
      BY <1>6, <2>1, <3>1 DEF Mine, Deciding, RecordAttempt
    <3>3. outcome[p].key \in Keys /\ "attempt" \in Kinds
      BY KeyTypes DEF TypeOK, Outcomes
    <3>4. Mine(p)'
      BY <1>6, <2>5, <3>2, <3>3 DEF RecordAttempt, Stored, Refused, Push, Mine, Deciding,
         TypeOK, Events
    <3>5. QED
      BY <2>2, <2>3, <2>5, <3>1, <3>2, <3>3, <3>4, WriteStep DEF Key
  <2>6. QED
    BY <1>6, <2>4, <2>5 DEF RecordAttempt, Stored, Refused
<1>7. ASSUME NEW p \in Procs, AfterAttempt(p) PROVE Inv'
  <2>1. Mine(p)
    BY InvParts
  <2>2. OnlyMoves(p) /\ pc'[p] \in {"fail", "loop", "release"} /\ owner' = owner
    BY <1>7 DEF AfterAttempt, OnlyMoves, TypeOK, Beat, BeatFails, Grant
  <2>3. Mine(p)'
    BY <1>7, <2>1, <2>2 DEF AfterAttempt, Mine, Deciding
  <2>4. QED
    BY <1>7, <2>2, <2>3, LocalStep DEF AfterAttempt
<1>8. ASSUME NEW p \in Procs, RecordFailed(p) PROVE Inv'
  <2>1. OnlyMoves(p) /\ Mine(p)' /\ owner' = owner
    BY <1>8 DEF RecordFailed, OnlyMoves, TypeOK, Mine, Deciding
  <2>2. CASE UNCHANGED row
    BY <2>1, <2>2, LocalStep
  <2>3. CASE /\ \E d \in 0..Lag : Fenced(p, d)
             /\ Push("failed", Key("failed", 0, 0), Len(snap[p].events))
    <3>1. status \notin Terminal /\ owner = WorkerId[p]
      BY <2>3 DEF Fenced
    <3>2. QED
      BY <2>1, <2>3, <3>1, KeyTypes, WriteStep DEF Key
  <2>4. QED
    BY <1>8, <2>2, <2>3 DEF RecordFailed, Stored, Refused
<1>9. ASSUME NEW p \in Procs, CheckDone(p) PROVE Inv'
  <2>1. Mine(p)
    BY InvParts
  <2>2. OnlyMoves(p) /\ Mine(p)'
    BY <1>9, <2>1 DEF CheckDone, OnlyMoves, TypeOK, Mine, Deciding
  <2>3. QED
    BY <1>9, <2>2, LocalStep DEF CheckDone
<1>10. ASSUME NEW p \in Procs, NEW kind \in {"completed", "step"},
              Stored(p, kind, outcome[p].key) \/ Refused(p, outcome[p].key),
              pc[p] \in {"commit", "record"}, OnlyMoves(p),
              pc'[p] \in {"release", "stepped"}, UNCHANGED <<lease, local>>
       PROVE  Inv'
  <2>1. Mine(p)
    BY InvParts
  <2>2. Mine(p)'
    BY <1>10 DEF Mine, Deciding
  <2>3. CASE UNCHANGED row
    BY <1>10, <2>2, <2>3, LocalStep
  <2>4. CASE /\ \E d \in 0..Lag : Fenced(p, d)
             /\ Push(kind, outcome[p].key, Len(snap[p].events))
    <3>1. status \notin Terminal /\ owner = WorkerId[p]
      BY <2>4 DEF Fenced
    <3>2. outcome[p].key.tag \notin {"attempt", "failed", "cancelled"}
      BY <1>10, <2>1 DEF Mine
    <3>3. outcome[p].key \in Keys /\ kind \in Kinds
      BY KeyTypes DEF TypeOK, Outcomes
    <3>4. QED
      BY <1>10, <2>2, <2>4, <3>1, <3>2, <3>3, WriteStep
  <2>5. QED
    BY <1>10, <2>3, <2>4 DEF Stored, Refused
<1>11. ASSUME NEW p \in Procs, RecordCompleted(p) PROVE Inv'
  BY <1>10, <1>11 DEF RecordCompleted, OnlyMoves, TypeOK
<1>12. ASSUME NEW p \in Procs, RecordStep(p) PROVE Inv'
  BY <1>10, <1>12 DEF RecordStep, OnlyMoves, TypeOK
<1>13. ASSUME NEW p \in Procs, AfterStep(p) PROVE Inv'
  <2>1. OnlyMoves(p) /\ pc'[p] \in {"loop", "release"} /\ owner' = owner
    BY <1>13 DEF AfterStep, OnlyMoves, TypeOK, Beat, BeatFails, Grant
  <2>2. Mine(p)'
    BY <2>1 DEF Mine, Deciding
  <2>3. QED
    BY <1>13, <2>1, <2>2, LocalStep DEF AfterStep
<1>14. ASSUME NEW p \in Procs, Release(p) \/ Crash(p) PROVE Inv'
  <2>1. OnlyMoves(p) /\ pc'[p] = "idle" /\ owner' \in {owner, None} /\ UNCHANGED row
    BY <1>14 DEF Release, Crash, Forget, OnlyMoves, TypeOK, Unlease
  <2>2. Mine(p)'
    BY <2>1 DEF Mine, Deciding
  <2>3. QED
    BY <2>1, <2>2, LocalStep
<1>15. CASE CancelAppend
  <2>1. UNCHANGED <<pc, snap, outcome, owner>>
    BY <1>15 DEF CancelAppend
  <2>2. CASE status \in Terminal
    BY <1>15, <2>1, <2>2 DEF CancelAppend, Inv, TerminalSticky, OwnerIsCurrent,
       OwnerIsBetween, KeysFollowLog
  <2>3. CASE status \notin Terminal
    <3>1. Push("cancelled", Key("cancelled", 0, 0), Len(log))
      BY <1>15, <2>3 DEF CancelAppend
    <3>2. Ours'
      <4>1. Key("cancelled", 0, 0) \in Keys /\ "cancelled" \in Kinds /\ Len(log) \in Nat
        BY KeyTypes DEF TypeOK
      <4>2. Key("cancelled", 0, 0).tag = "cancelled"
        BY DEF Key
      <4>3. QED
        BY <2>3, <3>1, <4>1, <4>2, PushOurs, InvParts
    <3>3. status' \in Terminal
      BY <3>1 DEF Push, StatusFor, Terminal
    <3>4. ASSUME NEW p \in Procs PROVE Mine(p)'
      BY <2>1, <3>3, InvParts DEF Mine, Terminal, Deciding, Key
    <3>5. QED
      BY <3>2, <3>4, InvPartsPrime
  <2>4. QED
    BY <2>2, <2>3
<1>16. CASE CancelCheck \/ RecoverExpired \/ Tick \/ UNCHANGED vars
  <2>1. UNCHANGED <<log, status, attempts, pc, snap, outcome>> /\ owner' \in {owner, None}
    BY <1>16 DEF CancelCheck, RecoverExpired, Tick, Unlease, vars
  <2>2. \A p \in Procs : owner' = WorkerId[p] => owner = WorkerId[p]
    BY <2>1, ServiceAssumption
  <2>3. QED
    BY <2>1, <2>2 DEF Inv, TerminalSticky, OwnerIsCurrent, OwnerIsBetween,
       KeysFollowLog
<1>17. QED
  BY <1>1, <1>2, <1>3, <1>4, <1>5, <1>6, <1>7, <1>8, <1>9, <1>11, <1>12, <1>13,
     <1>14, <1>15, <1>16 DEF Next, Service, Environment

\* Whatever their number and however their leases lapse, workers with distinct
\* ids keep the inductive invariant.
THEOREM Invariance == DistinctIds => (Spec => []Inv)
<1> SUFFICES ASSUME DistinctIds PROVE Spec => []Inv
  OBVIOUS
<1>1. TypeOK /\ TypeOK' /\ Inv /\ [Next]_vars => Inv'
  BY InvPreserved
<1>2. QED
  BY <1>1, InvInitial, TypeCorrect, PTL DEF Spec

\* The owner of a live run steps it on a snapshot that is still the whole log:
\* what "every write is fenced on the live lease" is for.
THEOREM OwnerStepsOnCurrentSnapshot == DistinctIds => (Spec => []OwnerIsCurrent)
<1> SUFFICES ASSUME DistinctIds PROVE Spec => []OwnerIsCurrent
  OBVIOUS
<1>1. Inv => OwnerIsCurrent
  BY DEF Inv
<1>2. QED
  BY <1>1, Invariance, PTL

\* One event more is a step of the promised log.
LEMMA PushIsRecord ==
  ASSUME TypeOK, Inv, status \notin Terminal,
         NEW kind \in Kinds, NEW key \in Keys, NEW seen \in Nat,
         Push(kind, key, seen), ~KeyUsed(key),
         \/ kind # "failed" /\ seen = Len(log)
         \/ kind = "failed" /\ seen = Len(log) - 1 /\ log[Len(log)].kind = "attempt"
  PROVE  Promise!Next
<1> DEFINE e == [kind |-> kind, key |-> key, seen |-> seen]
<1>1. log' = Append(log, e) /\ log \in Seq(Events) /\ e \in Events
  BY DEF Push, TypeOK, Events
<1>2. Len(log') = Len(log) + 1 /\ log'[Len(log')] = e
  BY <1>1
<1>3. ~Promise!Closed
  BY LiveLog DEF Inv, Promise!Closed, Promise!Terminal, Terminal
<1>4. \A i \in DOMAIN log : log[i].key # e.key
  BY DEF KeyUsed
<1>5. Promise!Decided(e)
  BY DEF Promise!Decided
<1>6. QED
  BY <1>1, <1>2, <1>3, <1>4, <1>5 DEF Promise!Next, Promise!Record

\* A fenced write of p, of whatever kind, is a step of the promised log.
LEMMA StoredIsRecord ==
  ASSUME TypeOK, Inv, NEW p \in Procs, NEW kind \in Kinds, NEW key \in Keys,
         Stored(p, kind, key),
         \/ pc[p] \in Deciding /\ kind # "failed"
         \/ pc[p] = "fail" /\ kind = "failed"
  PROVE  Promise!Next \/ UNCHANGED log
<1>1. CASE UNCHANGED row
  BY <1>1 DEF row
<1>2. CASE /\ ~KeyUsed(key)
           /\ \E d \in 0..Lag : Fenced(p, d)
           /\ Push(kind, key, Len(snap[p].events))
  <2>1. status \notin Terminal /\ owner = WorkerId[p]
    BY <1>2 DEF Fenced
  <2>2. Mine(p) /\ Len(snap[p].events) \in Nat /\ Len(log) \in Nat
    BY InvParts DEF TypeOK, Snapshots
  <2>3. \/ kind # "failed" /\ Len(snap[p].events) = Len(log)
        \/ /\ kind = "failed" /\ Len(snap[p].events) = Len(log) - 1
           /\ log[Len(log)].kind = "attempt"
    BY <2>1, <2>2 DEF Mine
  <2>4. QED
    BY <1>2, <2>1, <2>2, <2>3, PushIsRecord
<1>3. QED
  BY <1>1, <1>2 DEF Stored

\* Every step of the service is a step of the promised log or leaves it alone.
LEMMA StepIsPromised ==
  ASSUME TypeOK, Inv, [Next]_vars
  PROVE  [Promise!Next]_log
<1> USE DEF row
<1>1. ASSUME NEW p \in Procs, RecordAttempt(p) PROVE [Promise!Next]_log
  <2>1. outcome[p].key \in Keys /\ "attempt" \in Kinds
    BY KeyTypes DEF TypeOK, Outcomes
  <2>2. QED
    BY <1>1, <2>1, StoredIsRecord DEF RecordAttempt, Refused, Deciding
<1>2. ASSUME NEW p \in Procs, RecordFailed(p) PROVE [Promise!Next]_log
  BY <1>2, KeyTypes, StoredIsRecord DEF RecordFailed, Refused
<1>3. ASSUME NEW p \in Procs, RecordCompleted(p) \/ RecordStep(p)
      PROVE  [Promise!Next]_log
  <2>1. outcome[p].key \in Keys /\ {"completed", "step"} \subseteq Kinds
    BY KeyTypes DEF TypeOK, Outcomes
  <2>2. QED
    BY <1>3, <2>1, StoredIsRecord
    DEF RecordCompleted, RecordStep, Refused, Deciding
<1>4. CASE CancelAppend
  <2>1. CASE status \in Terminal
    BY <1>4, <2>1 DEF CancelAppend
  <2>2. CASE status \notin Terminal
    <3>1. Push("cancelled", Key("cancelled", 0, 0), Len(log))
      BY <1>4, <2>2 DEF CancelAppend
    <3>2. ~KeyUsed(Key("cancelled", 0, 0))
      BY <2>2, LiveLog DEF Inv, KeysFollowLog, KeyUsed, Key, Terminal
    <3>3. Len(log) \in Nat
      BY DEF TypeOK
    <3>4. QED
      BY <2>2, <3>1, <3>2, <3>3, KeyTypes, PushIsRecord
  <2>3. QED
    BY <2>1, <2>2
<1>5. CASE UNCHANGED log
  BY <1>5
<1>6. \/ UNCHANGED log \/ CancelAppend
      \/ \E p \in Procs : RecordAttempt(p) \/ RecordFailed(p) \/ RecordCompleted(p)
                          \/ RecordStep(p)
  BY DEF Next, vars, Service, Environment, Claim, LoopTop, ReadRow, ReadEvents,
     AnyStep, StepReturns, AfterAttempt, CheckDone, AfterStep, Release, Crash,
     CancelCheck, RecoverExpired, Tick
<1>7. QED
  BY <1>1, <1>2, <1>3, <1>4, <1>5, <1>6

\* The service implements the log a run is promised to be: atomic decisions,
\* one event per key, nothing after the first terminal event.
THEOREM Refinement == DistinctIds => (Spec => ImplementsRunLog)
<1> SUFFICES ASSUME DistinctIds PROVE Spec => Promise!Spec
  BY DEF ImplementsRunLog
<1>1. Init => Promise!Init
  BY DEF Init, Promise!Init
<1>2. TypeOK /\ Inv /\ [Next]_vars => [Promise!Next]_log
  BY StepIsPromised
<1>3. QED
  BY <1>1, <1>2, TypeCorrect, Invariance, PTL DEF Spec, Promise!Spec
-----------------------------------------------------------------------------
(* The retry budget.  An attempt is written on a current snapshot, so the  *)
(* writer counts it right; what can go missing is the verdict on it.       *)

LEMMA ConsecutiveType ==
  ASSUME NEW s \in Seq(Events)
  PROVE  Consecutive(s) \in Nat
<1> DEFINE S == {i \in DOMAIN s : \A j \in i..Len(s) : s[j].kind = "attempt"}
<1>1. IsFiniteSet(1..Len(s)) /\ S \subseteq 1..Len(s)
  <2>1. Len(s) \in Nat /\ DOMAIN s = 1..Len(s)
    OBVIOUS
  <2>2. QED
    BY <2>1, FS_Interval
<1>2. IsFiniteSet(S)
  BY <1>1, FS_Subset
<1>3. QED
  BY <1>2, FS_CardinalityType DEF Consecutive

LEMMA AttemptCounts ==
  ASSUME NEW s \in Seq(Events), NEW e \in Events, e.kind = "attempt"
  PROVE  Consecutive(Append(s, e)) = Consecutive(s) + 1
<1> DEFINE t == Append(s, e)
           S == {i \in DOMAIN s : \A j \in i..Len(s) : s[j].kind = "attempt"}
           T == {i \in DOMAIN t : \A j \in i..Len(t) : t[j].kind = "attempt"}
<1>1. /\ Len(s) \in Nat /\ Len(t) = Len(s) + 1 /\ DOMAIN t = 1..(Len(s) + 1)
      /\ t[Len(t)] = e /\ \A i \in 1..Len(s) : t[i] = s[i]
  OBVIOUS
<1>2. T = S \cup {Len(t)}
  <2>1. Len(t) \in T
    BY <1>1
  <2>2. ASSUME NEW i \in S PROVE i \in T
    <3>1. i \in 1..Len(s) /\ i \in DOMAIN t
      BY <1>1
    <3>2. ASSUME NEW j \in i..Len(t) PROVE t[j].kind = "attempt"
      <4>1. j = Len(t) \/ j \in i..Len(s)
        BY <1>1, <3>1
      <4>2. CASE j \in i..Len(s)
        BY <1>1, <3>1, <4>2
      <4>3. QED
        BY <1>1, <4>1, <4>2
    <3>3. QED
      BY <3>1, <3>2
  <2>3. ASSUME NEW i \in T, i # Len(t) PROVE i \in S
    <3>1. i \in 1..Len(s)
      BY <1>1, <2>3
    <3>2. ASSUME NEW j \in i..Len(s) PROVE s[j].kind = "attempt"
      <4>1. j \in i..Len(t) /\ j \in 1..Len(s)
        BY <1>1, <3>1
      <4>2. t[j].kind = "attempt"
        BY <4>1
      <4>3. QED
        BY <1>1, <4>1, <4>2
    <3>3. QED
      BY <3>1, <3>2
  <2>4. QED
    BY <2>1, <2>2, <2>3
<1>3. IsFiniteSet(1..Len(s)) /\ S \subseteq 1..Len(s)
  <2>1. Len(s) \in Nat /\ DOMAIN s = 1..Len(s)
    OBVIOUS
  <2>2. S \subseteq 1..Len(s)
    BY <2>1
  <2>3. QED
    BY <2>1, <2>2, FS_Interval
<1>4. IsFiniteSet(S) /\ Len(t) \notin S
  BY <1>1, <1>3, FS_Subset
<1>5. Cardinality(T) = Cardinality(S) + 1
  <2> HIDE DEF S, T, t
  <2>1. QED
    BY <1>2, <1>4, FS_AddElement
<1>6. QED
  BY <1>5 DEF Consecutive

LEMMA OthersReset ==
  ASSUME NEW s \in Seq(Events), s # <<>>, s[Len(s)].kind # "attempt"
  PROVE  Consecutive(s) = 0
<1>1. {i \in DOMAIN s : \A j \in i..Len(s) : s[j].kind = "attempt"} = {}
  OBVIOUS
<1>2. QED
  BY <1>1, FS_EmptySet DEF Consecutive

\* An event changes the count as it should.
LEMMA PushCounts ==
  ASSUME TypeOK, NEW kind \in Kinds, NEW key \in Keys, NEW seen \in Nat,
         Push(kind, key, seen)
  PROVE  Consecutive(log') = IF kind = "attempt" THEN Consecutive(log) + 1 ELSE 0
<1> DEFINE e == [kind |-> kind, key |-> key, seen |-> seen]
<1>1. /\ log' = Append(log, e) /\ log \in Seq(Events) /\ e \in Events /\ e.kind = kind
      /\ log' \in Seq(Events) /\ log' # <<>> /\ log'[Len(log')] = e
  <2>1. log' = Append(log, e) /\ log \in Seq(Events) /\ e \in Events
    BY DEF Push, TypeOK, Events
  <2>2. Len(log') = Len(log) + 1 /\ log'[Len(log')] = e /\ Len(log) \in Nat
    BY <2>1
  <2>3. log' # <<>> /\ log' \in Seq(Events)
    BY <2>1, <2>2
  <2>4. QED
    BY <2>1, <2>2, <2>3
<1>2. CASE kind = "attempt"
  BY <1>1, <1>2, AttemptCounts
<1>3. CASE kind # "attempt"
  BY <1>1, <1>3, OthersReset
<1>4. QED
  BY <1>2, <1>3

\* What excuses attempts beyond the budget.
Excuses == lost + Cardinality(Undecided)

LEMMA ExcusesType ==
  ASSUME IsFiniteSet(Procs), TypeOK
  PROVE  IsFiniteSet(Undecided) /\ Cardinality(Undecided) \in Nat /\ Excuses \in Nat
BY FS_Subset, FS_CardinalityType DEF Undecided, Excuses, TypeOK

LEMMA ExcusesTypePrime ==
  ASSUME IsFiniteSet(Procs), TypeOK'
  PROVE  Excuses' \in Nat
<1>1. IsFiniteSet(Undecided')
  BY FS_Subset DEF Undecided
<1>2. QED
  BY <1>1, FS_CardinalityType DEF Excuses, TypeOK

\* A step of p excuses no less than before, and more if it makes p undecided.
LEMMA ExcusesKept ==
  ASSUME IsFiniteSet(Procs), TypeOK, NEW p \in Procs, OnlyMoves(p),
         \/ lost' = lost /\ (p \in Undecided => p \in Undecided')
         \/ Leaves(p)
  PROVE  /\ Excuses' >= Excuses
         /\ (lost' = lost /\ p \notin Undecided /\ p \in Undecided' => Excuses' = Excuses + 1)
<1>1. PICK U, V : U = Undecided /\ V = Undecided'
  OBVIOUS
<1>2. PICK W : W = U \ {p}
  OBVIOUS
<1>3. IsFiniteSet(U) /\ Cardinality(U) \in Nat /\ lost \in Nat
  BY <1>1, ExcusesType DEF TypeOK
<1>4. V \ {p} = W
  BY <1>1, <1>2 DEF Undecided, OnlyMoves, Exhausted
<1>5. IsFiniteSet(W) /\ Cardinality(W) \in Nat /\ p \notin W
  BY <1>2, <1>3, FS_Subset, FS_CardinalityType
<1>6. Cardinality(U) = Cardinality(W) + (IF p \in U THEN 1 ELSE 0)
  <2>1. U = IF p \in U THEN W \cup {p} ELSE W
    BY <1>2
  <2>2. QED
    BY <2>1, <1>5, FS_AddElement
<1>7. Cardinality(V) = Cardinality(W) + (IF p \in V THEN 1 ELSE 0)
  <2>1. V = IF p \in V THEN W \cup {p} ELSE W
    BY <1>4
  <2>2. QED
    BY <2>1, <1>5, FS_AddElement
<1>8. \/ lost' = lost /\ (p \in U => p \in V)
      \/ lost' = lost + (IF p \in U THEN 1 ELSE 0)
  BY <1>1 DEF Leaves
<1>9. Excuses = lost + Cardinality(U) /\ Excuses' = lost' + Cardinality(V)
  BY <1>1 DEF Excuses
<1>10. /\ Excuses' >= Excuses
       /\ (lost' = lost /\ p \notin U /\ p \in V => Excuses' = Excuses + 1)
  BY <1>3, <1>5, <1>6, <1>7, <1>8, <1>9
<1>11. QED
  BY <1>1, <1>10

LEMMA BudgetKept ==
  ASSUME IsFiniteSet(Procs), DistinctIds, TypeOK, TypeOK', Inv, RetryBudget, [Next]_vars
  PROVE  RetryBudget'
<1> USE DEF row, lease, local, Goto
<1> DEFINE Within == Consecutive(log') <= MaxRetries + Excuses'
<1>a. /\ Consecutive(log) <= MaxRetries + Excuses
      /\ Consecutive(log) \in Nat /\ MaxRetries \in Nat
      /\ Excuses \in Nat /\ Excuses' \in Nat
  <2>1. Consecutive(log) \in Nat /\ MaxRetries \in Nat
    BY ConsecutiveType, ServiceAssumption DEF TypeOK
  <2>2. Excuses \in Nat /\ Excuses' \in Nat /\ Cardinality(Undecided) \in Nat /\ lost \in Nat
    BY ExcusesType, ExcusesTypePrime DEF TypeOK
  <2>3. QED
    BY <2>1, <2>2 DEF RetryBudget, Excuses
<1>b. SUFFICES Within
  <2>1. lost' \in Nat /\ Cardinality(Undecided') \in Nat
    <3>1. IsFiniteSet(Undecided')
      BY FS_Subset DEF Undecided
    <3>2. QED
      BY <3>1, FS_CardinalityType DEF TypeOK
  <2>2. QED
    BY <2>1, <1>a DEF RetryBudget, Excuses
<1>1. ASSUME NEW p \in Procs, RecordAttempt(p) PROVE Within
  <2>1. /\ OnlyMoves(p) /\ lost' = lost /\ p \notin Undecided
        /\ snap' = snap /\ outcome' = outcome
    BY <1>1 DEF RecordAttempt, OnlyMoves, TypeOK, Undecided
  <2>2. /\ Excuses' >= Excuses
        /\ p \in Undecided' => Excuses' = Excuses + 1
    BY <2>1, ExcusesKept
  <2>3. CASE UNCHANGED row
    BY <2>2, <2>3, <1>a
  <2>4. CASE /\ \E d \in 0..Lag : Fenced(p, d)
             /\ Push("attempt", outcome[p].key, Len(snap[p].events))
             /\ pc' = [pc EXCEPT ![p] = "beat"]
    <3>1. log = snap[p].events
      <4>1. status \notin Terminal /\ owner = WorkerId[p] /\ pc[p] = "attempt"
        BY <1>1, <2>4 DEF Fenced, RecordAttempt
      <4>2. QED
        BY <4>1 DEF Inv, OwnerIsCurrent, Deciding
    <3>2. Consecutive(log') = Consecutive(log) + 1
      <4>1. outcome[p].key \in Keys /\ "attempt" \in Kinds /\ Len(snap[p].events) \in Nat
        BY KeyTypes DEF TypeOK, Outcomes, Snapshots
      <4>2. QED
        BY <2>4, <4>1, PushCounts
    <3>3. pc'[p] = "beat"
      BY <2>4 DEF TypeOK
    <3>4. CASE Exhausted(p)
      <4>1. p \in Undecided'
        BY <2>1, <3>3, <3>4 DEF Undecided, Exhausted
      <4>2. QED
        BY <4>1, <2>2, <3>2, <1>a
    <3>5. CASE ~Exhausted(p)
      BY <3>1, <3>2, <3>5, <2>2, <1>a DEF Exhausted
    <3>6. QED
      BY <3>4, <3>5
  <2>5. QED
    BY <1>1, <2>3, <2>4 DEF RecordAttempt, Stored, Refused
<1>2. ASSUME NEW p \in Procs, AfterAttempt(p) PROVE Within
  <2>1. OnlyMoves(p) /\ log' = log
    BY <1>2 DEF AfterAttempt, OnlyMoves, TypeOK
  <2>2. \/ lost' = lost /\ pc'[p] = (IF Exhausted(p) THEN "fail" ELSE "loop")
        \/ Leaves(p)
    BY <1>2 DEF AfterAttempt, TypeOK
  <2>3. \/ lost' = lost /\ (p \in Undecided => p \in Undecided')
        \/ Leaves(p)
    BY <1>2, <2>2 DEF AfterAttempt, Undecided, Exhausted
  <2>4. QED
    BY <2>1, <2>3, ExcusesKept, <1>a
<1>3. ASSUME NEW p \in Procs, RecordFailed(p) PROVE Within
  <2>1. OnlyMoves(p)
    BY <1>3 DEF RecordFailed, OnlyMoves, TypeOK
  <2>2. CASE Leaves(p) /\ UNCHANGED row
    BY <2>1, <2>2, ExcusesKept, <1>a
  <2>3. CASE Stored(p, "failed", Key("failed", 0, 0))
    <3>1. Consecutive(log') = 0
      <4>1. CASE KeyUsed(Key("failed", 0, 0)) /\ UNCHANGED row
        <5>1. PICK i \in DOMAIN log : log[i].key = Key("failed", 0, 0)
          BY <4>1 DEF KeyUsed
        <5>2. log[i].kind = "failed"
          BY <5>1 DEF Inv, KeysFollowLog, Key
        <5>3. i = Len(log)
          BY <5>2 DEF Inv, TerminalSticky, Terminal
        <5>4. log \in Seq(Events) /\ log # <<>> /\ log[Len(log)].kind # "attempt" /\ log' = log
          BY <4>1, <5>2, <5>3 DEF TypeOK
        <5>5. QED
          BY <5>4, OthersReset
      <4>2. CASE Push("failed", Key("failed", 0, 0), Len(snap[p].events))
        <5>1. Key("failed", 0, 0) \in Keys /\ "failed" \in Kinds /\ Len(snap[p].events) \in Nat
          BY KeyTypes DEF TypeOK, Snapshots
        <5>2. QED
          BY <4>2, <5>1, PushCounts
      <4>3. QED
        BY <2>3, <4>1, <4>2 DEF Stored
    <3>2. \A m, n \in Nat : 0 <= m + n
      OBVIOUS
    <3>3. MaxRetries \in Nat /\ Excuses' \in Nat
      BY <1>a
    <3>4. 0 <= MaxRetries + Excuses'
      BY <3>2, <3>3
    <3>5. QED
      BY <3>1, <3>4
  <2>4. (Leaves(p) /\ UNCHANGED row) \/ Stored(p, "failed", Key("failed", 0, 0))
    BY <1>3 DEF RecordFailed, Refused
  <2>5. QED
    BY <2>2, <2>3, <2>4
<1>4. ASSUME NEW p \in Procs, Crash(p) PROVE Within
  <2>1. OnlyMoves(p) /\ Leaves(p) /\ log' = log
    BY <1>4 DEF Crash, Forget, OnlyMoves, TypeOK
  <2>2. QED
    BY <2>1, ExcusesKept, <1>a
<1>5. ASSUME NEW p \in Procs, RecordCompleted(p) \/ RecordStep(p) PROVE Within
  <2>1. OnlyMoves(p) /\ lost' = lost /\ p \notin Undecided
    BY <1>5 DEF RecordCompleted, RecordStep, OnlyMoves, TypeOK, Undecided
  <2>2. Excuses' >= Excuses
    BY <2>1, ExcusesKept
  <2>3. ASSUME NEW kind \in {"completed", "step"},
               Push(kind, outcome[p].key, Len(snap[p].events))
        PROVE  Consecutive(log') = 0
    <3>1. /\ outcome[p].key \in Keys /\ kind \in Kinds /\ kind # "attempt"
          /\ Len(snap[p].events) \in Nat
      BY KeyTypes DEF TypeOK, Outcomes, Snapshots
    <3>2. QED
      BY <2>3, <3>1, PushCounts
  <2>4. log' = log \/ Consecutive(log') = 0
    BY <1>5, <2>3 DEF RecordCompleted, RecordStep, Stored, Refused
  <2>5. QED
    BY <2>2, <2>4, <1>a
<1>6. ASSUME NEW p \in Procs,
             \/ Claim(p) \/ LoopTop(p) \/ ReadRow(p) \/ ReadEvents(p) \/ AnyStep(p)
             \/ CheckDone(p) \/ AfterStep(p) \/ Release(p)
      PROVE  Within
  <2>1. OnlyMoves(p) /\ lost' = lost /\ log' = log /\ pc[p] \notin {"beat", "fail"}
    <3> USE DEF OnlyMoves, TypeOK
    <3>1. CASE Claim(p) \/ LoopTop(p)
      BY <3>1 DEF Claim, LoopTop
    <3>2. CASE ReadRow(p) \/ ReadEvents(p)
      BY <3>2 DEF ReadRow, ReadEvents
    <3>3. CASE AnyStep(p)
      BY <3>3 DEF AnyStep, StepReturns
    <3>4. CASE CheckDone(p) \/ AfterStep(p) \/ Release(p)
      BY <3>4 DEF CheckDone, AfterStep, Release, Forget
    <3>5. QED
      BY <1>6, <3>1, <3>2, <3>3, <3>4
  <2>2. p \notin Undecided
    BY <2>1 DEF Undecided
  <2>3. QED
    BY <2>1, <2>2, ExcusesKept, <1>a
<1>7. CASE CancelAppend
  <2>1. Undecided' = Undecided /\ lost' = lost
    BY <1>7 DEF CancelAppend, Undecided, Exhausted
  <2>2. Excuses' = Excuses
    BY <2>1 DEF Excuses
  <2>3. CASE log' = log
    BY <2>2, <2>3, <1>a
  <2>4. CASE Push("cancelled", Key("cancelled", 0, 0), Len(log))
    <3>1. Key("cancelled", 0, 0) \in Keys /\ "cancelled" \in Kinds /\ Len(log) \in Nat
      BY KeyTypes DEF TypeOK
    <3>2. QED
      BY <2>2, <2>4, <3>1, <1>a, PushCounts
  <2>5. QED
    BY <1>7, <2>3, <2>4 DEF CancelAppend
<1>8. CASE CancelCheck \/ RecoverExpired \/ Tick \/ UNCHANGED vars
  <2>1. Undecided' = Undecided /\ lost' = lost /\ log' = log
    BY <1>8 DEF CancelCheck, RecoverExpired, Tick, vars, Undecided, Exhausted
  <2>2. Excuses' = Excuses
    BY <2>1 DEF Excuses
  <2>3. QED
    BY <2>1, <2>2, <1>a
<1>9. QED
  BY <1>1, <1>2, <1>3, <1>4, <1>5, <1>6, <1>7, <1>8 DEF Next, Service, Environment

\* A finite number of workers with distinct ids make more attempts in a row than
\* max_retries only on account of workers that left before recording the failure.
THEOREM RetryBudgetHolds ==
  DistinctIds /\ IsFiniteSet(Procs) => (Spec => []RetryBudget)
<1> SUFFICES ASSUME DistinctIds, IsFiniteSet(Procs) PROVE Spec => []RetryBudget
  OBVIOUS
<1>1. Init => RetryBudget
  <2> SUFFICES ASSUME Init PROVE RetryBudget
    OBVIOUS
  <2>1. Undecided = {} /\ lost = 0
    BY DEF Init, Undecided
  <2>2. {i \in DOMAIN log : \A j \in i..Len(log) : log[j].kind = "attempt"} = {}
    BY DEF Init
  <2>3. Cardinality({}) = 0
    BY FS_EmptySet
  <2>4. Consecutive(log) = 0
    BY <2>2, <2>3 DEF Consecutive
  <2>5. QED
    BY <2>1, <2>3, <2>4, ServiceAssumption DEF RetryBudget
<1>2. TypeOK /\ TypeOK' /\ Inv /\ RetryBudget /\ [Next]_vars => RetryBudget'
  BY BudgetKept
<1>3. QED
  BY <1>1, <1>2, TypeCorrect, Invariance, PTL DEF Spec
-----------------------------------------------------------------------------
(* What survives when two processes present the same worker id, as nothing *)
(* in claim() prevents: the terminal check of an append, not the lease.    *)

\* Only cancel() writes the key "cancelled", so it cannot find it taken.
WriterKeys ==
  \A p \in Procs : pc[p] \in {"attempt", "complete", "commit", "record"} =>
    outcome[p].key.tag # "cancelled"

KeyInv ==
  /\ TerminalSticky
  /\ \A i \in DOMAIN log : log[i].key.tag = "cancelled" => log[i].kind = "cancelled"
  /\ WriterKeys

\* The log of a live run grows by an event.
NewEvent(kind, key, seen) ==
  /\ status \notin Terminal
  /\ key.tag = "cancelled" => kind = "cancelled"
  /\ Push(kind, key, seen)

SomeEvent == \E kind \in Kinds, key \in Keys, seen \in Nat : NewEvent(kind, key, seen)

LEMMA StoredIsNew ==
  ASSUME TypeOK, NEW p \in Procs, NEW kind \in Kinds, NEW key \in Keys,
         Stored(p, kind, key), key.tag # "cancelled"
  PROVE  UNCHANGED row \/ SomeEvent
<1>1. Len(snap[p].events) \in Nat
  BY DEF TypeOK, Snapshots
<1>2. CASE ~KeyUsed(key) /\ (\E d \in 0..Lag : Fenced(p, d))
           /\ Push(kind, key, Len(snap[p].events))
  BY <1>1, <1>2 DEF SomeEvent, NewEvent, Fenced
<1>3. QED
  BY <1>2 DEF Stored

\* Every step leaves the row alone or adds one such event.
LEMMA StepOfTheRow ==
  ASSUME TypeOK, KeyInv, [Next]_vars
  PROVE  UNCHANGED row \/ SomeEvent
<1> USE DEF row
<1>1. ASSUME NEW p \in Procs, RecordAttempt(p) PROVE UNCHANGED row \/ SomeEvent
  <2>1. outcome[p].key \in Keys /\ "attempt" \in Kinds /\ outcome[p].key.tag # "cancelled"
    BY <1>1, KeyTypes DEF TypeOK, Outcomes, KeyInv, WriterKeys, RecordAttempt
  <2>2. QED
    BY <1>1, <2>1, StoredIsNew DEF RecordAttempt, Refused
<1>2. ASSUME NEW p \in Procs, RecordFailed(p) PROVE UNCHANGED row \/ SomeEvent
  <2>1. /\ Key("failed", 0, 0) \in Keys /\ "failed" \in Kinds
        /\ Key("failed", 0, 0).tag # "cancelled"
    BY KeyTypes DEF Key
  <2>2. QED
    BY <1>2, <2>1, StoredIsNew DEF RecordFailed, Refused
<1>3. ASSUME NEW p \in Procs, RecordCompleted(p) \/ RecordStep(p)
      PROVE  UNCHANGED row \/ SomeEvent
  <2>1. /\ outcome[p].key \in Keys /\ outcome[p].key.tag # "cancelled"
        /\ {"completed", "step"} \subseteq Kinds
    BY <1>3, KeyTypes
    DEF TypeOK, Outcomes, KeyInv, WriterKeys, RecordCompleted, RecordStep
  <2>2. QED
    BY <1>3, <2>1, StoredIsNew DEF RecordCompleted, RecordStep, Refused
<1>4. CASE CancelAppend
  <2>1. CASE status \in Terminal
    BY <1>4, <2>1 DEF CancelAppend
  <2>2. CASE status \notin Terminal
    <3>1. Push("cancelled", Key("cancelled", 0, 0), Len(log))
      BY <1>4, <2>2 DEF CancelAppend
    <3>2. ~KeyUsed(Key("cancelled", 0, 0))
      BY <2>2, LiveLog DEF KeyInv, KeyUsed, Key, Terminal
    <3>3. Len(log) \in Nat /\ Key("cancelled", 0, 0) \in Keys /\ "cancelled" \in Kinds
      BY KeyTypes DEF TypeOK
    <3>4. QED
      BY <2>2, <3>1, <3>2, <3>3 DEF SomeEvent, NewEvent
  <2>3. QED
    BY <2>1, <2>2
<1>5. \/ UNCHANGED row \/ CancelAppend
      \/ \E p \in Procs : RecordAttempt(p) \/ RecordFailed(p) \/ RecordCompleted(p)
                          \/ RecordStep(p)
  BY DEF Next, vars, Service, Environment, Claim, LoopTop, ReadRow, ReadEvents,
     AnyStep, StepReturns, AfterAttempt, CheckDone, AfterStep, Release, Crash,
     CancelCheck, RecoverExpired, Tick
<1>6. QED
  BY <1>1, <1>2, <1>3, <1>4, <1>5

LEMMA WriterKeysKept ==
  ASSUME TypeOK, WriterKeys, [Next]_vars
  PROVE  WriterKeys'
<1> USE DEF WriterKeys, TypeOK, local, Goto
<1>1. ASSUME NEW p \in Procs, AnyStep(p) PROVE WriterKeys'
  <2>1. ASSUME NEW verdict, NEW key, key.tag # "cancelled", StepReturns(p, verdict, key)
        PROVE  WriterKeys'
    BY <2>1 DEF StepReturns
  <2>2. /\ DefaultKey(p).tag # "cancelled"
        /\ Key("completed", 0, 0).tag # "cancelled"
        /\ Key("attempt", snap[p].attempts + 1, 0).tag # "cancelled"
        /\ \A e \in EventKeys : Key("event", e, 0).tag # "cancelled"
    BY DEF DefaultKey, Key
  <2>3. QED
    BY <1>1, <2>1, <2>2 DEF AnyStep
<1>2. ASSUME NEW p \in Procs, CheckDone(p) PROVE WriterKeys'
  BY <1>2 DEF CheckDone
<1>3. ASSUME NEW p \in Procs, Claim(p) \/ ReadRow(p) \/ ReadEvents(p)
      PROVE  WriterKeys'
  BY <1>3 DEF Claim, ReadRow, ReadEvents
<1>4. ASSUME NEW p \in Procs, LoopTop(p) PROVE WriterKeys'
  BY <1>4 DEF LoopTop
<1>5. ASSUME NEW p \in Procs, RecordAttempt(p) \/ AfterAttempt(p) \/ RecordFailed(p)
      PROVE  WriterKeys'
  BY <1>5 DEF RecordAttempt, AfterAttempt, RecordFailed
<1>6. ASSUME NEW p \in Procs, RecordCompleted(p) \/ RecordStep(p) \/ AfterStep(p)
      PROVE  WriterKeys'
  BY <1>6 DEF RecordCompleted, RecordStep, AfterStep
<1>7. ASSUME NEW p \in Procs, Release(p) \/ Crash(p) PROVE WriterKeys'
  BY <1>7 DEF Release, Crash, Forget
<1>8. CASE Environment
  BY <1>8 DEF Environment, CancelCheck, CancelAppend, RecoverExpired, Tick
<1>9. CASE UNCHANGED vars
  BY <1>9 DEF vars
<1>10. QED
  BY <1>1, <1>2, <1>3, <1>4, <1>5, <1>6, <1>7, <1>8, <1>9 DEF Next, Service

LEMMA NewEventKept ==
  ASSUME TypeOK, KeyInv, NEW kind \in Kinds, NEW key \in Keys, NEW seen \in Nat,
         NewEvent(kind, key, seen), WriterKeys'
  PROVE  KeyInv'
<1> DEFINE e == [kind |-> kind, key |-> key, seen |-> seen]
<1>1. /\ log' = Append(log, e) /\ log \in Seq(Events) /\ e \in Events
      /\ Len(log') = Len(log) + 1 /\ log'[Len(log')] = e
      /\ \A i \in 1..Len(log) : log'[i] = log[i]
      /\ DOMAIN log' = 1..Len(log) \cup {Len(log')}
  BY DEF NewEvent, Push, TypeOK, Events
<1>2. status' = StatusFor(kind) /\ \A i \in DOMAIN log : log[i].kind \notin Terminal
  BY LiveLog DEF NewEvent, Push, KeyInv
<1>3. TerminalSticky'
  <2>1. \A i \in DOMAIN log' : log'[i].kind \in Terminal => i = Len(log')
    BY <1>1, <1>2
  <2>2. log' # <<>> /\ status' = StatusFor(log'[Len(log')].kind)
    BY <1>1, <1>2
  <2>3. QED
    BY <2>1, <2>2 DEF TerminalSticky, StatusFor, Terminal
<1>4. \A i \in DOMAIN log' : log'[i].key.tag = "cancelled" => log'[i].kind = "cancelled"
  BY <1>1 DEF KeyInv, NewEvent
<1>5. QED
  BY <1>3, <1>4 DEF KeyInv

LEMMA KeyInvKept ==
  ASSUME TypeOK, KeyInv, [Next]_vars
  PROVE  KeyInv'
<1>1. WriterKeys'
  BY WriterKeysKept DEF KeyInv
<1>2. CASE UNCHANGED row
  BY <1>1, <1>2 DEF KeyInv, row, TerminalSticky, StatusFor, Terminal
<1>3. CASE SomeEvent
  BY <1>1, <1>3, NewEventKept DEF SomeEvent
<1>4. QED
  BY <1>2, <1>3, StepOfTheRow

LEMMA KeyInvAlways == Spec => []KeyInv
<1>1. Init => KeyInv
  BY DEF Init, KeyInv, TerminalSticky, WriterKeys
<1>2. TypeOK /\ KeyInv /\ [Next]_vars => KeyInv'
  BY KeyInvKept
<1>3. QED
  BY <1>1, <1>2, TypeCorrect, PTL DEF Spec

LEMMA NewEventAppends ==
  ASSUME TypeOK, NEW kind \in Kinds, NEW key \in Keys, NEW seen \in Nat,
         NewEvent(kind, key, seen)
  PROVE  /\ Len(log') = Len(log) + 1
         /\ \A i \in DOMAIN log : log'[i] = log[i]
         /\ status \notin Terminal
<1>1. [kind |-> kind, key |-> key, seen |-> seen] \in Events /\ log \in Seq(Events)
  BY DEF Events, TypeOK
<1>2. QED
  BY <1>1 DEF NewEvent, Push

\* Nothing is ever rewritten, and a run that ended gets no further event.
THEOREM LogOnlyGrows == Spec => AppendOnly
<1> DEFINE A == /\ Len(log') \in {Len(log), Len(log) + 1}
                /\ \A i \in DOMAIN log : log'[i] = log[i]
                /\ log' # log => status \notin Terminal
<1>1. TypeOK /\ KeyInv /\ [Next]_vars => [A]_vars
  <2> SUFFICES ASSUME TypeOK, KeyInv, [Next]_vars PROVE A
    OBVIOUS
  <2>1. CASE UNCHANGED row
    BY <2>1 DEF row
  <2>2. CASE SomeEvent
    BY <2>2, NewEventAppends DEF SomeEvent
  <2>3. QED
    BY <2>1, <2>2, StepOfTheRow
<1>2. QED
  BY <1>1, TypeCorrect, KeyInvAlways, PTL DEF Spec, AppendOnly
=============================================================================
