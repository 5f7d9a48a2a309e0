-------------------------- MODULE AggregatorProofs --------------------------
(***************************************************************************)
(* Proofs about Aggregator, for any artifacts, cards, staleness policy,    *)
(* batching, promotion and retry bounds, with other processes and faults.  *)
(***************************************************************************)
EXTENDS Aggregator, TLAPS

\* AggTypeOK by the code's own grouping of the state.
LedgerOK ==
    /\ ver \in [Artifacts -> Versions]
    /\ content \in [Artifacts -> SUBSET Cards]
    /\ stable \in [Artifacts -> Versions]

BufferOK ==
    /\ buffer \in [Artifacts -> SUBSET Cards]
    /\ waited \in [Artifacts -> 0..MaxWait]
    /\ card \in [Cards -> [art : Artifacts, base : Versions] \union {None}]

PolicyOK ==
    /\ inFlight \subseteq Artifacts
    /\ seen \subseteq Artifacts
    /\ DOMAIN survival \subseteq Artifacts
    /\ \A a \in DOMAIN survival : survival[a] \in 0..(PromoteAfter - 1)
    /\ promotedAt \in [Artifacts -> Versions \union {None}]

WorkOK ==
    /\ phase \in Phases
    /\ todo \subseteq Artifacts
    /\ items \in Seq(Candidate)
    /\ \A k \in DOMAIN items : items[k].tries < CasAttempts
    /\ reports \subseteq Report

HistoryOK ==
    /\ fate \in [Cards -> Fates]
    /\ since \in [Artifacts -> 0..PromoteAfter \union {None}]

\* A candidate being committed was accepted below MaxVersion, and others stop there.
CommitBelowBound == phase = "commit" => items # <<>> /\ ver[InHand.art] <= MaxVersion

Typed == LedgerOK /\ BufferOK /\ PolicyOK /\ WorkOK /\ HistoryOK /\ CommitBelowBound

LEMMA TypedIsTypeOK == Typed => AggTypeOK
BY DEF Typed, LedgerOK, BufferOK, PolicyOK, WorkOK, HistoryOK, AggTypeOK, Range

LEMMA MinOfTwo ==
    ASSUME NEW x \in Int, NEW y \in Int
    PROVE  Min({x, y}) = IF x <= y THEN x ELSE y
<1> DEFINE m == IF x <= y THEN x ELSE y
<1>1. m \in {x, y} /\ \A z \in {x, y} : m <= z
  OBVIOUS
<1>2. \A n \in {x, y} : (\A z \in {x, y} : n <= z) => n = m
  OBVIOUS
<1>3. QED
  BY <1>1, <1>2 DEF Min

\* The candidate in hand and those behind it.
LEMMA HeadAndTail ==
    ASSUME WorkOK, items # <<>>
    PROVE  /\ InHand \in Candidate /\ InHand = items[1] /\ 1 \in DOMAIN items
           /\ Tail(items) \in Seq(Candidate) /\ Len(Tail(items)) = Len(items) - 1
           /\ \A k \in DOMAIN Tail(items) : k + 1 \in DOMAIN items /\ Tail(items)[k] = items[k + 1]
           /\ \A k \in DOMAIN Tail(items) : k + 1 # 1
BY DEF WorkOK, InHand

LEMMA TailTyped ==
    ASSUME WorkOK, items # <<>>, items' = Tail(items)
    PROVE  items' \in Seq(Candidate) /\ \A k \in DOMAIN items' : items'[k].tries < CasAttempts
BY HeadAndTail DEF WorkOK

\* What Unwinds leaves is well-typed.
LEMMA UnwindsTyped == Unwinds => WorkOK' /\ CommitBelowBound'
BY DEF Unwinds, WorkOK, CommitBelowBound, Phases

LEMMA DecidedTyped ==
    ASSUME Typed, items # <<>>, NEW outcome \in {"committed", "oracle", "other"}, Decided(outcome)
    PROVE  WorkOK' /\ CommitBelowBound' /\ inFlight' \subseteq Artifacts
<1>1. [art |-> InHand.art, outcome |-> outcome] \in Report
  BY HeadAndTail DEF Report, Candidate, Typed
<1>2. QED
  BY <1>1, TailTyped DEF Decided, Typed, WorkOK, PolicyOK, CommitBelowBound, Phases

LEMMA FatedTyped ==
    ASSUME HistoryOK, NEW cs, NEW f \in Fates
    PROVE  Fated(cs, f) \in [Cards -> Fates]
BY DEF HistoryOK, Fated
-----------------------------------------------------------------------------
(* Type correctness                                                        *)

LEMMA InitTyped == AggInit => Typed
BY AggregatorAssumption
DEF AggInit, Typed, LedgerOK, BufferOK, PolicyOK, WorkOK, HistoryOK, CommitBelowBound,
    Versions, Phases, Fates

LEMMA BeginStepTyped ==
    ASSUME Typed, NEW skip, BeginStep(skip)
    PROVE  Typed'
<1> USE DEF Typed
<1>1. waited' \in [Artifacts -> 0..MaxWait]
  <2>1. ASSUME NEW a \in Artifacts PROVE Min({waited[a] + 1, MaxWait}) \in 0..MaxWait
    <3>1. waited[a] \in 0..MaxWait /\ MaxWait \in Nat
      BY AggregatorAssumption DEF BufferOK
    <3>2. Min({waited[a] + 1, MaxWait}) = IF waited[a] + 1 <= MaxWait THEN waited[a] + 1 ELSE MaxWait
      BY <3>1, MinOfTwo
    <3>3. QED
      BY <3>1, <3>2
  <2>2. QED
    BY <2>1, AggregatorAssumption DEF BeginStep, Tick
<1>2. WorkOK'
  BY DEF BeginStep, WorkOK, Phases, Ready
<1>3. QED
  BY <1>1, <1>2
  DEF BeginStep, LedgerOK, BufferOK, PolicyOK, HistoryOK, CommitBelowBound, ledger, policy

LEMMA PutForwardTyped ==
    ASSUME Typed, NEW a \in Artifacts, NEW survivors \in SUBSET Cards,
           NEW chosen \in SUBSET survivors, PutForward(a, survivors, chosen)
    PROVE  /\ items' \in Seq(Candidate) /\ \A k \in DOMAIN items' : items'[k].tries < CasAttempts
           /\ reports' \subseteq Report /\ inFlight' \subseteq Artifacts
<1> DEFINE i == [art |-> a, ver |-> ver[a], content |-> content[a],
                 chosen |-> chosen, cards |-> survivors, tries |-> 0]
<1>1. i \in Candidate
  BY DEF Typed, LedgerOK, Candidate
<1>2. items' = Append(items, i) /\ i.tries < CasAttempts
  BY AggregatorAssumption DEF PutForward
<1>3. QED
  BY <1>1, <1>2 DEF PutForward, Typed, WorkOK, PolicyOK

LEMMA PrepareTyped ==
    ASSUME Typed, NEW a \in Artifacts, Prepare(a)
    PROVE  Typed'
<1> USE DEF Typed
<1>1. buffer[a] \subseteq Cards
  BY DEF BufferOK
<1>2. /\ items' \in Seq(Candidate) /\ \A k \in DOMAIN items' : items'[k].tries < CasAttempts
      /\ reports' \subseteq Report /\ inFlight' \subseteq Artifacts
  <2>1. CASE Filed(a)
    BY <2>1 DEF Filed, Report, WorkOK, PolicyOK
  <2>2. ASSUME NEW survivors \in SUBSET Cards, NEW chosen \in Selections(survivors),
               PutForward(a, survivors, chosen)
        PROVE  /\ items' \in Seq(Candidate)
               /\ \A k \in DOMAIN items' : items'[k].tries < CasAttempts
               /\ reports' \subseteq Report /\ inFlight' \subseteq Artifacts
    BY <2>2, PutForwardTyped DEF Selections
  <2>3. \/ Filed(a)
        \/ \E survivors \in SUBSET Cards : \E chosen \in Selections(survivors) :
              PutForward(a, survivors, chosen)
    BY <1>1 DEF Prepare
  <2>4. QED
    BY <2>1, <2>2, <2>3
<1>3. fate' \in [Cards -> Fates]
  <2>1. \E cs : fate' = Fated(cs, "settled")
    BY DEF Prepare
  <2>2. QED
    BY <2>1, FatedTyped DEF Fates
<1>4. LedgerOK' /\ BufferOK' /\ HistoryOK' /\ CommitBelowBound'
  BY <1>3, AggregatorAssumption
  DEF Prepare, Drained, LedgerOK, BufferOK, HistoryOK, CommitBelowBound, ledger
<1>5. PolicyOK'
  BY <1>2 DEF Prepare, PolicyOK
<1>6. WorkOK'
  BY <1>2 DEF Prepare, WorkOK
<1>7. QED
  BY <1>4, <1>5, <1>6

LEMMA PrepareRaisesTyped ==
    ASSUME Typed, NEW a \in Artifacts, PrepareRaises(a)
    PROVE  Typed'
<1> USE DEF Typed
<1>1. WorkOK' /\ CommitBelowBound'
  BY UnwindsTyped DEF PrepareRaises
<1>2. fate' \in [Cards -> Fates]
  BY FatedTyped DEF PrepareRaises, Fates
<1>3. BufferOK'
  <2>1. 0 \in 0..MaxWait
    BY AggregatorAssumption
  <2>2. QED
    BY <2>1 DEF PrepareRaises, Drained, BufferOK
<1>4. QED
  BY <1>1, <1>2, <1>3 DEF PrepareRaises, LedgerOK, PolicyOK, HistoryOK, ledger

\* Steps that only move the phase.
LEMMA PhaseTyped ==
    ASSUME Typed, Prepared \/ Measure \/ Accept \/ AllDecided
    PROVE  Typed'
<1> USE DEF Typed
<1>1. WorkOK' /\ LedgerOK' /\ BufferOK' /\ PolicyOK' /\ HistoryOK'
  BY DEF Prepared, Measure, Accept, AllDecided, WorkOK, LedgerOK, BufferOK, PolicyOK, HistoryOK,
         Phases, ledger, bufvars, policy
<1>2. CommitBelowBound'
  <2>1. CASE Accept
    <3>1. InHand' = InHand /\ ver' = ver
      BY <2>1 DEF Accept, ledger, InHand
    <3>2. ver[InHand.art] <= MaxVersion
      BY <2>1, HeadAndTail, AggregatorAssumption DEF Accept, LedgerOK, Versions, Candidate
    <3>3. QED
      BY <2>1, <3>1, <3>2 DEF Accept, CommitBelowBound
  <2>2. CASE Prepared \/ Measure \/ AllDecided
    BY <2>2 DEF Prepared, Measure, AllDecided, CommitBelowBound
  <2>3. QED
    BY <2>1, <2>2
<1>3. QED
  BY <1>1, <1>2

LEMMA RaisesTyped ==
    ASSUME Typed, MeasureRaises \/ DecideRaises \/ PromoteRaises \/ StepReturns
    PROVE  Typed'
<1> USE DEF Typed
<1>1. CASE MeasureRaises \/ PromoteRaises \/ StepReturns
  <2>1. WorkOK' /\ CommitBelowBound'
    BY <1>1, UnwindsTyped DEF MeasureRaises, PromoteRaises, StepReturns
  <2>2. QED
    BY <1>1, <2>1 DEF MeasureRaises, PromoteRaises, StepReturns, LedgerOK, BufferOK, PolicyOK,
                      HistoryOK, ledger, bufvars, policy
<1>2. CASE DecideRaises
  <2>1. WorkOK' /\ CommitBelowBound'
    BY <1>2, UnwindsTyped DEF DecideRaises, LeavesDecision
  <2>2. since' \in [Artifacts -> 0..PromoteAfter \union {None}] /\ inFlight' \subseteq Artifacts
    BY <1>2 DEF HistoryOK, PolicyOK, DecideRaises, LeavesDecision
  <2>3. QED
    BY <1>2, <2>1, <2>2 DEF DecideRaises, LedgerOK, BufferOK, PolicyOK, HistoryOK, ledger, bufvars,
                            policy
<1>3. QED
  BY <1>1, <1>2

LEMMA RejectTyped ==
    ASSUME Typed, Reject \/ GiveUp
    PROVE  Typed'
<1> USE DEF Typed
<1>1. PICK outcome \in {"committed", "oracle", "other"} : Decided(outcome)
  BY DEF Reject, GiveUp
<1>2. items # <<>>
  BY DEF Reject, GiveUp, CommitBelowBound
<1>3. WorkOK' /\ CommitBelowBound' /\ inFlight' \subseteq Artifacts
  BY <1>1, <1>2, DecidedTyped
<1>4. fate' \in [Cards -> Fates]
  BY FatedTyped DEF Reject, GiveUp, Fates
<1>5. QED
  BY <1>3, <1>4 DEF Reject, GiveUp, LedgerOK, BufferOK, PolicyOK, HistoryOK, ledger, bufvars, policy

LEMMA LandTyped ==
    ASSUME Typed, Land
    PROVE  /\ LedgerOK' /\ BufferOK' /\ fate' \in [Cards -> Fates]
           /\ items # <<>> /\ InHand \in Candidate
           /\ UNCHANGED <<survival, seen, promotedAt>>
<1> USE DEF Typed
<1>1. items # <<>> /\ ver[InHand.art] <= MaxVersion /\ InHand \in Candidate
  BY HeadAndTail DEF Land, CommitBelowBound
<1>2. ver' \in [Artifacts -> Versions]
  <2>1. ver[InHand.art] + 1 \in Versions
    BY <1>1, AggregatorAssumption DEF LedgerOK, Candidate, Versions
  <2>2. QED
    BY <2>1 DEF Land, LedgerOK
<1>3. content' \in [Artifacts -> SUBSET Cards]
  BY <1>1 DEF Land, Candidates, LedgerOK, Candidate
<1>4. fate' \in [Cards -> Fates]
  BY DEF Land, HistoryOK, Fates
<1>5. QED
  BY <1>1, <1>2, <1>3, <1>4 DEF Land, LedgerOK, BufferOK, bufvars, policy

LEMMA CommitTyped ==
    ASSUME Typed, Commit
    PROVE  Typed'
<1> USE DEF Typed
<1>1. /\ LedgerOK' /\ BufferOK' /\ fate' \in [Cards -> Fates]
      /\ items # <<>> /\ UNCHANGED <<survival, seen, promotedAt>>
  BY LandTyped DEF Commit
<1>2. WorkOK' /\ CommitBelowBound' /\ inFlight' \subseteq Artifacts
  BY <1>1, DecidedTyped DEF Commit
<1>3. since' \in [Artifacts -> 0..PromoteAfter \union {None}]
  <2>1. 0 \in 0..PromoteAfter /\ since' = [since EXCEPT ![InHand.art] = 0]
    BY AggregatorAssumption DEF Commit
  <2>2. QED
    BY <2>1 DEF HistoryOK
<1>4. QED
  BY <1>1, <1>2, <1>3 DEF PolicyOK, HistoryOK

LEMMA CommitRaisesTyped ==
    ASSUME Typed, CommitRaises
    PROVE  Typed'
<1> USE DEF Typed
<1>1. /\ LedgerOK' /\ BufferOK' /\ fate' \in [Cards -> Fates]
      /\ UNCHANGED <<survival, seen, promotedAt>>
  BY LandTyped DEF CommitRaises
<1>2. WorkOK' /\ CommitBelowBound'
  BY UnwindsTyped DEF CommitRaises, LeavesDecision
<1>3. since' \in [Artifacts -> 0..PromoteAfter \union {None}] /\ inFlight' \subseteq Artifacts
  BY DEF HistoryOK, PolicyOK, CommitRaises, LeavesDecision
<1>4. QED
  BY <1>1, <1>2, <1>3 DEF PolicyOK, HistoryOK

LEMMA UpdatedCandidate ==
    ASSUME NEW i \in Candidate, NEW v \in Versions, NEW d \in SUBSET Cards, NEW n \in Nat
    PROVE  [i EXCEPT !.ver = v, !.content = d, !.tries = n] \in Candidate
<1>1. [i EXCEPT !.ver = v] \in Candidate
  BY DEF Candidate
<1>2. \A r \in Candidate : [r EXCEPT !.content = d] \in Candidate
  BY DEF Candidate
<1>3. \A r \in Candidate : [r EXCEPT !.tries = n] \in Candidate
  BY DEF Candidate
<1>4. [i EXCEPT !.ver = v, !.content = d, !.tries = n]
        = [[[i EXCEPT !.ver = v] EXCEPT !.content = d] EXCEPT !.tries = n]
  BY DEF Candidate
<1>5. QED
  BY <1>1, <1>2, <1>3, <1>4

LEMMA RebaseTyped ==
    ASSUME Typed, Rebase
    PROVE  Typed'
<1> USE DEF Typed
<1>1. /\ items # <<>> /\ InHand \in Candidate /\ Rebased(InHand).art = InHand.art
      /\ ver[InHand.art] <= MaxVersion
  BY HeadAndTail DEF Rebase, CommitBelowBound, Rebased, Candidate
<1>2. Rebased(InHand) \in Candidate /\ Rebased(InHand).tries < CasAttempts
  <2>1. /\ InHand.art \in Artifacts /\ InHand.tries \in Nat /\ InHand.tries + 1 < CasAttempts
        /\ ver[InHand.art] \in Versions /\ content[InHand.art] \in SUBSET Cards
    BY <1>1 DEF Rebase, CanRebase, Candidate, LedgerOK
  <2>2. Rebased(InHand).tries = InHand.tries + 1
    BY <1>1 DEF Rebased, Candidate
  <2>3. Rebased(InHand) \in Candidate
    <3>1. Rebased(InHand).tries \in Nat
      BY <2>1, <2>2
    <3>2. QED
      BY <1>1, <2>1, <3>1, UpdatedCandidate DEF Rebased
  <2>4. QED
    BY <2>1, <2>2, <2>3
<1>3. /\ items' \in Seq(Candidate) /\ Len(items') = Len(items)
      /\ items'[1] = Rebased(InHand)
      /\ \A k \in 2..Len(items) : items'[k] = items[k]
  <2>1. Tail(items) \in Seq(Candidate) /\ <<Rebased(InHand)>> \in Seq(Candidate)
    BY <1>1, <1>2, HeadAndTail
  <2>2. items' = <<Rebased(InHand)>> \o Tail(items) /\ items \in Seq(Candidate) /\ Len(items) > 0
    BY <1>1 DEF Rebase, WorkOK
  <2>3. QED
    BY <2>1, <2>2
<1>4. WorkOK'
  <2>1. \A k \in DOMAIN items' : items'[k].tries < CasAttempts
    BY <1>2, <1>3 DEF WorkOK
  <2>2. QED
    BY <1>3, <2>1 DEF Rebase, WorkOK
<1>5. CommitBelowBound'
  <2>1. InHand' = Rebased(InHand)
    BY <1>3 DEF InHand
  <2>2. items' # <<>> /\ ver' = ver
    BY <1>1, <1>3 DEF Rebase, ledger
  <2>3. QED
    BY <1>1, <2>1, <2>2 DEF CommitBelowBound
<1>6. QED
  BY <1>4, <1>5
  DEF Rebase, LedgerOK, BufferOK, PolicyOK, HistoryOK, ledger, bufvars, policy

LEMMA ObserveTyped ==
    ASSUME Typed, Observe
    PROVE  Typed'
<1> USE DEF Typed
<1> DEFINE tracked == DOMAIN survival \union {r.art : r \in reports}
<1>1. tracked \subseteq Artifacts
  BY DEF PolicyOK, WorkOK, Report
<1>2. \A a \in tracked : Aged(a) \in Nat
  BY AggregatorAssumption DEF Aged, PolicyOK
<1>3. survival' = [a \in tracked |-> IF Aged(a) >= PromoteAfter THEN 0 ELSE Aged(a)]
  BY DEF Observe
<1>4. /\ DOMAIN survival' \subseteq Artifacts
      /\ \A a \in DOMAIN survival' : survival'[a] \in 0..(PromoteAfter - 1)
  BY <1>1, <1>2, <1>3, AggregatorAssumption
<1>5. since' \in [Artifacts -> 0..PromoteAfter \union {None}]
  <2>1. ASSUME NEW a \in Artifacts, since[a] # None
        PROVE  Min({since[a] + 1, PromoteAfter}) \in 0..PromoteAfter
    <3>1. since[a] \in 0..PromoteAfter /\ PromoteAfter \in Nat
      BY <2>1, AggregatorAssumption DEF HistoryOK
    <3>2. Min({since[a] + 1, PromoteAfter})
            = IF since[a] + 1 <= PromoteAfter THEN since[a] + 1 ELSE PromoteAfter
      BY <3>1, MinOfTwo
    <3>3. QED
      BY <3>1, <3>2
  <2>2. QED
    BY <2>1 DEF Observe
<1>6. WorkOK'
  <2>1. todo' \subseteq Artifacts
    BY <1>1 DEF Observe
  <2>2. QED
    BY <2>1 DEF Observe, WorkOK, Phases
<1>7. PolicyOK'
  BY <1>4 DEF Observe, PolicyOK
<1>8. QED
  BY <1>5, <1>6, <1>7 DEF Observe, LedgerOK, BufferOK, HistoryOK, CommitBelowBound, ledger, bufvars

LEMMA PromoteTyped ==
    ASSUME Typed, NEW a \in Artifacts, Promote(a)
    PROVE  Typed'
BY DEF Typed, Promote, CopyToStable, LedgerOK, BufferOK, PolicyOK, WorkOK, HistoryOK,
       CommitBelowBound, bufvars

LEMMA IngestTyped ==
    ASSUME Typed, NEW c \in Cards, Ingest(c)
    PROVE  Typed'
<1> USE DEF Typed
<1>1. PICK a \in Artifacts, base \in Versions :
        /\ card' = [card EXCEPT ![c] = [art |-> a, base |-> base]]
        /\ buffer' = [buffer EXCEPT ![a] = @ \union {c}]
  BY DEF Ingest
<1>2. BufferOK'
  BY <1>1 DEF Ingest, BufferOK
<1>3. HistoryOK'
  BY DEF Ingest, HistoryOK, Fates
<1>4. QED
  BY <1>2, <1>3
  DEF Ingest, LedgerOK, PolicyOK, WorkOK, CommitBelowBound, InHand, ledger, policy, work

LEMMA OtherCommitsTyped ==
    ASSUME Typed, NEW a \in Artifacts, OtherCommits(a)
    PROVE  Typed'
<1> USE DEF Typed
<1>1. ver[a] \in Nat /\ ver[a] + 1 <= MaxVersion /\ ver[a] + 1 \in Versions
  BY AggregatorAssumption DEF OtherCommits, LedgerOK, Versions
<1>2. content' \in [Artifacts -> SUBSET Cards]
  BY DEF OtherCommits, LedgerOK
<1>3. LedgerOK'
  BY <1>1, <1>2 DEF OtherCommits, LedgerOK
<1>4. HistoryOK'
  <2>1. 0 \in 0..PromoteAfter
    BY AggregatorAssumption
  <2>2. QED
    BY <2>1 DEF OtherCommits, HistoryOK
<1>5. CommitBelowBound'
  BY <1>1 DEF OtherCommits, CommitBelowBound, LedgerOK, InHand, work
<1>6. QED
  BY <1>3, <1>4, <1>5 DEF OtherCommits, BufferOK, PolicyOK, WorkOK, bufvars, policy, work

LEMMA StutterTyped ==
    ASSUME Typed, UNCHANGED aggVars
    PROVE  Typed'
BY DEF Typed, aggVars, ledger, bufvars, policy, work, LedgerOK, BufferOK, PolicyOK, WorkOK,
       HistoryOK, CommitBelowBound, InHand

LEMMA NextTyped ==
    ASSUME Typed, [AggNext]_aggVars
    PROVE  Typed'
BY BeginStepTyped, PrepareTyped, PrepareRaisesTyped, PhaseTyped, RaisesTyped, RejectTyped,
   CommitTyped, CommitRaisesTyped, RebaseTyped, ObserveTyped, PromoteTyped, IngestTyped,
   OtherCommitsTyped, StutterTyped
DEF AggNext, Step, Finishing, FinishRaises

LEMMA TypedAlways == AggSpec => []Typed
BY InitTyped, NextTyped, PTL DEF AggSpec

\* The merger's variables keep their types; a candidate is never put to the compare-and-swap more
\* often than CasAttempts allows, whatever other processes commit.
THEOREM AggTypeCorrect == AggSpec => []AggTypeOK
BY TypedAlways, TypedIsTypeOK, PTL
-----------------------------------------------------------------------------
(* No update is lost                                                       *)

\* A candidate remembers an older version of its artifact, or the state dev holds.
Remembers == \A k \in DOMAIN items :
    /\ items[k].ver <= ver[items[k].art]
    /\ items[k].ver = ver[items[k].art] => items[k].content = content[items[k].art]

LEMMA RemembersKept ==
    ASSUME Typed, Remembers, [AggNext]_aggVars
    PROVE  Remembers'
<1> USE DEF Typed
<1>1. ASSUME UNCHANGED <<ver, content>>, UNCHANGED items PROVE Remembers'
  BY <1>1 DEF Remembers
<1>2. ASSUME items' = <<>> PROVE Remembers'
  BY <1>2 DEF Remembers
<1>3. ASSUME NEW a \in Artifacts, Prepare(a) PROVE Remembers'
  <2>1. ver' = ver /\ content' = content
    BY <1>3 DEF Prepare, ledger
  <2>2. CASE items' = items
    BY <1>1, <2>1, <2>2
  <2>3. ASSUME NEW survivors, NEW chosen, PutForward(a, survivors, chosen) PROVE Remembers'
    <3>1. /\ Len(items') = Len(items) + 1
          /\ \A k \in 1..Len(items) : items'[k] = items[k]
          /\ items'[Len(items) + 1].art = a
          /\ items'[Len(items) + 1].ver = ver[a]
          /\ items'[Len(items) + 1].content = content[a]
      BY <2>3 DEF PutForward, WorkOK
    <3>2. ver[a] <= ver[a]
      BY DEF LedgerOK, Versions
    <3>3. QED
      BY <2>1, <3>1, <3>2 DEF Remembers, WorkOK
  <2>4. items' = items \/ \E survivors, chosen : PutForward(a, survivors, chosen)
    BY <1>3 DEF Prepare, Filed
  <2>5. QED
    BY <2>2, <2>3, <2>4
<1>4. ASSUME items # <<>>, items' = Tail(items), UNCHANGED <<ver, content>> PROVE Remembers'
  BY <1>4, HeadAndTail DEF Remembers
<1>5. CASE Commit
  <2>1. /\ items # <<>> /\ items' = Tail(items) /\ InHand \in Candidate
        /\ ver' = [ver EXCEPT ![InHand.art] = @ + 1]
        /\ content' = [content EXCEPT ![InHand.art] = Candidates(InHand)]
    BY <1>5, HeadAndTail DEF Commit, Land, CommitBelowBound, Decided
  <2>2. ASSUME NEW k \in DOMAIN items
        PROVE  /\ items[k].ver <= ver'[items[k].art]
               /\ items[k].ver = ver'[items[k].art] => items[k].content = content'[items[k].art]
    <3>1. items[k] \in Candidate
      BY DEF WorkOK
    <3>2. items[k].ver \in Int /\ ver[items[k].art] \in Int
      BY <3>1 DEF Candidate, LedgerOK, Versions
    <3>3. items[k].art \in Artifacts /\ InHand.art \in Artifacts
      BY <2>1, <3>1 DEF Candidate
    <3>4. QED
      BY <2>1, <3>2, <3>3 DEF Remembers, LedgerOK
  <2>3. QED
    BY <2>1, <2>2, HeadAndTail DEF Remembers
<1>6. CASE Rebase
  <2>1. /\ items # <<>> /\ InHand \in Candidate /\ ver' = ver /\ content' = content
        /\ items' = <<Rebased(InHand)>> \o Tail(items) /\ InHand = items[1]
    BY <1>6, HeadAndTail DEF Rebase, CommitBelowBound, ledger
  <2>2. /\ Rebased(InHand).art = InHand.art
        /\ Rebased(InHand).ver = ver[InHand.art]
        /\ Rebased(InHand).content = content[InHand.art]
    BY <2>1 DEF Rebased, Candidate
  <2>3. /\ items'[1] = Rebased(InHand) /\ DOMAIN items' = DOMAIN items
        /\ \A k \in DOMAIN items \ {1} : items'[k] = items[k]
    BY <2>1 DEF WorkOK
  <2>4. ver[InHand.art] <= ver[InHand.art]
    BY <2>1 DEF LedgerOK, Versions, Candidate
  <2>5. ASSUME NEW k \in DOMAIN items'
        PROVE  /\ items'[k].ver <= ver'[items'[k].art]
               /\ items'[k].ver = ver'[items'[k].art] => items'[k].content = content'[items'[k].art]
    BY <2>1, <2>2, <2>3, <2>4 DEF Remembers
  <2>6. QED
    BY <2>5 DEF Remembers
<1>7. ASSUME NEW a \in Artifacts, OtherCommits(a) PROVE Remembers'
  <2>1. /\ items' = items /\ ver' = [ver EXCEPT ![a] = @ + 1]
        /\ \A b \in Artifacts \ {a} : content'[b] = content[b]
    BY <1>7 DEF OtherCommits, work, LedgerOK
  <2>2. ASSUME NEW k \in DOMAIN items
        PROVE  /\ items[k].ver <= ver'[items[k].art]
               /\ items[k].ver = ver'[items[k].art] => items[k].content = content'[items[k].art]
    <3>1. items[k] \in Candidate
      BY DEF WorkOK
    <3>2. items[k].ver \in Int /\ ver[items[k].art] \in Int /\ items[k].art \in Artifacts
      BY <3>1 DEF Candidate, LedgerOK, Versions
    <3>3. QED
      BY <2>1, <3>2 DEF Remembers, LedgerOK
  <2>3. QED
    BY <2>1, <2>2 DEF Remembers
<1>8. ASSUME Reject \/ GiveUp PROVE Remembers'
  BY <1>4, <1>8 DEF Reject, GiveUp, Decided, CommitBelowBound, ledger
<1>9. ASSUME MeasureRaises \/ FinishRaises \/ StepReturns \/ \E a \in Artifacts : PrepareRaises(a)
      PROVE  Remembers'
  BY <1>2, <1>9 DEF MeasureRaises, FinishRaises, DecideRaises, CommitRaises, LeavesDecision,
                    PromoteRaises, PrepareRaises, StepReturns, Unwinds
<1>10. ASSUME NEW skip, BeginStep(skip) PROVE Remembers'
  BY <1>2, <1>10 DEF BeginStep
<1>11. ASSUME Prepared \/ Measure \/ Accept \/ AllDecided \/ Observe PROVE Remembers'
  BY <1>1, <1>11 DEF Prepared, Measure, Accept, AllDecided, Observe, ledger
<1>12. ASSUME NEW a \in Artifacts, Promote(a) PROVE Remembers'
  BY <1>1, <1>12 DEF Promote
<1>13. ASSUME NEW c \in Cards, Ingest(c) PROVE Remembers'
  BY <1>1, <1>13 DEF Ingest, ledger, work
<1>14. CASE UNCHANGED aggVars
  BY <1>1, <1>14 DEF aggVars, ledger, work
<1>15. QED
  BY <1>3, <1>5, <1>6, <1>7, <1>8, <1>9, <1>10, <1>11, <1>12, <1>13, <1>14
  DEF AggNext, Step, Finishing, FinishRaises

LEMMA RemembersAlways == AggSpec => []Remembers
<1>1. AggInit => Remembers
  BY DEF AggInit, Remembers
<1>2. QED
  BY <1>1, RemembersKept, TypedAlways, PTL DEF AggSpec

\* A commit keeps every diff dev held, whoever commits in between and however often it is rebased.
THEOREM NoDiffOverwritten == AggSpec => NothingOverwritten
<1> DEFINE A == \A a \in Artifacts : content[a] \subseteq content'[a]
<1>1. Typed /\ Remembers /\ [AggNext]_aggVars => [A]_content
  <2> SUFFICES ASSUME Typed, Remembers, AggNext PROVE content' = content \/ A
    BY DEF aggVars, ledger
  <2> USE DEF Typed
  <2>1. CASE Land
    <3>1. /\ InHand \in Candidate /\ InHand = items[1] /\ 1 \in DOMAIN items
          /\ InHand.ver = ver[InHand.art]
      BY <2>1, HeadAndTail DEF Land, CommitBelowBound, CasHolds
    <3>2. content[InHand.art] \subseteq Candidates(InHand)
      BY <3>1 DEF Remembers, Candidates
    <3>3. content' = [content EXCEPT ![InHand.art] = Candidates(InHand)]
      BY <2>1 DEF Land
    <3>4. QED
      BY <3>1, <3>2, <3>3 DEF LedgerOK
  <2>2. ASSUME NEW a \in Artifacts, OtherCommits(a) PROVE A
    BY <2>2 DEF OtherCommits, LedgerOK
  <2>3. content' = content \/ Land \/ \E a \in Artifacts : OtherCommits(a)
    BY DEF AggNext, Step, Finishing, FinishRaises, BeginStep, Prepare, PrepareRaises, Prepared,
           Measure, MeasureRaises, StepReturns, Reject, Accept, Commit, DecideRaises, CommitRaises,
           Rebase, GiveUp, AllDecided, Observe, Promote, PromoteRaises, Ingest, ledger
  <2>4. QED
    BY <2>1, <2>2, <2>3
<1>2. QED
  BY <1>1, TypedAlways, RemembersAlways, PTL DEF AggSpec, NothingOverwritten
-----------------------------------------------------------------------------
(* A card is in one place, and decided once                                *)

InBuckets == \A a \in Artifacts : \A c \in buffer[a] : fate[c] = "open" /\ card[c].art = a

InCandidates == \A k \in DOMAIN items :
    /\ items[k].chosen \subseteq items[k].cards
    /\ \A c \in items[k].cards : fate[c] = "open" /\ \A a \in Artifacts : c \notin buffer[a]

InOneCandidate == \A k, l \in DOMAIN items : k # l => items[k].cards \cap items[l].cards = {}

\* The cards of the buckets and of the batch in hand are all undecided, and all different.
OnePlace == InBuckets /\ InCandidates /\ InOneCandidate

LEMMA SameCards ==
    ASSUME OnePlace, UNCHANGED <<buffer, card, fate>>, items' = items \/ items' = <<>>
    PROVE  OnePlace'
BY DEF OnePlace, InBuckets, InCandidates, InOneCandidate

\* The head of the batch is decided, whatever becomes of its cards.
LEMMA HeadDecided ==
    ASSUME Typed, OnePlace, items # <<>>, items' = Tail(items), UNCHANGED <<buffer, card>>,
           \A c \in Cards \ InHand.cards : fate'[c] = fate[c]
    PROVE  OnePlace'
<1> USE DEF Typed, OnePlace
<1>1. /\ InHand = items[1] /\ 1 \in DOMAIN items
      /\ \A k \in DOMAIN items' : k + 1 \in DOMAIN items /\ items'[k] = items[k + 1] /\ k + 1 # 1
      /\ DOMAIN items' \subseteq Int
  BY HeadAndTail
<1>2. ASSUME NEW a \in Artifacts, NEW c \in buffer[a] PROVE fate'[c] = fate[c]
  BY <1>1 DEF InCandidates, BufferOK
<1>3. InBuckets'
  BY <1>2 DEF InBuckets
<1>4. ASSUME NEW k \in DOMAIN items'
      PROVE  /\ items'[k].chosen \subseteq items'[k].cards
             /\ \A c \in items'[k].cards : fate'[c] = "open" /\ \A a \in Artifacts : c \notin buffer[a]
  <2>1. k + 1 \in DOMAIN items /\ items'[k] = items[k + 1] /\ k + 1 # 1
    BY <1>1
  <2>2. items[k + 1].cards \subseteq Cards /\ items[k + 1].cards \cap items[1].cards = {}
    <3>1. items[k + 1] \in Candidate
      BY <2>1 DEF WorkOK
    <3>2. items[k + 1].cards \cap items[1].cards = {}
      BY <1>1, <2>1 DEF InOneCandidate
    <3>3. QED
      BY <3>1, <3>2 DEF Candidate
  <2>3. QED
    BY <1>1, <2>1, <2>2 DEF InCandidates
<1>5. InCandidates'
  BY <1>4 DEF InCandidates
<1>6. InOneCandidate'
  <2>1. ASSUME NEW k \in DOMAIN items', NEW l \in DOMAIN items', k # l
        PROVE  items'[k].cards \cap items'[l].cards = {}
    <3>1. k \in Int /\ l \in Int /\ k + 1 # l + 1
      BY <1>1, <2>1
    <3>2. QED
      BY <1>1, <3>1 DEF InOneCandidate
  <2>2. QED
    BY <2>1 DEF InOneCandidate
<1>7. QED
  BY <1>3, <1>5, <1>6

\* What preparing an artifact does to its cards: some are settled, some may be put forward.
LEMMA PrepareCards ==
    ASSUME Typed, NEW a \in Artifacts, Prepare(a)
    PROVE  \E settled \in SUBSET buffer[a] :
             /\ fate' = Fated(settled, "settled")
             /\ \/ items' = items
                \/ \E survivors \in SUBSET (buffer[a] \ settled) : \E chosen \in SUBSET survivors :
                      PutForward(a, survivors, chosen)
<1>1. PICK screened \in SUBSET buffer[a] :
        \E unproved \in SUBSET Acting(buffer[a] \ screened, "rebase") :
          LET stale     == Acting(buffer[a] \ screened, "discard") \union unproved
              settled   == screened \union stale
              survivors == buffer[a] \ settled
          IN \/ survivors = {} /\ fate' = Fated(settled, "settled") /\ Filed(a)
             \/ survivors # {} /\ fate' = Fated(buffer[a], "settled") /\ Filed(a)
             \/ /\ fate' = Fated(settled, "settled")
                /\ \E chosen \in Selections(survivors) : PutForward(a, survivors, chosen)
  BY DEF Prepare
<1>2. PICK unproved \in SUBSET Acting(buffer[a] \ screened, "rebase") :
        LET stale     == Acting(buffer[a] \ screened, "discard") \union unproved
            settled   == screened \union stale
            survivors == buffer[a] \ settled
        IN \/ survivors = {} /\ fate' = Fated(settled, "settled") /\ Filed(a)
           \/ survivors # {} /\ fate' = Fated(buffer[a], "settled") /\ Filed(a)
           \/ /\ fate' = Fated(settled, "settled")
              /\ \E chosen \in Selections(survivors) : PutForward(a, survivors, chosen)
  BY <1>1
<1> DEFINE settled == screened \union Acting(buffer[a] \ screened, "discard") \union unproved
<1>3. settled \in SUBSET buffer[a]
  BY DEF Acting
<1>4. \/ fate' = Fated(settled, "settled") /\ Filed(a)
      \/ fate' = Fated(buffer[a], "settled") /\ Filed(a)
      \/ /\ fate' = Fated(settled, "settled")
         /\ \E chosen \in Selections(buffer[a] \ settled) :
               PutForward(a, buffer[a] \ settled, chosen)
  <2>1. screened \union (Acting(buffer[a] \ screened, "discard") \union unproved) = settled
    OBVIOUS
  <2>2. QED
    BY <1>2, <2>1
<1>5. QED
  BY <1>3, <1>4 DEF Filed, Selections

LEMMA PrepareKeepsPlaces ==
    ASSUME Typed, OnePlace, NEW a \in Artifacts, Prepare(a)
    PROVE  OnePlace'
<1> USE DEF Typed, OnePlace
<1>1. PICK settled \in SUBSET buffer[a] :
        /\ fate' = Fated(settled, "settled")
        /\ \/ items' = items
           \/ \E survivors \in SUBSET (buffer[a] \ settled) : \E chosen \in SUBSET survivors :
                 PutForward(a, survivors, chosen)
  BY PrepareCards
<1>2. /\ buffer'[a] = {} /\ card' = card
      /\ \A b \in Artifacts \ {a} : buffer'[b] = buffer[b]
  BY DEF Prepare, Drained, BufferOK
<1>3. buffer[a] \subseteq Cards
  BY DEF BufferOK
<1>4. \A c \in Cards \ buffer[a] : fate'[c] = fate[c]
  BY <1>1 DEF Fated
<1>5. ASSUME NEW b \in Artifacts \ {a}, NEW c \in buffer[b]
      PROVE  c \in Cards \ buffer[a]
  BY DEF InBuckets, BufferOK
<1>6. InBuckets'
  BY <1>2, <1>4, <1>5 DEF InBuckets
<1>7. ASSUME NEW k \in DOMAIN items
      PROVE  /\ items[k].chosen \subseteq items[k].cards
             /\ \A c \in items[k].cards : /\ fate'[c] = "open"
                                          /\ \A b \in Artifacts : c \notin buffer'[b]
             /\ items[k].cards \cap buffer[a] = {}
  <2>1. items[k].cards \subseteq Cards /\ items[k].cards \cap buffer[a] = {}
    <3>1. items[k] \in Candidate
      BY DEF WorkOK
    <3>2. items[k].cards \cap buffer[a] = {}
      BY DEF InCandidates
    <3>3. QED
      BY <3>1, <3>2 DEF Candidate
  <2>2. QED
    BY <1>2, <1>4, <2>1 DEF InCandidates
<1>8. CASE items' = items
  BY <1>6, <1>7, <1>8 DEF InCandidates, InOneCandidate
<1>9. ASSUME NEW survivors \in SUBSET (buffer[a] \ settled), NEW chosen \in SUBSET survivors,
             PutForward(a, survivors, chosen)
      PROVE  OnePlace'
  <2>1. /\ DOMAIN items' = DOMAIN items \union {Len(items) + 1}
        /\ Len(items) + 1 \notin DOMAIN items
        /\ \A k \in DOMAIN items : items'[k] = items[k]
        /\ items'[Len(items) + 1].cards = survivors
        /\ items'[Len(items) + 1].chosen = chosen
    BY <1>9 DEF PutForward, WorkOK
  <2>2. ASSUME NEW c \in survivors
        PROVE  fate'[c] = "open" /\ \A b \in Artifacts : c \notin buffer'[b]
    BY <1>1, <1>2, <1>3, <1>5 DEF Fated, InBuckets
  <2>3. InCandidates'
    BY <1>7, <2>1, <2>2 DEF InCandidates
  <2>4. InOneCandidate'
    BY <1>7, <2>1 DEF InOneCandidate
  <2>5. QED
    BY <1>6, <2>3, <2>4
<1>10. QED
  BY <1>1, <1>8, <1>9

LEMMA RebaseKeepsPlaces ==
    ASSUME Typed, OnePlace, Rebase
    PROVE  OnePlace'
<1> USE DEF Typed, OnePlace
<1>1. /\ items # <<>> /\ InHand \in Candidate /\ InHand = items[1]
      /\ items' = <<Rebased(InHand)>> \o Tail(items)
      /\ UNCHANGED <<buffer, card, fate>>
  BY HeadAndTail DEF Rebase, CommitBelowBound, bufvars
<1>2. Rebased(InHand).cards = InHand.cards /\ Rebased(InHand).chosen = InHand.chosen
  BY <1>1 DEF Rebased, Candidate
<1>3. /\ items'[1] = Rebased(InHand) /\ DOMAIN items' = DOMAIN items
      /\ \A k \in DOMAIN items \ {1} : items'[k] = items[k]
  BY <1>1 DEF WorkOK
<1>4. \A k \in DOMAIN items : items'[k].cards = items[k].cards /\ items'[k].chosen = items[k].chosen
  BY <1>1, <1>2, <1>3
<1>5. InBuckets'
  BY <1>1 DEF InBuckets
<1>6. InCandidates'
  BY <1>1, <1>3, <1>4 DEF InCandidates
<1>7. InOneCandidate'
  BY <1>3, <1>4 DEF InOneCandidate
<1>8. QED
  BY <1>5, <1>6, <1>7

LEMMA IngestKeepsPlaces ==
    ASSUME Typed, OnePlace, NEW c \in Cards, Ingest(c)
    PROVE  OnePlace'
<1> USE DEF Typed, OnePlace
<1>1. PICK a \in Artifacts, base \in Versions :
        /\ card' = [card EXCEPT ![c] = [art |-> a, base |-> base]]
        /\ buffer' = [buffer EXCEPT ![a] = @ \union {c}]
  BY DEF Ingest
<1>2. fate[c] = "unused" /\ fate' = [fate EXCEPT ![c] = "open"] /\ items' = items
  BY DEF Ingest, work
<1>3. \A b \in Artifacts : c \notin buffer[b]
  BY <1>2 DEF InBuckets
<1>4. \A k \in DOMAIN items : c \notin items[k].cards
  BY <1>2 DEF InCandidates
<1>5. ASSUME NEW b \in Artifacts, NEW d \in buffer'[b]
      PROVE  fate'[d] = "open" /\ card'[d].art = b
  <2>1. CASE d = c
    <3>1. b = a
      BY <1>1, <1>3, <2>1 DEF BufferOK
    <3>2. QED
      BY <1>1, <1>2, <2>1, <3>1 DEF BufferOK, HistoryOK
  <2>2. CASE d # c
    <3>1. d \in buffer[b] /\ d \in Cards
      BY <1>1, <2>2 DEF BufferOK
    <3>2. QED
      BY <1>1, <1>2, <2>2, <3>1 DEF InBuckets, BufferOK, HistoryOK
  <2>3. QED
    BY <2>1, <2>2
<1>6. ASSUME NEW k \in DOMAIN items, NEW d \in items[k].cards
      PROVE  fate'[d] = "open" /\ \A b \in Artifacts : d \notin buffer'[b]
  <2>1. items[k] \in Candidate
    BY DEF WorkOK
  <2>2. d \in Cards /\ d # c
    BY <1>4, <2>1 DEF Candidate
  <2>3. QED
    BY <1>1, <1>2, <2>2 DEF InCandidates, BufferOK, HistoryOK
<1>7. QED
  BY <1>2, <1>5, <1>6 DEF InBuckets, InCandidates, InOneCandidate

\* The steps that decide the head of the batch; one of them loses the rest.
LEMMA DecidesTheHead ==
    ASSUME Typed, OnePlace, Reject \/ GiveUp \/ Land
    PROVE  /\ items # <<>> /\ UNCHANGED <<buffer, card>>
           /\ \A c \in Cards \ InHand.cards : fate'[c] = fate[c]
           /\ \A c \in InHand.cards : fate[c] = "open"
<1> USE DEF Typed, OnePlace
<1>1. items # <<>> /\ UNCHANGED <<buffer, card>>
  BY DEF Reject, GiveUp, Land, Decided, CommitBelowBound, bufvars
<1>2. InHand = items[1] /\ 1 \in DOMAIN items
  BY <1>1, HeadAndTail
<1>3. InHand.chosen \subseteq InHand.cards /\ \A c \in InHand.cards : fate[c] = "open"
  BY <1>2 DEF InCandidates
<1>4. CASE Reject \/ GiveUp
  <2>1. \E f : fate' = Fated(InHand.cards, f)
    BY <1>4 DEF Reject, GiveUp
  <2>2. QED
    BY <1>1, <1>3, <2>1 DEF Fated
<1>5. CASE Land
  <2>1. ASSUME NEW c \in Cards \ InHand.cards PROVE fate'[c] = fate[c]
    <3>1. c \notin InHand.chosen /\ c \notin InHand.cards \ InHand.chosen
      BY <1>3
    <3>2. QED
      BY <1>5, <3>1, Zenon DEF Land
  <2>2. QED
    BY <1>1, <1>3, <2>1
<1>6. QED
  BY <1>4, <1>5

\* A raising step leaves no candidate; what it settled was in the bucket it drained, or in hand.
LEMMA BucketLost ==
    ASSUME Typed, OnePlace, NEW a \in Artifacts, PrepareRaises(a)
    PROVE  OnePlace'
<1> USE DEF Typed, OnePlace
<1>1. PICK settled \in SUBSET buffer[a] : fate' = Fated(settled, "settled")
  BY DEF PrepareRaises
<1>2. /\ items' = <<>> /\ card' = card /\ buffer'[a] = {}
      /\ \A b \in Artifacts \ {a} : buffer'[b] = buffer[b]
  BY DEF PrepareRaises, Unwinds, Drained, BufferOK
<1>3. ASSUME NEW b \in Artifacts, NEW c \in buffer'[b] PROVE fate'[c] = "open" /\ card'[c].art = b
  <2>1. b # a /\ c \in buffer[b] /\ c \in Cards
    BY <1>2 DEF BufferOK
  <2>2. c \notin buffer[a]
    BY <2>1 DEF InBuckets
  <2>3. QED
    BY <1>1, <1>2, <2>1, <2>2 DEF InBuckets, Fated
<1>4. QED
  BY <1>2, <1>3 DEF InBuckets, InCandidates, InOneCandidate

LEMMA CommitRaisesKeepsPlaces ==
    ASSUME Typed, OnePlace, CommitRaises
    PROVE  OnePlace'
<1> USE DEF Typed, OnePlace
<1>1. /\ items # <<>> /\ UNCHANGED <<buffer, card>> /\ items' = <<>>
      /\ \A c \in Cards \ InHand.cards : fate'[c] = fate[c]
  BY DecidesTheHead DEF CommitRaises, LeavesDecision, Unwinds
<1>2. \A b \in Artifacts : \A c \in buffer[b] : c \in Cards /\ c \notin InHand.cards
  BY <1>1, HeadAndTail DEF InCandidates, BufferOK
<1>3. QED
  BY <1>1, <1>2 DEF InBuckets, InCandidates, InOneCandidate

LEMMA OnePlaceKept ==
    ASSUME Typed, OnePlace, [AggNext]_aggVars
    PROVE  OnePlace'
<1>1. ASSUME Reject \/ GiveUp \/ Commit PROVE OnePlace'
  <2>1. items' = Tail(items)
    BY <1>1 DEF Reject, GiveUp, Commit, Decided
  <2>2. QED
    BY <1>1, <2>1, DecidesTheHead, HeadDecided DEF Commit
<1>2. ASSUME MeasureRaises \/ DecideRaises \/ PromoteRaises \/ StepReturns PROVE OnePlace'
  BY <1>2, SameCards DEF MeasureRaises, DecideRaises, LeavesDecision, PromoteRaises, StepReturns,
                         Unwinds, bufvars
<1>3. ASSUME NEW skip, BeginStep(skip) PROVE OnePlace'
  BY <1>3, SameCards DEF BeginStep
<1>4. ASSUME Prepared \/ Measure \/ Accept \/ AllDecided \/ Observe PROVE OnePlace'
  BY <1>4, SameCards DEF Prepared, Measure, Accept, AllDecided, Observe, bufvars
<1>5. ASSUME NEW a \in Artifacts, Promote(a) \/ OtherCommits(a) PROVE OnePlace'
  BY <1>5, SameCards DEF Promote, OtherCommits, bufvars, work
<1>6. CASE UNCHANGED aggVars
  BY <1>6, SameCards DEF aggVars, bufvars, work
<1>7. ASSUME NEW a \in Artifacts, PrepareRaises(a) PROVE OnePlace'
  BY <1>7, BucketLost
<1>8. CASE CommitRaises
  BY <1>8, CommitRaisesKeepsPlaces
<1>9. QED
  BY <1>1, <1>2, <1>3, <1>4, <1>5, <1>6, <1>7, <1>8, PrepareKeepsPlaces, RebaseKeepsPlaces,
     IngestKeepsPlaces
  DEF AggNext, Step, Finishing, FinishRaises

LEMMA OnePlaceAlways == AggSpec => []OnePlace
<1>1. AggInit => OnePlace
  BY DEF AggInit, OnePlace, InBuckets, InCandidates, InOneCandidate
<1>2. QED
  BY <1>1, OnePlaceKept, TypedAlways, PTL DEF AggSpec

\* Whatever raises, and however cards, commits and rebases interleave, a card that was settled,
\* rejected or committed keeps that outcome.
THEOREM CardsDecidedOnce == AggSpec => DecidedOnce
<1> DEFINE A == \A c \in Cards : fate[c] \notin {"unused", "open"} => fate'[c] = fate[c]
<1>1. Typed /\ OnePlace /\ [AggNext]_aggVars => [A]_fate
  <2> SUFFICES ASSUME Typed, OnePlace, AggNext PROVE fate' = fate \/ A
    BY DEF aggVars
  <2> USE DEF Typed
  <2>1. CASE Reject \/ GiveUp \/ Land
    BY <2>1, DecidesTheHead
  <2>2. ASSUME NEW a \in Artifacts, Prepare(a) \/ PrepareRaises(a) PROVE A
    <3>1. PICK settled \in SUBSET buffer[a] : fate' = Fated(settled, "settled")
      BY <2>2, PrepareCards DEF PrepareRaises
    <3>2. \A c \in settled : fate[c] = "open"
      BY DEF OnePlace, InBuckets
    <3>3. QED
      BY <3>1, <3>2 DEF Fated
  <2>3. ASSUME NEW c \in Cards, Ingest(c) PROVE A
    BY <2>3 DEF Ingest, HistoryOK
  <2>4. \/ fate' = fate \/ Reject \/ GiveUp \/ Land
        \/ \E a \in Artifacts : Prepare(a) \/ PrepareRaises(a)
        \/ \E c \in Cards : Ingest(c)
    BY DEF AggNext, Step, Finishing, FinishRaises, BeginStep, Prepared, Measure, MeasureRaises,
           StepReturns, Accept, Commit, DecideRaises, CommitRaises, Rebase, AllDecided, Observe,
           Promote, PromoteRaises, OtherCommits
  <2>5. QED
    BY <2>1, <2>2, <2>3, <2>4
<1>2. QED
  BY <1>1, TypedAlways, OnePlaceAlways, PTL DEF AggSpec, DecidedOnce
-----------------------------------------------------------------------------
(* What reaches stable has survived                                        *)

\* A commit of this step, of which the promotion policy has yet to hear.
Unheard(a) == phase \in {"decide", "commit", "observe"} /\ CommitOf(a) \in reports

\* The policy never counts more rounds than have finished since the commit, unless it has yet to
\* hear of it, or never will.
SurvivalIsSince == \A a \in DOMAIN survival :
    since[a] = None \/ survival[a] <= since[a] \/ Unheard(a)

ConfirmedSurvived ==
    phase = "promote" => \A a \in todo : since[a] = None \/ since[a] >= PromoteAfter

Clocks == SurvivalIsSince /\ ConfirmedSurvived

\* The clocks stand still, and no report of a commit is lost.
LEMMA ClocksStand ==
    ASSUME Clocks, UNCHANGED <<survival, since>>, phase' # "promote",
           \A a \in Artifacts : Unheard(a) => Unheard(a)', DOMAIN survival \subseteq Artifacts
    PROVE  Clocks'
BY DEF Clocks, SurvivalIsSince, ConfirmedSurvived

LEMMA ObserveClocks ==
    ASSUME Typed, Clocks, Observe
    PROVE  Clocks'
<1> USE DEF Typed
<1> DEFINE tracked == DOMAIN survival \union {r.art : r \in reports}
<1>1. /\ survival' = [a \in tracked |-> IF Aged(a) >= PromoteAfter THEN 0 ELSE Aged(a)]
      /\ todo' = {a \in tracked : Aged(a) >= PromoteAfter}
      /\ since' = [a \in Artifacts |->
                     IF since[a] = None THEN None ELSE Min({since[a] + 1, PromoteAfter})]
  BY DEF Observe
<1>2. tracked \subseteq Artifacts
  BY DEF PolicyOK, WorkOK, Report
<1>3. ASSUME NEW a \in tracked, since[a] # None
      PROVE  /\ Aged(a) \in Nat /\ since'[a] \in 0..PromoteAfter
             /\ Aged(a) < PromoteAfter => Aged(a) <= since'[a]
             /\ Aged(a) >= PromoteAfter => since'[a] >= PromoteAfter
  <2>1. PromoteAfter \in Nat /\ PromoteAfter > 0 /\ a \in Artifacts
    BY <1>2, AggregatorAssumption
  <2>2. since[a] \in 0..PromoteAfter
    BY <1>3, <2>1 DEF HistoryOK
  <2>3. since'[a] = IF since[a] + 1 <= PromoteAfter THEN since[a] + 1 ELSE PromoteAfter
    <3>1. Min({since[a] + 1, PromoteAfter})
            = IF since[a] + 1 <= PromoteAfter THEN since[a] + 1 ELSE PromoteAfter
      BY <2>1, <2>2, MinOfTwo
    <3>2. QED
      BY <1>1, <1>3, <2>1, <3>1
  <2>4. CASE Resets(a)
    <3>1. Aged(a) = 0
      BY <2>4 DEF Aged
    <3>2. QED
      BY <2>1, <2>2, <2>3, <3>1
  <2>5. CASE ~Resets(a)
    <3> DEFINE before == IF a \in DOMAIN survival THEN survival[a] ELSE 0
    <3>1. Aged(a) = before + 1
      BY <2>5 DEF Aged
    <3>2. CommitOf(a) \notin reports
      BY <2>5 DEF Resets, CommitOf
    <3>3. before \in Nat /\ before <= since[a]
      BY <1>3, <2>1, <2>2, <3>2 DEF PolicyOK, Clocks, SurvivalIsSince, Unheard
    <3> HIDE DEF before
    <3>4. QED
      BY <2>1, <2>2, <2>3, <3>1, <3>3
  <2>6. QED
    BY <2>4, <2>5
<1>4. \A a \in tracked : since[a] = None => since'[a] = None
  BY <1>1, <1>2
<1>5. ASSUME NEW a \in DOMAIN survival' PROVE since'[a] = None \/ survival'[a] <= since'[a]
  <2>1. a \in tracked /\ survival'[a] = IF Aged(a) >= PromoteAfter THEN 0 ELSE Aged(a)
    BY <1>1
  <2>2. CASE since[a] = None
    BY <1>4, <2>1, <2>2
  <2>3. CASE since[a] # None
    <3>1. /\ Aged(a) \in Nat /\ since'[a] \in 0..PromoteAfter
          /\ Aged(a) < PromoteAfter => Aged(a) <= since'[a]
      BY <1>3, <2>1, <2>3
    <3>2. PromoteAfter \in Nat
      BY AggregatorAssumption
    <3>3. QED
      BY <2>1, <3>1, <3>2
  <2>4. QED
    BY <2>2, <2>3
<1>6. \A a \in todo' : since'[a] = None \/ since'[a] >= PromoteAfter
  BY <1>1, <1>3, <1>4
<1>7. QED
  BY <1>5, <1>6 DEF Clocks, SurvivalIsSince, ConfirmedSurvived

LEMMA ClocksKept ==
    ASSUME Typed, Clocks, [AggNext]_aggVars
    PROVE  Clocks'
<1> USE DEF Typed
<1>0. DOMAIN survival \subseteq Artifacts
  BY DEF PolicyOK
<1>1. ASSUME UNCHANGED <<survival, since, phase, reports, todo>> PROVE Clocks'
  BY <1>1 DEF Clocks, SurvivalIsSince, ConfirmedSurvived, Unheard
<1>2. ASSUME NEW skip, BeginStep(skip) PROVE Clocks'
  BY <1>0, <1>2, ClocksStand DEF BeginStep, policy, Unheard
<1>3. ASSUME NEW a \in Artifacts, Prepare(a) \/ PrepareRaises(a) PROVE Clocks'
  BY <1>0, <1>3, ClocksStand DEF Prepare, PrepareRaises, Unwinds, Unheard
<1>4. CASE Prepared \/ Measure \/ MeasureRaises \/ PromoteRaises \/ StepReturns
  BY <1>0, <1>4, ClocksStand
  DEF Prepared, Measure, MeasureRaises, PromoteRaises, StepReturns, Unwinds, policy, Unheard
<1>5. CASE Accept \/ Rebase \/ AllDecided
  BY <1>0, <1>5, ClocksStand DEF Accept, Rebase, AllDecided, policy, Unheard
<1>6. CASE Reject \/ GiveUp
  BY <1>0, <1>6, ClocksStand DEF Reject, GiveUp, Decided, policy, Unheard
<1>7. CASE Commit
  <2>1. /\ survival' = survival /\ since' = [since EXCEPT ![InHand.art] = 0] /\ phase' = "decide"
        /\ reports' = reports \union {CommitOf(InHand.art)}
    BY <1>7 DEF Commit, Land, Decided, policy, CommitOf
  <2>2. \A a \in Artifacts : Unheard(a) => Unheard(a)'
    BY <2>1 DEF Unheard
  <2>3. \A a \in Artifacts : a = InHand.art => Unheard(a)'
    BY <2>1 DEF Unheard
  <2>4. \A a \in Artifacts : a # InHand.art => since'[a] = since[a]
    BY <2>1 DEF HistoryOK
  <2>5. QED
    BY <1>0, <2>1, <2>2, <2>3, <2>4 DEF Clocks, SurvivalIsSince, ConfirmedSurvived
<1>8. CASE DecideRaises \/ CommitRaises
  <2>1. PICK commits : /\ Reported \subseteq commits
                       /\ survival' = survival /\ phase' = "idle"
                       /\ since' = [a \in Artifacts |-> IF a \in commits THEN None ELSE since[a]]
    BY <1>8 DEF DecideRaises, CommitRaises, Land, LeavesDecision, Unwinds, policy
  <2>2. \A a \in Artifacts : Unheard(a) => a \in commits
    BY <2>1 DEF Unheard, Reported
  <2>3. QED
    BY <1>0, <2>1, <2>2 DEF Clocks, SurvivalIsSince, ConfirmedSurvived
<1>9. CASE Observe
  BY <1>9, ObserveClocks
<1>10. ASSUME NEW a \in Artifacts, Promote(a) PROVE Clocks'
  BY <1>10 DEF Promote, Clocks, SurvivalIsSince, ConfirmedSurvived, Unheard
<1>11. ASSUME NEW c \in Cards, Ingest(c) PROVE Clocks'
  BY <1>1, <1>11 DEF Ingest, policy, work
<1>12. ASSUME NEW a \in Artifacts, OtherCommits(a) PROVE Clocks'
  BY <1>1, <1>12 DEF OtherCommits, policy, work
<1>13. CASE UNCHANGED aggVars
  BY <1>1, <1>13 DEF aggVars, policy, work
<1>14. QED
  BY <1>2, <1>3, <1>4, <1>5, <1>6, <1>7, <1>8, <1>9, <1>10, <1>11, <1>12, <1>13
  DEF AggNext, Step, Finishing, FinishRaises

LEMMA ClocksAlways == AggSpec => []Clocks
<1>1. AggInit => Clocks
  BY DEF AggInit, Clocks, SurvivalIsSince, ConfirmedSurvived
<1>2. QED
  BY <1>1, ClocksKept, TypedAlways, PTL DEF AggSpec

\* Nothing reaches stable within PromoteAfter rounds of a commit of this process, however commits,
\* rejections, other processes and raising measurements interleave; a decision that raises excuses
\* only the artifacts whose commit it left unreported.
THEOREM SurvivorsPromoted == AggSpec => OnlySurvivorsPromoted
<1> DEFINE A == \A a \in Artifacts :
                  stable'[a] # stable[a] => since[a] = None \/ since[a] >= PromoteAfter
<1>1. Typed /\ Clocks /\ [AggNext]_aggVars => [A]_stable
  <2> SUFFICES ASSUME Typed, Clocks, AggNext PROVE stable' = stable \/ A
    BY DEF aggVars, ledger
  <2>1. ASSUME NEW a \in Artifacts, Promote(a) PROVE A
    <3>1. phase = "promote" /\ a \in todo
      BY <2>1 DEF Promote
    <3>2. \A b \in Artifacts : stable'[b] # stable[b] => b = a
      BY <2>1 DEF Promote, CopyToStable, Typed, LedgerOK
    <3>3. QED
      BY <3>1, <3>2 DEF Clocks, ConfirmedSurvived
  <2>2. stable' = stable \/ \E a \in Artifacts : Promote(a)
    BY DEF AggNext, Step, Finishing, FinishRaises, BeginStep, Prepare, PrepareRaises, Prepared,
           Measure, MeasureRaises, StepReturns, Reject, Accept, DecideRaises, Commit, CommitRaises,
           Land, Rebase, GiveUp, AllDecided, Observe, PromoteRaises, Ingest, OtherCommits, ledger
  <2>3. QED
    BY <2>1, <2>2
<1>2. QED
  BY <1>1, TypedAlways, ClocksAlways, PTL DEF AggSpec, OnlySurvivorsPromoted
=============================================================================
