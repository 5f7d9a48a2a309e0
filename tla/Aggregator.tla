----------------------------- MODULE Aggregator -----------------------------
(***************************************************************************)
(* The merger's engine of agentdescent/aggregator.py: evidence cards wait  *)
(* in a bucket per artifact, a step drains the buckets that are ready,     *)
(* filters stale cards, puts one candidate per artifact forward, measures  *)
(* it, decides it, commits it with a compare-and-swap on dev, and promotes *)
(* what survived PromoteAfter rounds (agentdescent/defaults.py) to stable. *)
(*                                                                         *)
(* Data: a diff is named by the card that carries it, an artifact's state  *)
(* is the set of diffs applied to it, and what depends on scores (the size *)
(* and critic screens, the re-verification, the tournament, acceptance,    *)
(* the oracle) is a choice.  One branch of heads, dev.                     *)
(***************************************************************************)
EXTENDS Integers, FiniteSets, Sequences, Functions, SequencesExt, FiniteSetsExt

CONSTANTS
    Artifacts,
    Cards,          \* evidence cards, and the diffs they carry
    None,
    Policy,         \* "full", "guarded" or "reflective" (staleness.py)
    Alpha,          \* alpha_head / alpha_tail
    BatchTrigger,
    MaxWait,        \* max_wait_rounds
    PromoteAfter,   \* promote_after_k
    CasAttempts,
    MaxVersion,     \* bound: nothing is accepted at this version, and no other process commits
    Faults,         \* subset of {"prepare", "measure", "decide", "promote"}: what may raise
    Others          \* the artifacts that other processes commit to, in the same ledger

ASSUME AggregatorAssumption ==
    /\ Policy \in {"full", "guarded", "reflective"}
    /\ {Alpha, MaxVersion} \subseteq Nat
    /\ {BatchTrigger, MaxWait, PromoteAfter, CasAttempts} \subseteq Nat \ {0}
    /\ Faults \subseteq {"prepare", "measure", "decide", "promote"}
    /\ Others \subseteq Artifacts

VARIABLES
    ver,            \* dev: artifact -> version
    content,        \* dev: artifact -> the diffs applied
    stable,         \* stable: artifact -> the version of dev copied there
    card,           \* card -> [art, base] once proposed
    buffer,         \* EvidenceBuffer._buckets
    waited,         \* EvidenceBuffer._waited, counted up to MaxWait
    inFlight,       \* Aggregator._in_flight
    seen,           \* Aggregator._seen
    survival,       \* DefaultPromotion._survival
    promotedAt,     \* Aggregator._promoted_at
    phase,          \* where the merger is inside one step
    todo,           \* artifacts still to prepare, or to promote
    items,          \* candidates of the batch in hand
    reports,        \* reports of the batch in hand
    fate,           \* history: what became of each card
    since           \* history: rounds finished since this process last committed, None once the
                    \* report of a commit is lost

ledger  == <<ver, content, stable>>
bufvars == <<buffer, waited, card>>
policy  == <<seen, survival, promotedAt>>
work    == <<phase, todo, items, reports>>
aggVars == <<ledger, bufvars, inFlight, policy, work, fate, since>>

Versions == 0..(MaxVersion + 1)
Phases == {"idle", "prepare", "prepared", "decide", "commit", "observe", "promote"}
Fates  == {"unused", "open", "discarded", "settled", "rejected", "committed"}
Report == [art : Artifacts, outcome : {"committed", "oracle", "other"}]
Candidate == [art : Artifacts, ver : Versions, content : SUBSET Cards, chosen : SUBSET Cards,
              cards : SUBSET Cards, tries : Nat]

(***************************************************************************)
(* The evidence buffer                                                     *)
(***************************************************************************)
Ingested(cs) == [a \in Artifacts |-> buffer[a] \union {c \in cs : card[c].art = a}]

Ready == {a \in Artifacts : \/ Cardinality(buffer[a]) >= BatchTrigger
                            \/ buffer[a] # {} /\ waited'[a] >= MaxWait}

Tick == waited' = [a \in Artifacts |->
                      IF buffer[a] = {} THEN 0 ELSE Min({waited[a] + 1, MaxWait})]

\* Bug: the bucket is read, not emptied.
Peeked(a) == buffer

Drained(a) == [buffer EXCEPT ![a] = {}]

Fated(cs, f) == [c \in Cards |-> IF c \in cs THEN f ELSE fate[c]]

(***************************************************************************)
(* Staleness (staleness.py, vv_staleness)                                  *)
(***************************************************************************)
Eta(c) == ver[card[c].art] - card[c].base

StaleAction(eta) ==
    IF eta = 0 \/ Policy = "full" THEN "accept"
    ELSE IF Policy = "guarded" /\ eta > Alpha THEN "discard" ELSE "rebase"

Acting(cs, action) == {c \in cs : StaleAction(Eta(c)) = action}

(***************************************************************************)
(* Phase 1: begin_step                                                     *)
(***************************************************************************)
BeginStep(skip) ==
    /\ phase = "idle"
    /\ phase' = "prepare"
    /\ Tick
    /\ todo' = Ready \ skip
    /\ items' = <<>>
    /\ reports' = {}
    /\ UNCHANGED <<ledger, buffer, card, inFlight, policy, fate, since>>

\* The tournament puts one survivor forward, or the fusion of several.
Selections(cs) == (SUBSET cs) \ {{}}

PutForward(a, survivors, chosen) ==
    /\ items' = Append(items, [art |-> a, ver |-> ver[a], content |-> content[a],
                               chosen |-> chosen, cards |-> survivors, tries |-> 0])
    /\ inFlight' = inFlight \union {a}
    /\ UNCHANGED reports

Filed(a) ==
    /\ reports' = reports \union {[art |-> a, outcome |-> "other"]}
    /\ UNCHANGED <<items, inFlight>>

\* Drain one ready artifact; screened: too large or refused by the critic; unproved: stale, and
\* no better than the head when re-verified.
Prepare(a) ==
    /\ phase = "prepare"
    /\ a \in todo
    /\ todo' = todo \ {a}
    /\ seen' = seen \union {a}
    /\ buffer' = Drained(a)
    /\ waited' = [waited EXCEPT ![a] = 0]
    /\ \E screened \in SUBSET buffer[a] :
       \E unproved \in SUBSET Acting(buffer[a] \ screened, "rebase") :
          LET stale     == Acting(buffer[a] \ screened, "discard") \union unproved
              settled   == screened \union stale
              survivors == buffer[a] \ settled
          IN \/ /\ survivors = {}
                /\ fate' = Fated(settled, "settled")
                /\ Filed(a)
             \/ /\ survivors # {}                       \* the choice breaks an invariant
                /\ fate' = Fated(buffer[a], "settled")
                /\ Filed(a)
             \/ /\ fate' = Fated(settled, "settled")
                /\ \E chosen \in Selections(survivors) : PutForward(a, survivors, chosen)
    /\ UNCHANGED <<ledger, card, survival, promotedAt, phase, since>>

\* step() is left, by a return or an exception: its locals are gone, drained cards among them.
Unwinds ==
    /\ phase' = "idle"
    /\ todo' = {}
    /\ items' = <<>>
    /\ reports' = {}

\* The snapshot, a screen, a re-verification or the tournament raises: some of the drained cards
\* were settled, the others are gone, and who was put forward before stays in flight.
PrepareRaises(a) ==
    /\ phase = "prepare"
    /\ "prepare" \in Faults
    /\ a \in todo
    /\ seen' = seen \union {a}
    /\ buffer' = Drained(a)
    /\ waited' = [waited EXCEPT ![a] = 0]
    /\ \E settled \in SUBSET buffer[a] : fate' = Fated(settled, "settled")
    /\ Unwinds
    /\ UNCHANGED <<ledger, card, inFlight, survival, promotedAt, since>>

Prepared ==
    /\ phase = "prepare"
    /\ todo = {}
    /\ phase' = "prepared"
    /\ UNCHANGED <<ledger, bufvars, inFlight, policy, todo, items, reports, fate, since>>

(***************************************************************************)
(* Phase 2: measure, on the calling thread                                 *)
(***************************************************************************)
Measure ==
    /\ phase = "prepared"
    /\ phase' = "decide"
    /\ UNCHANGED <<ledger, bufvars, inFlight, policy, todo, items, reports, fate, since>>

MeasureRaises ==
    /\ phase = "prepared"
    /\ "measure" \in Faults
    /\ items # <<>>
    /\ Unwinds
    /\ UNCHANGED <<ledger, bufvars, inFlight, policy, fate, since>>

(***************************************************************************)
(* Phase 3: finish_step                                                    *)
(***************************************************************************)
InHand == Head(items)

\* The end of _decide for the candidate in hand, and its `finally`.
Decided(outcome) ==
    /\ phase' = "decide"
    /\ items' = Tail(items)
    /\ reports' = reports \union {[art |-> InHand.art, outcome |-> outcome]}
    /\ inFlight' = inFlight \ {InHand.art}
    /\ UNCHANGED todo

Reject ==
    /\ phase = "decide"
    /\ items # <<>>
    /\ \E outcome \in {"oracle", "other"} : Decided(outcome)
    /\ fate' = Fated(InHand.cards, "rejected")
    /\ UNCHANGED <<ledger, bufvars, policy, since>>

Accept ==
    /\ phase = "decide"
    /\ items # <<>>
    /\ ver[InHand.art] < MaxVersion
    /\ phase' = "commit"
    /\ UNCHANGED <<ledger, bufvars, inFlight, policy, todo, items, reports, fate, since>>

CommitOf(a) == [art |-> a, outcome |-> "committed"]

\* An exception in the decision: the `finally` releases the candidate in hand, the others and
\* every report of the batch are gone, and so is what they say of these commits.
LeavesDecision(commits) ==
    /\ "decide" \in Faults
    /\ inFlight' = inFlight \ {InHand.art}
    /\ Unwinds
    /\ since' = [a \in Artifacts |-> IF a \in commits THEN None ELSE since[a]]

Reported == {a \in Artifacts : CommitOf(a) \in reports}

\* The oracle or the ledger raises.
DecideRaises ==
    /\ phase \in {"decide", "commit"}
    /\ items # <<>>
    /\ LeavesDecision(Reported)
    /\ UNCHANGED <<ledger, bufvars, policy, fate>>

Candidates(i) == i.content \union i.chosen

CasHolds(i) == ver[i.art] = i.ver

\* ledger.commit
Land ==
    /\ phase = "commit"
    /\ CasHolds(InHand)
    /\ ver' = [ver EXCEPT ![InHand.art] = @ + 1]
    /\ content' = [content EXCEPT ![InHand.art] = Candidates(InHand)]
    /\ fate' = [c \in Cards |-> CASE c \in InHand.chosen -> "committed"
                                  [] c \in InHand.cards \ InHand.chosen -> "rejected"
                                  [] OTHER -> fate[c]]
    /\ UNCHANGED <<stable, bufvars, policy>>

Commit ==
    /\ Land
    /\ since' = [since EXCEPT ![InHand.art] = 0]
    /\ Decided("committed")

\* The commit has landed, and what is told of it raises (a policy, on_contract_change).
CommitRaises ==
    /\ Land
    /\ LeavesDecision(Reported \union {InHand.art})

\* Bug: the retry sends the candidate again, under the winner's version.
Resent(i) == [i EXCEPT !.ver = ver[i.art], !.tries = @ + 1]

\* The rebased candidate: the diff applied to the head that won.
Rebased(i) == [i EXCEPT !.ver = ver[i.art], !.content = content[i.art], !.tries = @ + 1]

\* Bugs: nobody looks whether the head holds the diff already; one attempt too many.
CanRebaseAgain(i) == i.tries + 1 < CasAttempts

CanRebaseOnce(i) ==
    /\ i.tries < CasAttempts
    /\ ~ (i.chosen \subseteq content[i.art])

CanRebase(i) ==
    /\ i.tries + 1 < CasAttempts
    /\ ~ (i.chosen \subseteq content[i.art])      \* whoever won applied the same change

Rebase ==
    /\ phase = "commit"
    /\ ~ CasHolds(InHand)
    /\ CanRebase(InHand)
    /\ items' = <<Rebased(InHand)>> \o Tail(items)
    /\ UNCHANGED <<ledger, bufvars, inFlight, policy, phase, todo, reports, fate, since>>

GiveUp ==
    /\ phase = "commit"
    /\ ~ CasHolds(InHand)
    /\ ~ CanRebase(InHand)
    /\ fate' = Fated(InHand.cards, "settled")
    /\ Decided("other")
    /\ UNCHANGED <<ledger, bufvars, policy, since>>

AllDecided ==
    /\ phase = "decide"
    /\ items = <<>>
    /\ phase' = "observe"
    /\ UNCHANGED <<ledger, bufvars, inFlight, policy, todo, items, reports, fate, since>>

\* DefaultPromotion.observe.  Bugs: only a regression restarts the clock; only what was reported
\* on ages.
ResetsOnRegression(a) == \E r \in reports : r.art = a /\ r.outcome = "oracle"

Resets(a) == \E r \in reports : r.art = a /\ r.outcome # "other"

AgedIfReported(a) ==
    IF Resets(a) THEN 0
    ELSE (IF a \in DOMAIN survival THEN survival[a] ELSE 0)
           + (IF \E r \in reports : r.art = a THEN 1 ELSE 0)

Aged(a) == IF Resets(a) THEN 0
           ELSE (IF a \in DOMAIN survival THEN survival[a] ELSE 0) + 1

Observe ==
    LET tracked == DOMAIN survival \union {r.art : r \in reports}
    IN /\ phase = "observe"
       /\ phase' = "promote"
       /\ survival' = [a \in tracked |-> IF Aged(a) >= PromoteAfter THEN 0 ELSE Aged(a)]
       /\ todo' = {a \in tracked : Aged(a) >= PromoteAfter}
       /\ since' = [a \in Artifacts |->
                       IF since[a] = None THEN None ELSE Min({since[a] + 1, PromoteAfter})]
       /\ UNCHANGED <<ledger, bufvars, inFlight, seen, promotedAt, items, reports, fate>>

\* _promote: read dev's version, then copy dev, unless it is the version copied last.
CopyToStable(a) ==
    /\ promotedAt' = [promotedAt EXCEPT ![a] = ver[a]]
    /\ stable' = IF promotedAt[a] = ver[a] THEN stable ELSE [stable EXCEPT ![a] = ver[a]]

Promote(a) ==
    /\ phase = "promote"
    /\ a \in todo
    /\ todo' = todo \ {a}
    /\ CopyToStable(a)
    /\ UNCHANGED <<ver, content, bufvars, inFlight, seen, survival, phase, items, reports,
                   fate, since>>

\* The promotion, or an audit after it, raises: what is left of todo waits for its next turn.
PromoteRaises ==
    /\ phase = "promote"
    /\ "promote" \in Faults
    /\ Unwinds
    /\ UNCHANGED <<ledger, bufvars, inFlight, policy, fate, since>>

StepReturns ==
    /\ phase = "promote"
    /\ todo = {}
    /\ Unwinds
    /\ UNCHANGED <<ledger, bufvars, inFlight, policy, fate, since>>

Finishing ==
    \/ Reject \/ Accept \/ Commit \/ Rebase \/ GiveUp \/ AllDecided \/ Observe
    \/ \E a \in Artifacts : Promote(a)

FinishRaises == DecideRaises \/ CommitRaises \/ PromoteRaises

\* step(): the three phases on one thread.
Step ==
    \/ BeginStep({})
    \/ \E a \in Artifacts : Prepare(a) \/ PrepareRaises(a)
    \/ Prepared \/ Measure \/ MeasureRaises \/ Finishing \/ FinishRaises \/ StepReturns

(***************************************************************************)
(* The environment: workers' cards, and other processes on the ledger      *)
(***************************************************************************)
\* A card enters the buffer, proposed against a head of dev, past or present.
Ingest(c) ==
    /\ fate[c] = "unused"
    /\ fate' = [fate EXCEPT ![c] = "open"]
    /\ \E a \in Artifacts, base \in Versions :
          /\ base <= ver[a]
          /\ card' = [card EXCEPT ![c] = [art |-> a, base |-> base]]
          /\ buffer' = [buffer EXCEPT ![a] = @ \union {c}]
    /\ UNCHANGED <<ledger, waited, inFlight, policy, work, since>>

\* Another process commits a diff of its own, which has no name here, or one equal to ours.
OtherCommits(a) ==
    /\ a \in Others
    /\ ver[a] < MaxVersion
    /\ ver' = [ver EXCEPT ![a] = @ + 1]
    /\ \E ours \in {{}} \union {{d} : d \in Cards} :
          content' = [content EXCEPT ![a] = @ \union ours]
    /\ UNCHANGED <<stable, bufvars, inFlight, policy, work, fate, since>>

AggInit ==
    /\ ver = [a \in Artifacts |-> 0]
    /\ content = [a \in Artifacts |-> {}]
    /\ stable = [a \in Artifacts |-> 0]
    /\ card = [c \in Cards |-> None]
    /\ buffer = [a \in Artifacts |-> {}]
    /\ waited = [a \in Artifacts |-> 0]
    /\ inFlight = {}
    /\ seen = {}
    /\ survival = <<>>
    /\ promotedAt = [a \in Artifacts |-> None]
    /\ phase = "idle" /\ todo = {} /\ items = <<>> /\ reports = {}
    /\ fate = [c \in Cards |-> "unused"]
    /\ since = [a \in Artifacts |-> 0]

AggNext ==
    \/ Step
    \/ \E c \in Cards : Ingest(c)
    \/ \E a \in Artifacts : OtherCommits(a)

\* The orchestrator calls step() once per round, for as long as the run lasts; a promotion that
\* comes due again and again does not raise every time.
AggSpec ==
    /\ AggInit /\ [][AggNext]_aggVars
    /\ WF_aggVars(Step)
    /\ \A a \in Artifacts : SF_aggVars(Promote(a))

(***************************************************************************)
(* Properties                                                              *)
(***************************************************************************)
AggTypeOK ==
    /\ ver \in [Artifacts -> Versions]
    /\ content \in [Artifacts -> SUBSET Cards]
    /\ stable \in [Artifacts -> Versions]
    /\ card \in [Cards -> [art : Artifacts, base : Versions] \union {None}]
    /\ buffer \in [Artifacts -> SUBSET Cards]
    /\ waited \in [Artifacts -> 0..MaxWait]
    /\ {inFlight, seen, todo, DOMAIN survival} \subseteq SUBSET Artifacts
    /\ \A a \in DOMAIN survival : survival[a] \in 0..(PromoteAfter - 1)
    /\ promotedAt \in [Artifacts -> Versions \union {None}]
    /\ phase \in Phases
    /\ items \in Seq(Candidate) /\ \A i \in Range(items) : i.tries < CasAttempts
    /\ reports \subseteq Report
    /\ fate \in [Cards -> Fates]
    /\ since \in [Artifacts -> 0..PromoteAfter \union {None}]

\* A card's diff gets one outcome: what was discarded, settled, rejected or committed is never
\* settled or decided again (settle, _decide).
DecidedOnce == [][\A c \in Cards : fate[c] \notin {"unused", "open"} => fate'[c] = fate[c]]_fate

\* A commit never drops a diff that dev already holds, whoever put it there: a lost race is
\* rebased on the winner, not sent again (_commit_with_retry).
NothingOverwritten == [][\A a \in Artifacts : content[a] \subseteq content'[a]]_content

\* dev is copied to stable only once this process has not committed to it for PromoteAfter
\* rounds: a commit restarts the clock, unless a later decision of its batch raises and takes the
\* report of the commit along (DefaultPromotion.observe, _promote, finish_step).
OnlySurvivorsPromoted ==
    [][\A a \in Artifacts : stable'[a] # stable[a] => since[a] = None \/ since[a] >= PromoteAfter]_stable

\* A converged artifact reaches stable: once nothing commits, a few more rounds publish the head
\* of every artifact this process has ever reported on, whoever committed it.
ConvergedIsPublished == <>[](\A a \in DOMAIN survival : stable[a] = ver[a])

=============================================================================
