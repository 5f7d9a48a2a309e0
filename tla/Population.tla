----------------------------- MODULE Population -----------------------------
(***************************************************************************)
(* Population search in the synchronous engine: PopulationAggregator over  *)
(* the live heads of the ledger, the rounds of evolve() around it, and the *)
(* checkpoint from which another process resumes.  The merge pipeline is   *)
(* abstracted to what it leaves behind: at most one commit per branch and  *)
(* step, of any content.                                                   *)
(***************************************************************************)
EXTENDS Integers, FiniteSetsExt, SequencesExt

CONSTANTS
    Contents,    \* what a head may hold, each named by its held-out score
    Islands,     \* island_count: persistent forks beside dev, 0 for none
    NWorkers,    \* n_workers: the starting points per step without islands
    Seed,        \* what the artifact is registered with
    Leftover,    \* what an island of a former run may hold, None: there is none
    Patience,    \* recorded rounds without improvement before the run stops
    MaxRounds,   \* rounds in all
    MaxRuns,     \* processes, one after the other, on one ledger
    MaxMerges,   \* commits of the merge pipeline, in all
    Faults,      \* what may go wrong: "crash", "save", "measure", "read", "discard"
    MaxFaults,
    None

ASSUME PopulationAssumption ==
    /\ Contents \subseteq Nat \ {0} /\ IsFiniteSet(Contents) /\ Seed \in Contents
    /\ Leftover \subseteq Contents \cup {None}
    /\ Islands \in Nat /\ NWorkers \in Nat \ {0}
    /\ Patience \in Nat \ {0} /\ MaxRounds \in Nat
    /\ MaxRuns \in Nat /\ MaxMerges \in Nat /\ MaxFaults \in Nat
    /\ None \notin Nat

\* Branch 0 is dev and branch k + 1 is head/k; two sets of island names never need more.
Dev == 0
TopBranch == IF Islands > 0 THEN 2 * Islands ELSE NWorkers - 1
Branches == 0 .. TopBranch

Numbers == Nat \ {0}
HeadStates == [state : Contents, ver : Numbers, from : Contents \cup {None}]
ASSUME NoneIsNoHead == None \notin HeadStates

VARIABLES
    heads,     \* the ledger: per branch None, or [state, ver, from]
    disk,      \* latest.json, or None
    pc,        \* where the process is; "down" and "ended" outside of a process
    mem,       \* what the process remembers: archive, tips, forks, early stop, round
    work,      \* the switch under way: former forks, slot and its branch
    (* history, read by no action's guard *)
    observed,  \* the rounds recorded by this process and by those it resumes
    start,     \* what dev held when the process started
    stepped,   \* the process has begun a step
    clean,     \* the ledger is as the latest checkpoint found it
    trusted,   \* every process so far resumed from such a checkpoint
    runs, merges, faults

ledger == <<heads, merges, clean>>
history == <<start, trusted, runs>>
vars == <<heads, disk, pc, mem, work, observed, start, stepped, clean, trusted, runs, merges, faults>>

Fault(kind) == kind \in Faults /\ faults < MaxFaults /\ faults' = faults + 1

Live == {b \in Branches : heads[b] # None}

(***************************************************************************)
(* The archive                                                             *)
(***************************************************************************)
Ids(archive) == {archive[i].id : i \in DOMAIN archive}

\* Forks of one snapshot count up from the same base; an id in use is replaced.
NodeId(archive, ver) == IF ver \in Ids(archive) THEN Max(Ids(archive)) + 1 ELSE ver

\* The candidate last selected onto b is the parent of what is new on b.
Admit(archive, b) ==
    IF \E i \in DOMAIN archive : archive[i].state = heads[b].state
    THEN archive
    ELSE Append(archive, [state  |-> heads[b].state,
                          id     |-> NodeId(archive, heads[b].ver),
                          parent |-> mem.tip[b],
                          from   |-> heads[b].from])

AdmitAll(archive) ==
    LET below[n \in 0 .. (TopBranch + 1)] ==
            IF n = 0 THEN archive
            ELSE IF n - 1 \in Live THEN Admit(below[n - 1], n - 1) ELSE below[n - 1]
    IN  below[TopBranch + 1]

Best(archive) == Max({archive[i].state : i \in DOMAIN archive})

\* Replace a head outright; nothing is committed when it already holds the state.
Put(b, s) ==
    heads' = IF heads[b].state = s THEN heads
             ELSE [heads EXCEPT ![b] = [state |-> s, ver |-> @.ver + 1, from |-> None]]

Touched == clean' = (clean /\ heads' = heads)
-----------------------------------------------------------------------------
(***************************************************************************)
(* A process starts, works through its rounds, and ends or dies            *)
(***************************************************************************)
Idle == [prev |-> <<>>, slot |-> 1, branch |-> Dev]

Fresh == [archive |-> <<>>, tip |-> [b \in Branches |-> None], forks |-> <<>>,
          best |-> 0, stalled |-> 0, base |-> 0, round |-> 0]

\* Bug: the islands of the checkpoint are taken as they were.
EveryFork(forks) == forks

\* Bug: they are taken from the ledger, which lists dev as well.
EveryHead(forks) == SetToSortSeq(Live, <)

\* A clean end removes the islands and leaves the checkpoint: keep those that live.
LiveForks(forks) ==
    LET kept[n \in 0 .. Len(forks)] ==
            IF n = 0 THEN <<>>
            ELSE IF forks[n] \in Live THEN Append(kept[n - 1], forks[n]) ELSE kept[n - 1]
    IN  kept[Len(forks)]

Tracked == [best |-> disk.best, stalled |-> disk.stalled]

Restored ==
    IF disk = None THEN Fresh
    ELSE [archive |-> disk.archive, tip |-> disk.tip, forks |-> LiveForks(disk.forks),
          best |-> Tracked.best, stalled |-> Tracked.stalled,
          base |-> disk.round + 1, round |-> 0]

\* The number of the round in the search, across processes.
Number == mem.base + mem.round

Start ==
    /\ pc \in {"down", "ended"} /\ runs < MaxRuns
    /\ mem' = Restored
    /\ observed' = IF disk = None THEN <<>> ELSE disk.observed
    /\ pc' = "top"
    /\ start' = heads[Dev].state /\ stepped' = FALSE
    /\ trusted' = (trusted /\ clean)
    /\ runs' = runs + 1
    /\ UNCHANGED <<ledger, disk, work, faults>>

\* The rounds are used up, or a budget, a deadline or the caller stops the run.
Stop ==
    /\ pc = "top"
    /\ pc' = "final"
    /\ UNCHANGED <<ledger, disk, mem, work, observed, stepped, history, faults>>

NextRound == [mem EXCEPT !.round = @ + 1]

\* The ledger cannot be read at the top of the round.
SkipRound ==
    /\ pc = "top" /\ Number < MaxRounds
    /\ Fault("read")
    /\ mem' = NextRound
    /\ UNCHANGED <<ledger, disk, pc, work, observed, stepped, history>>

\* Bug: what dev holds before the merge is not archived.
AdmitNothing(archive) == archive

AdmitHead(archive) == Admit(archive, Dev)

\* step(): archive dev as it is, then merge; any of the live heads may move.
Merge ==
    /\ pc = "top" /\ Number < MaxRounds
    /\ mem' = [mem EXCEPT !.archive = AdmitHead(@)]
    /\ \E moved \in SUBSET Live : \E into \in [moved -> Contents] :
          /\ \A b \in moved : into[b] # heads[b].state
          /\ merges' = merges + Cardinality(moved) /\ merges' <= MaxMerges
          /\ heads' = [b \in Branches |->
                         IF b \in moved
                         THEN [state |-> into[b], ver |-> heads[b].ver + 1, from |-> heads[b].state]
                         ELSE heads[b]]
    /\ Touched
    /\ stepped' = TRUE
    /\ pc' = "choose"
    /\ UNCHANGED <<disk, work, observed, history, faults>>

Slots == Min({Len(mem.archive), IF Islands > 0 THEN Islands + 1 ELSE NWorkers})

\* Archive every live head; with two candidates or more, the policy chooses.
Choose ==
    /\ pc = "choose"
    /\ LET archive == AdmitAll(mem.archive)
           choice == Len(archive) > 1
       IN  /\ mem' = [mem EXCEPT !.archive = archive, !.forks = IF choice THEN <<>> ELSE @]
           /\ work' = IF choice THEN [Idle EXCEPT !.prev = mem.forks] ELSE Idle
           /\ pc' = IF choice THEN "switch" ELSE "measure"
    /\ UNCHANGED <<ledger, disk, observed, stepped, history, faults>>

FreeName(idx, taken) == Min({b \in Branches : b > idx /\ b \notin taken})

IslandOf(idx) ==
    IF Islands > 0 /\ idx < Len(work.prev) THEN work.prev[idx + 1]
    ELSE FreeName(idx, IF Islands > 0 THEN Range(work.prev) \cup Range(mem.forks) ELSE {})

\* Slots past the first have a branch of their own: an island kept from the
\* last step, or a fork of dev, which has already moved.
Fork ==
    /\ pc = "switch" /\ work.slot > 1 /\ work.branch = Dev
    /\ LET idx == work.slot - 2
           b == IslandOf(idx)
           kept == Islands > 0 /\ idx < Len(work.prev) /\ b \in Live
       IN  /\ heads' = IF kept THEN heads ELSE [heads EXCEPT ![b] = heads[Dev]]
           /\ work' = [work EXCEPT !.branch = b]
    /\ Touched
    /\ UNCHANGED <<merges, disk, pc, mem, observed, stepped, history, faults>>

\* Bug: every branch descends from the candidate on dev.
PrimaryTip(b, c) == IF b = Dev THEN c.id ELSE mem.tip[Dev]

Tip(b, c) == c.id

\* Commit a candidate to the slot's branch, which descends from it from now on.
\* The policy answers for all slots at once, with any of the archive for each.
Switch ==
    /\ pc = "switch" /\ (work.slot > 1 => work.branch # Dev)
    /\ \E c \in Range(mem.archive) :
          LET b == work.branch IN
          /\ Put(b, c.state)
          /\ mem' = [mem EXCEPT !.tip[b] = Tip(b, c),
                                !.forks = IF b = Dev THEN @ ELSE Append(@, b)]
    /\ Touched
    /\ IF work.slot = Slots
       THEN work' = Idle /\ pc' = "measure"
       ELSE work' = [work EXCEPT !.slot = @ + 1, !.branch = Dev] /\ UNCHANGED pc
    /\ UNCHANGED <<merges, disk, observed, stepped, history, faults>>

\* EarlyStop.observe
Observe(reward) ==
    IF reward > mem.best THEN [mem EXCEPT !.best = reward, !.stalled = 0]
    ELSE [mem EXCEPT !.stalled = @ + 1]

\* The round's reward is that of the head the next round starts from.
Measure ==
    /\ pc = "measure"
    /\ mem' = Observe(heads[Dev].state)
    /\ observed' = Append(observed, [round |-> Number, reward |-> heads[Dev].state])
    /\ pc' = "save"
    /\ UNCHANGED <<ledger, disk, work, stepped, history, faults>>

\* Not measurable, or not readable: nothing is recorded, nothing saved.
Unmeasured ==
    /\ pc = "measure"
    /\ Fault("measure")
    /\ mem' = NextRound /\ pc' = "top"
    /\ UNCHANGED <<ledger, disk, work, observed, stepped, history>>

Continue ==
    IF mem.stalled >= Patience THEN pc' = "final" /\ UNCHANGED mem
    ELSE pc' = "top" /\ mem' = NextRound

Save ==
    /\ pc = "save"
    /\ disk' = [round |-> Number, archive |-> mem.archive, tip |-> mem.tip,
                forks |-> mem.forks, best |-> mem.best, stalled |-> mem.stalled,
                observed |-> observed]
    /\ clean' = TRUE
    /\ Continue
    /\ UNCHANGED <<heads, merges, work, observed, stepped, history, faults>>

\* A busy lock or a full disk: the older checkpoint stays, the run goes on.
SaveFails ==
    /\ pc = "save"
    /\ Fault("save")
    /\ Continue
    /\ UNCHANGED <<ledger, disk, work, observed, stepped, history>>

\* finalize(): the best candidate on dev, the islands removed.
FinalBest ==
    /\ pc = "final"
    /\ IF mem.archive = <<>> THEN UNCHANGED heads ELSE Put(Dev, Best(mem.archive))
    /\ Touched
    /\ pc' = "discard"
    /\ UNCHANGED <<merges, disk, mem, work, observed, stepped, history, faults>>

Discard ==
    /\ pc = "discard" /\ mem.forks # <<>>
    /\ \/ heads' = [heads EXCEPT ![Head(mem.forks)] = None] /\ UNCHANGED faults
       \/ Fault("discard") /\ UNCHANGED heads
    /\ Touched
    /\ mem' = [mem EXCEPT !.forks = Tail(@)]
    /\ UNCHANGED <<merges, disk, pc, work, observed, stepped, history>>

End ==
    /\ pc = "discard" /\ mem.forks = <<>>
    /\ pc' = "ended"
    /\ UNCHANGED <<ledger, disk, mem, work, observed, stepped, history, faults>>

\* Killed, or ended by an error: memory is gone, the ledger and the file stay.
Dies ==
    /\ pc \notin {"down", "ended"}
    /\ Fault("crash")
    /\ pc' = "down" /\ mem' = Fresh /\ work' = Idle /\ observed' = <<>> /\ stepped' = FALSE
    /\ UNCHANGED <<ledger, disk, history>>

\* A new ledger, or one on which an earlier run died and left an island.
Init ==
    /\ \E left \in Leftover :
          heads = [b \in Branches |->
                     CASE b = Dev -> [state |-> Seed, ver |-> 1, from |-> None]
                       [] b = 1 /\ left # None -> [state |-> left, ver |-> 2, from |-> None]
                       [] OTHER -> None]
    /\ disk = None
    /\ pc = "down" /\ mem = Fresh /\ work = Idle
    /\ observed = <<>> /\ start = None /\ stepped = FALSE
    /\ clean = TRUE /\ trusted = TRUE
    /\ runs = 0 /\ merges = 0 /\ faults = 0

Next ==
    \/ Start \/ Stop \/ SkipRound \/ Merge \/ Choose \/ Fork \/ Switch
    \/ Measure \/ Unmeasured \/ Save \/ SaveFails
    \/ FinalBest \/ Discard \/ End \/ Dies

Spec == Init /\ [][Next]_vars
-----------------------------------------------------------------------------
Candidates == [state : Contents, id : Numbers, parent : Numbers \cup {None},
               from : Contents \cup {None}]

Records == Seq([round : Nat, reward : Contents])

Forks == Seq(Branches \ {Dev})

Memory == [archive : Seq(Candidates), tip : [Branches -> Numbers \cup {None}], forks : Forks,
           best : Contents \cup {0}, stalled : Nat, base : Nat, round : 0 .. MaxRounds]

Checkpoints == [archive : Seq(Candidates), tip : [Branches -> Numbers \cup {None}], forks : Forks,
                best : Contents \cup {0}, stalled : Nat, round : Nat, observed : Records]

\* What the ledger, the file and the process may hold; dev always exists.
TypeOK ==
    /\ heads \in [Branches -> HeadStates \cup {None}]
    /\ heads[Dev] # None
    /\ disk \in Checkpoints \cup {None}
    /\ pc \in {"down", "top", "choose", "switch", "measure", "save", "final", "discard", "ended"}
    /\ mem \in Memory
    /\ work \in [prev : Forks, slot : Numbers, branch : Branches]
    /\ observed \in Records /\ start \in Contents \cup {None}
    /\ stepped \in BOOLEAN /\ clean \in BOOLEAN /\ trusted \in BOOLEAN
    /\ runs \in 0 .. MaxRuns /\ merges \in 0 .. MaxMerges /\ faults \in 0 .. MaxFaults

\* Whatever was resumed from, the search refers to nothing that is not there:
\* no two candidates share an identity, a parent is an earlier candidate, a tip
\* is a candidate, and the islands that workers are sent to
\* (head_for_worker) are different live heads.
NothingDangles ==
    /\ \A i, j \in DOMAIN mem.archive :
          mem.archive[i].id = mem.archive[j].id => i = j
    /\ \A i \in DOMAIN mem.archive :
          mem.archive[i].parent \in {None} \cup Ids(SubSeq(mem.archive, 1, i - 1))
    /\ pc # "down" => \A b \in Branches : mem.tip[b] \in {None} \cup Ids(mem.archive)
    /\ IsInjective(mem.forks)
    /\ Range(mem.forks) \subseteq Live

\* The recorded parent of a candidate is the one it was made from, as long as
\* every resume found the ledger as the checkpoint had left it.
LineageIsDerivation ==
    trusted => \A c, p \in Range(mem.archive) : c.parent = p.id => c.from = p.state

\* A clean end leaves on dev nothing worse than what was there when the process
\* started, what it archived, or what a checkpoint holds, if it took a step.
BestIsPublished ==
    pc = "ended" /\ stepped =>
        /\ heads[Dev].state >= start
        /\ \A c \in Range(mem.archive) : heads[Dev].state >= c.state
        /\ disk # None => \A c \in Range(disk.archive) : heads[Dev].state >= c.state

\* A resumed run goes on counting from its checkpoint: among the rounds saved there
\* and those recorded since no number is used twice, and best and stalled are
\* those of all their rewards. No run checks it: PopulationProofs proves it.
CountsOn ==
    LET last == Len(observed)
        top == Max({0} \cup {observed[i].reward : i \in 1 .. last})
        first == Min({last} \cup {i \in 1 .. last : observed[i].reward = top})
    IN  /\ \A i, j \in 1 .. last : i < j => observed[i].round < observed[j].round
        /\ pc \in {"top", "save"} => mem.best = top /\ mem.stalled = last - first
=============================================================================
