-------------------------- MODULE EvaluationProofs --------------------------
(***************************************************************************)
(* Proofs about Evaluation and the pool and the cache it is built from,    *)
(* for every number of threads, sandboxes, keys, attempts and contracts.   *)
(***************************************************************************)
EXTENDS Evaluation, FiniteSetTheorems, TLAPS

\* What a step may do to the pool; the cache is not involved.
PoolStep ==
  \/ UNCHANGED poolVars
  \/ Close
  \/ \E s \in Sandboxes : Revoke(s)
  \/ \E t \in Threads : \/ Ask(t) \/ Wait(t) \/ Reserve(t) \/ Provisioned(t)
                        \/ ProvisionFails(t) \/ Release(t)

LEMMA NextIsPoolStep == [Next]_vars => PoolStep
BY EvaluationAssumption DEF Next, vars, PoolStep, Rollout, Evaluate, Moves, SandboxFails, RunEnds,
   InPool, Attempt, InCache, Reclaim, Breaks, Invalidate

\* The slot a thread inside the pool occupies.
Slot(t) == IF place[t] = "using" THEN held[t] ELSE t

\* The inductive invariant of the pool.  What keeps the ceiling is Slotted: a thread that was not
\* disowned has a lease of its own among the live ones.
Slotted == \A t \in Inside \ disowned : Slot(t) \in live

Holding ==
  /\ \A t \in Threads : held[t] # None => t \in Inside
  /\ \A t \in Threads : place[t] = "using" => held[t] # None
  /\ \A t \in Threads : place[t] = "provisioning" => held[t] \notin live
  /\ idle \notin live
  /\ \A s \in live \intersect Sandboxes : \E t \in Threads : held[t] = s

PoolInv == PoolTypeOK /\ ExclusiveUse /\ Slotted /\ Holding /\ Ceiling

LEMMA PoolInitInv == PoolInit => PoolInv
<1> SUFFICES ASSUME PoolInit PROVE PoolInv
  OBVIOUS
<1>1. PoolTypeOK
  BY DEF PoolInit, PoolTypeOK
<1>2. Inside = {}
  BY DEF PoolInit, Inside
<1>3. ExclusiveUse
  BY DEF PoolInit, ExclusiveUse, Range
<1>4. Slotted /\ Holding
  BY <1>2, PoolAssumption DEF PoolInit, Slotted, Holding
<1>5. Ceiling
  <2>1. Inside \ disowned = {}
    BY <1>2
  <2>2. Cardinality({}) = 0
    BY FS_EmptySet
  <2> QED
    BY <2>1, <2>2, PoolAssumption DEF Ceiling
<1> QED
  BY <1>1, <1>3, <1>4, <1>5 DEF PoolInv

\* What a thread may rely on about another one's sandbox and the warm one.
LEMMA Exclusive ==
  ASSUME PoolTypeOK, ExclusiveUse
  PROVE  /\ \A t, u \in Threads : t # u /\ held[t] # None => held[t] # held[u]
         /\ \A t \in Threads : held[t] # None => held[t] # idle
BY DEF PoolTypeOK, ExclusiveUse, Range

\* ExclusiveUse in the next state, from the sandboxes the threads have in it.
LEMMA ExclusiveNext ==
  ASSUME held' \in [Threads -> Sandboxes \union {None}],
         \A t, u \in Threads : t # u /\ held'[t] # None => held'[t] # held'[u],
         \A t \in Threads : held'[t] # None => held'[t] # idle'
  PROVE  ExclusiveUse'
BY DEF ExclusiveUse, Range

LEMMA LiveFinite ==
  ASSUME PoolTypeOK
  PROVE  IsFiniteSet(live) /\ Cardinality(live) \in Nat
<1>1. IsFiniteSet(Threads \union Sandboxes)
  BY FS_Union, EnoughNames
<1>2. live \subseteq Threads \union Sandboxes
  BY DEF PoolTypeOK
<1>3. IsFiniteSet(live)
  BY <1>1, <1>2, FS_Subset
<1> QED
  BY <1>3, FS_CardinalityType

\* A wake-up moves one waiter, or none.
LEMMA NotifyMoves ==
  ASSUME NEW moved, Notify(moved),
         moved \in [Threads -> {"out", "asking", "waiting", "woken", "provisioning", "using"}]
  PROVE  /\ place' \in [Threads -> {"out", "asking", "waiting", "woken", "provisioning", "using"}]
         /\ \A u \in Threads : \/ place'[u] = moved[u]
                               \/ place[u] = "waiting" /\ place'[u] = "woken"
BY DEF Notify, Waiting

\* The threads that were not disowned have as many leases as they are: one each.
LEMMA SlotsFit ==
  ASSUME PoolInv
  PROVE  Cardinality(Inside \ disowned) <= Cardinality(live)
<1> DEFINE S == Inside \ disowned
           f == [t \in S |-> Slot(t)]
<1>1. \A t \in S : t \in Threads /\ Slot(t) \in live
  BY DEF PoolInv, Slotted, Inside
<1>2. \A t, u \in S : Slot(t) = Slot(u) => t = u
  <2> SUFFICES ASSUME NEW t \in S, NEW u \in S, t # u, Slot(t) = Slot(u) PROVE FALSE
    OBVIOUS
  <2>1. held[t] # held[u] \/ held[t] = None
    BY <1>1, Exclusive DEF PoolInv
  <2>2. \A v \in Threads : place[v] = "using" => held[v] \in Sandboxes
    BY DEF PoolInv, Holding, PoolTypeOK
  <2>3. t \in Threads /\ u \in Threads
    BY <1>1
  <2>4. (place[t] = "using") <=> (place[u] = "using")
    BY <2>2, <2>3, PoolAssumption DEF Slot
  <2>5. held[t] # None \/ place[t] # "using"
    BY <2>3 DEF PoolInv, Holding
  <2> QED
    BY <2>1, <2>3, <2>4, <2>5 DEF Slot
<1>3. f \in Injection(S, live)
  <2>1. f \in [S -> live]
    BY <1>1
  <2>2. \A t, u \in S : f[t] = f[u] => t = u
    BY <1>2
  <2> QED
    BY <2>1, <2>2 DEF Injection, IsInjective
<1>4. IsFiniteSet(live)
  BY LiveFinite DEF PoolInv
<1> QED
  BY <1>3, <1>4, FS_Injection

LEMMA CeilingKept ==
  ASSUME PoolInv, Inside' \ disowned' \subseteq Inside \ disowned
  PROVE  Ceiling'
<1> DEFINE A == Inside \ disowned
           B == Inside' \ disowned'
<1>1. IsFiniteSet(Threads) /\ A \subseteq Threads
  BY EnoughNames DEF Inside
<1>2. IsFiniteSet(A)
  BY <1>1, FS_Subset
<1>3. IsFiniteSet(B) /\ Cardinality(B) <= Cardinality(A)
  BY <1>2, FS_Subset
<1>4. Cardinality(A) \in Nat /\ Cardinality(B) \in Nat /\ Cardinality(A) <= MaxSandboxes
  BY <1>2, <1>3, FS_CardinalityType DEF PoolInv, Ceiling
<1> QED
  BY <1>3, <1>4, PoolAssumption DEF Ceiling

\* A new sandbox can be named: of the names one more than there are threads, the others hold at
\* most one each, and the warm one is the last.
LEMMA NameLeft ==
  ASSUME PoolInv, NEW t \in Threads, held[t] = None
  PROVE  Unused # {}
<1> SUFFICES ASSUME Unused = {} PROVE FALSE
  OBVIOUS
<1> DEFINE g == [u \in Threads |-> IF u = t THEN idle ELSE held[u]]
           R == {g[u] : u \in Threads}
<1>1. Sandboxes \subseteq R
  <2> SUFFICES ASSUME NEW s \in Sandboxes PROVE s \in R
    OBVIOUS
  <2>1. s \in live \union {idle} \union Range(held)
    BY DEF Unused
  <2>2. s = idle \/ \E u \in Threads : held[u] = s
    BY <2>1 DEF PoolInv, PoolTypeOK, Holding, Range
  <2>3. CASE s = idle
    BY <2>3
  <2>4. CASE \E u \in Threads : held[u] = s
    <3>1. PICK u \in Threads : held[u] = s
      BY <2>4
    <3>2. u # t
      BY <3>1, PoolAssumption
    <3> QED
      BY <3>1, <3>2
  <2> QED
    BY <2>2, <2>3, <2>4
<1>2. g \in Surjection(Threads, R)
  <2>1. g \in [Threads -> R]
    OBVIOUS
  <2> QED
    BY <2>1 DEF Surjection
<1>3. IsFiniteSet(R) /\ Cardinality(R) <= Cardinality(Threads)
  BY <1>2, EnoughNames, FS_Surjection
<1>4. Cardinality(Sandboxes) <= Cardinality(R)
  BY <1>1, <1>3, FS_Subset
<1>5. Cardinality(R) \in Nat /\ Cardinality(Threads) \in Nat /\ Cardinality(Sandboxes) \in Nat
  BY <1>3, EnoughNames, FS_CardinalityType
<1> QED
  BY <1>3, <1>4, <1>5, EnoughNames

LEMMA ReserveKeeps ==
  ASSUME PoolInv, NEW t \in Threads, Reserve(t)
  PROVE  PoolInv'
<1> USE DEF Reserve, MayReserve, Moved
<1>1. PoolTypeOK'
  BY DEF PoolInv, PoolTypeOK, WarmTaken
<1>2. held[t] = None
  BY DEF PoolInv, Holding, Inside
<1>3. /\ Inside' = Inside \union {t}
      /\ \A u \in Threads \ {t} : held'[u] = held[u] /\ place'[u] = place[u]
      /\ held'[t] \in {idle, None} /\ place'[t] = "provisioning"
  BY DEF PoolInv, PoolTypeOK, Inside
<1>4. ExclusiveUse'
  <2>1. \A u, v \in Threads : u # v /\ held'[u] # None => held'[u] # held'[v]
    BY <1>3, Exclusive DEF PoolInv
  <2>2. \A u \in Threads : held'[u] # None => held'[u] # idle'
    BY <1>3, Exclusive, PoolAssumption DEF PoolInv, PoolTypeOK, WarmTaken
  <2> QED
    BY <1>1, <2>1, <2>2, ExclusiveNext DEF PoolTypeOK
<1>5. Slotted'
  BY <1>3 DEF PoolInv, Slotted, Slot, Inside
<1>6. Holding'
  <2>1. \A u \in Threads : held'[u] # None => u \in Inside'
    BY <1>3 DEF PoolInv, Holding
  <2>2. \A u \in Threads : place'[u] = "using" => held'[u] # None
    BY <1>3 DEF PoolInv, Holding
  <2>3. idle \notin live' /\ idle' \notin live' /\ None \notin live'
    BY PoolAssumption DEF PoolInv, Holding, PoolTypeOK, WarmTaken
  <2>4. \A u \in Threads : place'[u] = "provisioning" => held'[u] \notin live'
    BY <1>3, <2>3, PoolAssumption DEF PoolInv, Holding, PoolTypeOK
  <2>5. \A s \in live' \intersect Sandboxes : \E u \in Threads : held'[u] = s
    <3> SUFFICES ASSUME NEW s \in live' \intersect Sandboxes
                 PROVE  \E u \in Threads : held'[u] = s
      OBVIOUS
    <3>1. s \in live \intersect Sandboxes
      BY PoolAssumption
    <3>2. PICK u \in Threads : held[u] = s
      BY <3>1 DEF PoolInv, Holding
    <3> QED
      BY <3>2, <1>2, <1>3, PoolAssumption
  <2> QED
    BY <2>1, <2>2, <2>3, <2>4, <2>5 DEF Holding
<1>7. Ceiling'
  <2> DEFINE A == Inside \ disowned
  <2>1. IsFiniteSet(A)
    BY EnoughNames, FS_Subset DEF Inside
  <2>2. Cardinality(A) <= Cardinality(live) /\ Cardinality(live) < MaxSandboxes
    BY SlotsFit, LiveFinite, PoolAssumption DEF PoolInv, Full
  <2>3. Cardinality(A \union {t}) = Cardinality(A) + 1 /\ IsFiniteSet(A \union {t})
    <3>1. t \notin A
      BY DEF Inside
    <3> QED
      BY <2>1, <3>1, FS_AddElement
  <2>4. Inside' \ disowned' \subseteq A \union {t}
    BY <1>3
  <2>5. Cardinality(Inside' \ disowned') <= Cardinality(A \union {t})
    BY <2>3, <2>4, FS_Subset
  <2>6. /\ Cardinality(Inside' \ disowned') \in Nat
        /\ Cardinality(A) \in Nat /\ Cardinality(live) \in Nat /\ Cardinality(A \union {t}) \in Nat
    BY <2>1, <2>3, <2>4, FS_Subset, FS_CardinalityType, LiveFinite DEF PoolInv
  <2> QED
    BY <2>2, <2>3, <2>5, <2>6, PoolAssumption DEF Ceiling
<1> QED
  BY <1>1, <1>4, <1>5, <1>6, <1>7 DEF PoolInv

LEMMA ProvisionedKeeps ==
  ASSUME PoolInv, NEW t \in Threads, Provisioned(t)
  PROVE  PoolInv'
<1>1. PICK s \in Sandboxes : /\ live' = (live \ {t}) \union {s}
                             /\ held' = [held EXCEPT ![t] = s]
                             /\ s \notin live /\ s # idle
                             /\ \A u \in Threads \ {t} : held[u] # s
  <2>1. CASE held[t] # None
    BY <2>1, Exclusive DEF Provisioned, PoolInv, PoolTypeOK, Holding
  <2>2. CASE held[t] = None
    <3>1. Unused # {}
      BY <2>2, NameLeft
    <3> DEFINE s == CHOOSE fresh \in Unused : TRUE
    <3>2. s \in Unused
      BY <3>1
    <3>3. s \in Sandboxes /\ s \notin live /\ s # idle /\ \A u \in Threads : held[u] # s
      BY <3>2 DEF Unused, Range, PoolInv, PoolTypeOK
    <3>4. live' = (live \ {t}) \union {s} /\ held' = [held EXCEPT ![t] = s]
      BY <2>2 DEF Provisioned
    <3> QED
      BY <3>3, <3>4
  <2> QED
    BY <2>1, <2>2
<1>2. /\ place[t] = "provisioning" /\ place' = [place EXCEPT ![t] = "using"]
      /\ idle' = idle /\ disowned' = disowned
  BY DEF Provisioned, Moved
<1>3. PoolTypeOK'
  BY <1>1, <1>2 DEF PoolInv, PoolTypeOK
<1>4. /\ Inside' = Inside /\ t \in Inside
      /\ \A u \in Threads \ {t} : held'[u] = held[u] /\ place'[u] = place[u]
      /\ held'[t] = s /\ place'[t] = "using"
  BY <1>1, <1>2 DEF PoolInv, PoolTypeOK, Inside
<1>5. ExclusiveUse'
  <2>1. \A u, v \in Threads : u # v /\ held'[u] # None => held'[u] # held'[v]
    BY <1>1, <1>4, Exclusive DEF PoolInv
  <2>2. \A u \in Threads : held'[u] # None => held'[u] # idle'
    BY <1>1, <1>2, <1>4, Exclusive DEF PoolInv
  <2> QED
    BY <1>3, <2>1, <2>2, ExclusiveNext DEF PoolTypeOK
<1>6. Slotted'
  <2> SUFFICES ASSUME NEW u \in Inside \ disowned PROVE Slot(u)' \in live'
    BY <1>2, <1>4 DEF Slotted
  <2>1. CASE u = t
    BY <2>1, <1>1, <1>4 DEF Slot
  <2>2. CASE u # t
    <3>1. Slot(u)' = Slot(u) /\ Slot(u) \in live
      BY <2>2, <1>4 DEF Slot, PoolInv, Slotted, Inside
    <3>2. Slot(u) # t
      BY <2>2, PoolAssumption DEF Slot, PoolInv, PoolTypeOK, Holding, Inside
    <3> QED
      BY <3>1, <3>2, <1>1
  <2> QED
    BY <2>1, <2>2
<1>7. Holding'
  <2>1. \A u \in Threads : held'[u] # None => u \in Inside'
    BY <1>4 DEF PoolInv, Holding
  <2>2. \A u \in Threads : place'[u] = "using" => held'[u] # None
    BY <1>1, <1>4, PoolAssumption DEF PoolInv, Holding
  <2>3. idle' \notin live'
    BY <1>1, <1>2 DEF PoolInv, Holding
  <2>4. \A u \in Threads : place'[u] = "provisioning" => held'[u] \notin live'
    BY <1>1, <1>4 DEF PoolInv, Holding
  <2>5. \A r \in live' \intersect Sandboxes : \E u \in Threads : held'[u] = r
    <3> SUFFICES ASSUME NEW r \in live' \intersect Sandboxes, r # s
                 PROVE  \E u \in Threads : held'[u] = r
      BY <1>4
    <3>1. r \in live \intersect Sandboxes
      BY <1>1
    <3>2. PICK u \in Threads : held[u] = r
      BY <3>1 DEF PoolInv, Holding
    <3>3. u # t
      BY <3>1, <3>2, <1>2 DEF PoolInv, Holding
    <3> QED
      BY <3>2, <3>3, <1>4
  <2> QED
    BY <2>1, <2>2, <2>3, <2>4, <2>5 DEF Holding
<1>8. Ceiling'
  BY <1>2, <1>4, CeilingKept
<1> QED
  BY <1>3, <1>5, <1>6, <1>7, <1>8 DEF PoolInv

\* A step that leaves every thread where it is, but for the waiters it wakes.
Wakes == \A u \in Threads : \/ place'[u] = place[u]
                            \/ /\ place[u] \in {"out", "asking", "waiting", "woken"}
                               /\ place'[u] \in {"asking", "waiting", "woken"}

LEMMA WakesKeepsInside == Wakes => Inside' = Inside
BY DEF Wakes, Inside

\* A thread comes to the pool, or waits at it.
LEMMA StandsKeeps ==
  ASSUME PoolInv, NEW t \in Threads, Ask(t) \/ Wait(t)
  PROVE  PoolInv'
<1>1. PoolTypeOK' /\ Wakes
  BY DEF Ask, Wait, Moved, PoolInv, PoolTypeOK, Wakes
<1>2. UNCHANGED <<live, idle, held, disowned>>
  BY DEF Ask, Wait
<1>3. Inside' = Inside
  BY <1>1, WakesKeepsInside
<1>4. \A u \in Inside : place'[u] = place[u]
  BY <1>1 DEF Inside, Wakes
<1>5. \A u \in Threads : place'[u] \in {"using", "provisioning"} => place'[u] = place[u]
  BY <1>1 DEF Wakes
<1>6. ExclusiveUse'
  BY <1>2 DEF PoolInv, ExclusiveUse
<1>7. Slotted'
  BY <1>2, <1>3, <1>4 DEF PoolInv, Slotted, Slot
<1>8. Holding'
  BY <1>2, <1>3, <1>5 DEF PoolInv, Holding
<1>9. Ceiling'
  BY <1>2, <1>3 DEF PoolInv, Ceiling
<1> QED
  BY <1>1, <1>6, <1>7, <1>8, <1>9 DEF PoolInv

\* A thread gives back whatever it has, and may leave its sandbox for the next one.
LEMMA LeavesKeeps ==
  ASSUME PoolInv, NEW t \in Threads, PoolTypeOK',
         t \in Inside, place'[t] = "out",
         live' = live \ {Slot(t)},
         held' = [held EXCEPT ![t] = None],
         idle' = idle \/ (idle' = held[t] /\ place[t] = "using"),
         disowned' = disowned \ {t},
         \A u \in Threads \ {t} : \/ place'[u] = place[u]
                                  \/ place[u] = "waiting" /\ place'[u] = "woken"
  PROVE  PoolInv'
<1>1. /\ Inside' = Inside \ {t}
      /\ \A u \in Threads \ {t} : held'[u] = held[u]
      /\ held'[t] = None
      /\ \A u \in Threads : place'[u] \in {"provisioning", "using"} =>
            u # t /\ place'[u] = place[u]
      /\ \A u \in Inside' : u # t /\ place'[u] = place[u]
  BY DEF PoolInv, PoolTypeOK, Inside
<1>2. ExclusiveUse'
  <2>1. \A u, v \in Threads : u # v /\ held'[u] # None => held'[u] # held'[v]
    BY <1>1, Exclusive DEF PoolInv
  <2>2. \A u \in Threads : held'[u] # None => held'[u] # idle'
    BY <1>1, Exclusive DEF PoolInv
  <2> QED
    BY <2>1, <2>2, ExclusiveNext DEF PoolTypeOK
<1>3. Slotted'
  <2> SUFFICES ASSUME NEW u \in Inside' \ disowned' PROVE Slot(u)' \in live'
    BY DEF Slotted
  <2>1. u # t /\ u \in Inside \ disowned /\ u \in Threads
    BY <1>1 DEF Inside
  <2>2. Slot(u)' = Slot(u) /\ Slot(u) \in live
    BY <1>1, <2>1 DEF Slot, PoolInv, Slotted
  <2>3. place[t] = "using" => held[t] \in Sandboxes /\ held[t] # None /\ held[t] # held[u]
    BY <2>1, Exclusive DEF PoolInv, PoolTypeOK, Holding
  <2>4. place[u] = "using" => held[u] \in Sandboxes
    BY <2>1 DEF PoolInv, PoolTypeOK, Holding
  <2>5. Slot(u) # Slot(t)
    BY <2>1, <2>3, <2>4, PoolAssumption DEF Slot
  <2> QED
    BY <2>2, <2>5
<1>4. Holding'
  <2>1. \A u \in Threads : held'[u] # None => u \in Inside'
    BY <1>1 DEF PoolInv, Holding
  <2>2. \A u \in Threads : place'[u] = "using" => held'[u] # None
    BY <1>1 DEF PoolInv, Holding
  <2>3. idle' \notin live'
    BY DEF PoolInv, Holding, Slot
  <2>4. \A u \in Threads : place'[u] = "provisioning" => held'[u] \notin live'
    BY <1>1 DEF PoolInv, Holding
  <2>5. \A r \in live' \intersect Sandboxes : \E u \in Threads : held'[u] = r
    <3> SUFFICES ASSUME NEW r \in live' \intersect Sandboxes
                 PROVE  \E u \in Threads : held'[u] = r
      OBVIOUS
    <3>1. r \in live /\ r \in Sandboxes /\ r # Slot(t)
      OBVIOUS
    <3>2. PICK u \in Threads : held[u] = r
      BY <3>1 DEF PoolInv, Holding
    <3>3. u # t
      BY <3>1, <3>2 DEF PoolInv, Holding, Slot, Inside
    <3> QED
      BY <3>2, <3>3, <1>1
  <2> QED
    BY <2>1, <2>2, <2>3, <2>4, <2>5 DEF Holding
<1>5. Ceiling'
  BY <1>1, CeilingKept
<1> QED
  BY <1>2, <1>3, <1>4, <1>5 DEF PoolInv

LEMMA ProvisionFailsKeeps ==
  ASSUME PoolInv, NEW t \in Threads, ProvisionFails(t)
  PROVE  PoolInv'
<1> DEFINE moved == Moved(t, "out")
<1>1. moved \in [Threads -> {"out", "asking", "waiting", "woken", "provisioning", "using"}]
  BY DEF PoolInv, PoolTypeOK, Moved
<1>2. /\ place' \in [Threads -> {"out", "asking", "waiting", "woken", "provisioning", "using"}]
      /\ \A u \in Threads : \/ place'[u] = moved[u]
                            \/ place[u] = "waiting" /\ place'[u] = "woken"
  <2>1. Notify(moved)
    BY DEF ProvisionFails, Tell
  <2> HIDE DEF moved
  <2> QED
    BY <1>1, <2>1, NotifyMoves
<1>3. PoolTypeOK'
  BY <1>2 DEF PoolInv, PoolTypeOK, ProvisionFails
<1>4. /\ place[t] = "provisioning" /\ place'[t] = "out"
      /\ \A u \in Threads \ {t} : \/ place'[u] = place[u]
                                  \/ place[u] = "waiting" /\ place'[u] = "woken"
  BY <1>2 DEF ProvisionFails, Moved, PoolInv, PoolTypeOK
<1> QED
  BY <1>3, <1>4, LeavesKeeps DEF ProvisionFails, Inside, Slot

LEMMA ReleaseKeeps ==
  ASSUME PoolInv, NEW t \in Threads, Release(t)
  PROVE  PoolInv'
<1> DEFINE moved == Moved(t, "out")
<1>1. moved \in [Threads -> {"out", "asking", "waiting", "woken", "provisioning", "using"}]
  BY DEF PoolInv, PoolTypeOK, Moved
<1>2. /\ place' \in [Threads -> {"out", "asking", "waiting", "woken", "provisioning", "using"}]
      /\ \A u \in Threads : \/ place'[u] = moved[u]
                            \/ place[u] = "waiting" /\ place'[u] = "woken"
  <2>1. Notify(moved) \/ place' = moved
    BY DEF Release
  <2> HIDE DEF moved
  <2> QED
    BY <1>1, <2>1, NotifyMoves
<1>3. PoolTypeOK'
  BY <1>2 DEF PoolInv, PoolTypeOK, Holding, Release
<1>4. /\ place[t] = "using" /\ place'[t] = "out"
      /\ \A u \in Threads \ {t} : \/ place'[u] = place[u]
                                  \/ place[u] = "waiting" /\ place'[u] = "woken"
  BY <1>2 DEF Release, Moved, PoolInv, PoolTypeOK
<1>5. live' = live \ {held[t]}
  BY DEF Release
<1> QED
  BY <1>3, <1>4, <1>5, LeavesKeeps DEF Release, Inside, Slot

LEMMA RevokeKeeps ==
  ASSUME PoolInv, NEW s \in Sandboxes, Revoke(s)
  PROVE  PoolInv'
<1>1. /\ s \in live /\ live' = live \ {s} /\ UNCHANGED <<idle, held>>
      /\ disowned' = disowned \union {t \in Threads : held[t] = s}
  BY DEF Revoke
<1>2. /\ place' \in [Threads -> {"out", "asking", "waiting", "woken", "provisioning", "using"}]
      /\ \A u \in Threads : \/ place'[u] = place[u]
                            \/ place[u] = "waiting" /\ place'[u] = "woken"
  BY NotifyMoves DEF Revoke, PoolInv, PoolTypeOK
<1>3. PoolTypeOK'
  BY <1>1, <1>2 DEF PoolInv, PoolTypeOK
<1>4. Inside' = Inside
  BY <1>2, WakesKeepsInside DEF Wakes
<1>5. \A u \in Threads : place'[u] \in {"using", "provisioning"} => place'[u] = place[u]
  BY <1>2
<1>6. ExclusiveUse'
  BY <1>1 DEF PoolInv, ExclusiveUse
<1>7. Slotted'
  <2> SUFFICES ASSUME NEW u \in Inside' \ disowned' PROVE Slot(u)' \in live'
    BY DEF Slotted
  <2>1. u \in Inside \ disowned /\ held[u] # s /\ u \in Threads
    BY <1>1, <1>4 DEF Inside
  <2>2. Slot(u)' = Slot(u) /\ Slot(u) \in live
    BY <1>1, <1>5, <2>1 DEF Slot, PoolInv, Slotted, Inside
  <2>3. Slot(u) # s
    BY <2>1, PoolAssumption DEF Slot
  <2> QED
    BY <1>1, <2>2, <2>3
<1>8. Holding'
  BY <1>1, <1>4, <1>5 DEF PoolInv, Holding
<1>9. Ceiling'
  BY <1>1, <1>4, CeilingKept
<1> QED
  BY <1>3, <1>6, <1>7, <1>8, <1>9 DEF PoolInv

LEMMA CloseKeeps ==
  ASSUME PoolInv, Close
  PROVE  PoolInv'
<1>1. /\ live' = {} /\ idle' = None /\ held' = held
      /\ disowned' = disowned \union Inside
  BY DEF Close, Inside
<1>2. /\ place' \in [Threads -> {"out", "asking", "waiting", "woken", "provisioning", "using"}]
      /\ \A u \in Threads : \/ place'[u] = place[u]
                            \/ place[u] = "waiting" /\ place'[u] = "woken"
  BY DEF Close, PoolInv, PoolTypeOK, Waiting
<1>3. PoolTypeOK'
  BY <1>1, <1>2 DEF PoolInv, PoolTypeOK, Inside
<1>4. Inside' = Inside
  BY <1>2, WakesKeepsInside DEF Wakes
<1>5. ExclusiveUse'
  BY <1>1 DEF PoolInv, ExclusiveUse
<1>6. Slotted'
  BY <1>1, <1>4 DEF Slotted
<1>7. Holding'
  BY <1>1, <1>2, <1>4 DEF PoolInv, Holding
<1>8. Ceiling'
  BY <1>1, <1>4, CeilingKept
<1> QED
  BY <1>3, <1>5, <1>6, <1>7, <1>8 DEF PoolInv

LEMMA PoolStepKeeps == PoolInv /\ PoolStep => PoolInv'
<1> SUFFICES ASSUME PoolInv, PoolStep PROVE PoolInv'
  OBVIOUS
<1>1. CASE UNCHANGED poolVars
  BY <1>1 DEF poolVars, PoolInv, PoolTypeOK, ExclusiveUse, Slotted, Slot, Holding, Ceiling, Inside
<1>2. CASE Close
  BY <1>2, CloseKeeps
<1>3. CASE \E s \in Sandboxes : Revoke(s)
  BY <1>3, RevokeKeeps
<1>4. CASE \E t \in Threads : (Ask(t) \/ Wait(t))
  BY <1>4, StandsKeeps
<1>5. CASE \E t \in Threads : Reserve(t)
  BY <1>5, ReserveKeeps
<1>6. CASE \E t \in Threads : Provisioned(t)
  BY <1>6, ProvisionedKeeps
<1>7. CASE \E t \in Threads : ProvisionFails(t)
  BY <1>7, ProvisionFailsKeeps
<1>8. CASE \E t \in Threads : Release(t)
  BY <1>8, ReleaseKeeps
<1> QED
  BY <1>1, <1>2, <1>3, <1>4, <1>5, <1>6, <1>7, <1>8 DEF PoolStep

LEMMA PoolInvariant == Spec => []PoolInv
<1>1. Init => PoolInv
  BY PoolInitInv DEF Init
<1>2. PoolInv /\ [Next]_vars => PoolInv'
  BY NextIsPoolStep, PoolStepKeeps
<1> QED
  BY <1>1, <1>2, PTL DEF Spec

\* The threads that make or use a sandbox are at most max_sandboxes, but for stragglers whose slot
\* was taken back: of any number of threads, whatever fails and whatever is revoked or closed
\* under them (acquire, release, revoke, close).
THEOREM CeilingHolds == Spec => []Ceiling
BY PoolInvariant, PTL DEF PoolInv

\* Nobody works in a sandbox that another thread has or the next one will get (acquire, release).
THEOREM ExclusiveUseHolds == Spec => []ExclusiveUse
BY PoolInvariant, PTL DEF PoolInv

(***************************************************************************)
(* The cache.  Only where a measurement is in the pool matters of the pool *)
(***************************************************************************)

\* The threads that come to the pool in a step are among those of S.
OnlyEnter(S) == \A u \in Callers \ S : place'[u] # "out" => place[u] # "out"

Measures(t) == Measured(t, answer[t]) /\ place[t] # "out"

\* A first attempt, or another one.
BeginsAttempt(t) ==
  /\ stage[t] = "measuring"
  /\ answer' = [answer EXCEPT ![t] = contract]
  /\ UNCHANGED <<values, flights, stage, asked, waitsFor, file, dropVars, clean, measured>>

InFlight(t) == ReadFile(t) \/ WriteFile(t) \/ Store(t) \/ Forget(t) \/ Announce(t) \/ Return(t)

\* What a step may do to the cache.
CacheStep ==
  \/ /\ OnlyEnter({})
     /\ UNCHANGED cacheVars \/ ContractChanges \/ DropMemory \/ \E k \in Keys : DeleteFile(k)
  \/ \E t \in Callers : OnlyEnter({t}) /\ stage[t] = "out" /\ UNCHANGED cacheVars
  \/ \E t \in Callers : OnlyEnter({t}) /\ BeginsAttempt(t)
  \/ \E t \in Callers, k \in Keys :
        OnlyEnter({}) /\ place[t] = "out" /\ (Hit(t, k) \/ Join(t, k) \/ Miss(t, k))
  \/ \E t \in Callers : OnlyEnter({}) /\ InFlight(t)
  \/ \E t \in Callers : OnlyEnter({}) /\ place'[t] = "out" /\ (Measures(t) \/ MeasureFails(t))

LEMMA PoolEnters ==
  ASSUME PoolTypeOK, NEW t \in Threads
  PROVE  /\ UNCHANGED poolVars \/ Close \/ (\E s \in Sandboxes : Revoke(s)) => OnlyEnter({})
         /\ Wait(t) \/ Reserve(t) \/ Provisioned(t) => OnlyEnter({})
         /\ Ask(t) => OnlyEnter({t})
         /\ ProvisionFails(t) \/ Release(t) => OnlyEnter({}) /\ place'[t] = "out" /\ place[t] # "out"
<1> DEFINE moved == Moved(t, "out")
<1>1. Callers \subseteq Threads
  BY EvaluationAssumption
<1>2. UNCHANGED poolVars => OnlyEnter({})
  BY DEF poolVars, OnlyEnter
<1>3. Close => OnlyEnter({})
  BY <1>1 DEF Close, OnlyEnter, Waiting
<1>4. ASSUME NEW s \in Sandboxes, Revoke(s) PROVE OnlyEnter({})
  BY <1>1, <1>4, NotifyMoves DEF Revoke, OnlyEnter, PoolTypeOK
<1>5. Wait(t) \/ Reserve(t) \/ Provisioned(t) => OnlyEnter({})
  BY <1>1 DEF Wait, Reserve, Provisioned, Moved, OnlyEnter, PoolTypeOK
<1>6. Ask(t) => OnlyEnter({t})
  BY <1>1 DEF Ask, Moved, OnlyEnter, PoolTypeOK
<1>7. ASSUME ProvisionFails(t) \/ Release(t)
      PROVE  OnlyEnter({}) /\ place'[t] = "out" /\ place[t] # "out"
  <2>1. /\ moved \in [Threads -> {"out", "asking", "waiting", "woken", "provisioning", "using"}]
        /\ place[t] \in {"provisioning", "using"}
        /\ moved[t] = "out" /\ \A u \in Threads \ {t} : moved[u] = place[u]
    BY <1>7 DEF PoolTypeOK, Moved, ProvisionFails, Release
  <2>2. Notify(moved) \/ place' = moved
    BY <1>7 DEF ProvisionFails, Release, Tell
  <2> HIDE DEF moved
  <2>3. \A u \in Threads : \/ place'[u] = moved[u]
                           \/ place[u] = "waiting" /\ place'[u] = "woken"
    <3>1. CASE Notify(moved)
      BY <2>1, <3>1, NotifyMoves
    <3>2. CASE place' = moved
      BY <3>2
    <3> QED
      BY <2>2, <3>1, <3>2
  <2> QED
    BY <1>1, <2>1, <2>3 DEF OnlyEnter
<1> QED
  BY <1>2, <1>3, <1>4, <1>5, <1>6, <1>7

LEMMA NextIsCacheStep ==
  ASSUME PoolTypeOK, [Next]_vars
  PROVE  CacheStep
<1>0. Callers \subseteq Threads /\ Workers \subseteq Threads
  BY EvaluationAssumption
<1>1. CASE UNCHANGED vars
  <2>1. UNCHANGED poolVars /\ UNCHANGED cacheVars
    BY <1>1 DEF vars
  <2> QED
    BY <2>1 DEF CacheStep, OnlyEnter, poolVars
<1>2. ASSUME NEW t \in Workers, Rollout(t) PROVE CacheStep
  <2>1. Ask(t) /\ UNCHANGED cacheVars /\ (t \in Callers => stage[t] = "out") /\ OnlyEnter({t})
    BY <1>0, <1>2, PoolEnters DEF Rollout, Idle
  <2>2. CASE t \in Callers
    BY <2>1, <2>2 DEF CacheStep
  <2>3. CASE t \notin Callers
    BY <2>1, <2>3 DEF CacheStep, OnlyEnter
  <2> QED
    BY <2>2, <2>3
<1>3. ASSUME NEW t \in Callers, NEW k \in Keys, Evaluate(t, k) PROVE CacheStep
  BY <1>3 DEF Evaluate, Idle, CacheStep, OnlyEnter, poolVars
<1>4. ASSUME NEW t \in Threads, SandboxFails(t) PROVE CacheStep
  <2>1. OnlyEnter({}) /\ place'[t] = "out" /\ place[t] # "out"
    BY <1>4, PoolEnters DEF SandboxFails
  <2>2. UNCHANGED cacheVars \/ (t \in Callers /\ MeasureFails(t))
    BY <1>4 DEF SandboxFails, Raised, Measuring
  <2> QED
    BY <2>1, <2>2 DEF CacheStep
<1>5. ASSUME NEW t \in Threads, RunEnds(t) PROVE CacheStep
  <2>1. OnlyEnter({}) /\ place'[t] = "out" /\ place[t] # "out"
    BY <1>5, PoolEnters DEF RunEnds
  <2>2. UNCHANGED cacheVars \/ (t \in Callers /\ (MeasureFails(t) \/ Measures(t)))
    BY <1>5, <2>1 DEF RunEnds, Raised, Measuring, ContractError, Measures
  <2> QED
    BY <2>1, <2>2 DEF CacheStep
<1>6. ASSUME NEW t \in Threads, InPool(t) PROVE CacheStep
  BY <1>6, PoolEnters DEF InPool, CacheStep
<1>7. ASSUME NEW t \in Callers, Attempt(t) PROVE CacheStep
  <2>1. Ask(t) /\ BeginsAttempt(t)
    BY <1>7 DEF Attempt, Measuring, BeginsAttempt
  <2> QED
    BY <1>0, <2>1, PoolEnters DEF CacheStep
<1>8. ASSUME NEW t \in Callers, InCache(t) PROVE CacheStep
  BY <1>8 DEF InCache, InFlight, CacheStep, OnlyEnter, poolVars
<1>9. CASE Reclaim
  BY <1>9, <1>0, PoolEnters DEF Reclaim, CacheStep, OnlyEnter, Close
<1>10. CASE Breaks \/ Invalidate
  BY <1>10 DEF Breaks, Invalidate, CacheStep, OnlyEnter, poolVars
<1> QED
  BY <1>1, <1>2, <1>3, <1>4, <1>5, <1>6, <1>7, <1>8, <1>9, <1>10 DEF Next, Moves

\* The stages of a thread whose flight has not landed.
Flying == {"reading", "measuring", "writing", "storing", "failing"}

\* A flight and its thread know each other, and what flies is not in the table.
FlightsMatch ==
  /\ \A t \in Callers : stage[t] \in Flying => asked[t] \in Keys /\ flights[asked[t]] = t
  /\ \A k \in Keys : flights[k] # Nothing =>
        stage[flights[k]] \in Flying /\ asked[flights[k]] = k /\ values[k] = Nothing
  /\ \A t \in Callers : waitsFor[t] # Nothing => stage[t] = "joined"

\* What a flight is going to land is as new as its key asks for; a measurement that is at the pool
\* knows the contract its attempt began under.
Fresh(t) == answer[t] \in Contracts /\ answer[t] >= clean[asked[t]]

AnswersFit ==
  /\ \A t \in Callers : stage[t] \in {"writing", "storing"} => Fresh(t)
  /\ \A t \in Callers : stage[t] \in {"failing", "announcing"} => answer[t] # Nothing
  /\ \A t \in Callers : place[t] # "out" =>
        stage[t] \in {"out", "measuring"} /\ (stage[t] = "measuring" => Fresh(t))

\* A key is measured again only after what was measured is dropped, and is asked to be clean only
\* where no flight can still read what is doomed.
CountFits ==
  \A k \in Keys : measured[k] # 0 =>
     \/ values[k] # Nothing
     \/ flights[k] # Nothing /\ stage[flights[k]] \in {"writing", "storing"}

CleanFits ==
  \A k \in Keys :
     /\ clean[k] <= contract
     /\ flights[k] # Nothing /\ k \in doomed => clean[k] = 0

CacheInv ==
  /\ CacheTypeOK /\ FlightsMatch /\ AnswersFit
  /\ MeasuredOnce /\ CountFits /\ CleanFits /\ NothingOldKept

LEMMA CacheInitInv == CacheInit /\ PoolInit => CacheInv
<1> SUFFICES ASSUME CacheInit, PoolInit PROVE CacheInv
  OBVIOUS
<1>1. CacheTypeOK
  <2>1. Nothing \in Values /\ 0 \in Contracts /\ "out" \in Stages
    BY CacheAssumption DEF Values, Contracts, Stages
  <2> QED
    BY <2>1 DEF CacheInit, CacheTypeOK
<1>2. FlightsMatch /\ CountFits /\ CleanFits /\ MeasuredOnce /\ NothingOldKept
  BY DEF CacheInit, FlightsMatch, Flying, CountFits, CleanFits, MeasuredOnce, NothingOldKept
<1>3. AnswersFit
  BY EvaluationAssumption DEF CacheInit, PoolInit, AnswersFit
<1> QED
  BY <1>1, <1>2, <1>3 DEF CacheInv

LEMMA HitKeeps ==
  ASSUME CacheInv, NEW t \in Callers, NEW k \in Keys, OnlyEnter({}), place[t] = "out", Hit(t, k)
  PROVE  CacheInv'
<1>1. CacheTypeOK'
  BY CacheAssumption DEF CacheInv, Hit, At, AsksFor, dropVars, CacheTypeOK, Values, Stages, Contracts
<1>2. FlightsMatch'
  BY CacheAssumption DEF CacheInv, Hit, At, AsksFor, dropVars, CacheTypeOK, Values, Stages, Contracts, FlightsMatch, Flying
<1>3. AnswersFit'
  BY CacheAssumption DEF CacheInv, Hit, At, AsksFor, dropVars, CacheTypeOK, Values, Stages, Contracts, FlightsMatch, Flying, AnswersFit, Fresh, OnlyEnter, NothingOldKept, CleanFits
<1>4. MeasuredOnce' /\ CountFits'
  BY CacheAssumption DEF CacheInv, Hit, At, AsksFor, dropVars, CacheTypeOK, Values, Stages, Contracts, FlightsMatch, Flying, AnswersFit, Fresh, MeasuredOnce, CountFits
<1>5. CleanFits'
  BY CacheAssumption DEF CacheInv, Hit, At, AsksFor, dropVars, CacheTypeOK, Values, Stages, Contracts, FlightsMatch, Flying, CleanFits
<1>6. NothingOldKept'
  BY CacheAssumption DEF CacheInv, Hit, At, AsksFor, dropVars, CacheTypeOK, Values, Stages, Contracts, FlightsMatch, Flying, AnswersFit, Fresh, CleanFits, NothingOldKept
<1> QED
  BY <1>1, <1>2, <1>3, <1>4, <1>5, <1>6 DEF CacheInv

LEMMA JoinKeeps ==
  ASSUME CacheInv, NEW t \in Callers, NEW k \in Keys, OnlyEnter({}), place[t] = "out", Join(t, k)
  PROVE  CacheInv'
<1>1. CacheTypeOK'
  BY CacheAssumption DEF CacheInv, Join, At, AsksFor, dropVars, CacheTypeOK, Values, Stages, Contracts
<1>2. FlightsMatch'
  BY CacheAssumption DEF CacheInv, Join, At, AsksFor, dropVars, CacheTypeOK, Values, Stages, Contracts, FlightsMatch, Flying
<1>3. AnswersFit'
  BY CacheAssumption DEF CacheInv, Join, At, AsksFor, dropVars, CacheTypeOK, Values, Stages, Contracts, FlightsMatch, Flying, AnswersFit, Fresh, OnlyEnter, NothingOldKept, CleanFits
<1>4. MeasuredOnce' /\ CountFits'
  BY CacheAssumption DEF CacheInv, Join, At, AsksFor, dropVars, CacheTypeOK, Values, Stages, Contracts, FlightsMatch, Flying, AnswersFit, Fresh, MeasuredOnce, CountFits
<1>5. CleanFits'
  BY CacheAssumption DEF CacheInv, Join, At, AsksFor, dropVars, CacheTypeOK, Values, Stages, Contracts, FlightsMatch, Flying, CleanFits
<1>6. NothingOldKept'
  BY CacheAssumption DEF CacheInv, Join, At, AsksFor, dropVars, CacheTypeOK, Values, Stages, Contracts, FlightsMatch, Flying, AnswersFit, Fresh, CleanFits, NothingOldKept
<1> QED
  BY <1>1, <1>2, <1>3, <1>4, <1>5, <1>6 DEF CacheInv

LEMMA MissKeeps ==
  ASSUME CacheInv, NEW t \in Callers, NEW k \in Keys, OnlyEnter({}), place[t] = "out", Miss(t, k)
  PROVE  CacheInv'
<1>1. CacheTypeOK'
  BY CacheAssumption DEF CacheInv, Miss, At, AsksFor, dropVars, CacheTypeOK, Values, Stages, Contracts
<1>2. FlightsMatch'
  BY CacheAssumption DEF CacheInv, Miss, At, AsksFor, dropVars, CacheTypeOK, Values, Stages, Contracts, FlightsMatch, Flying
<1>3. AnswersFit'
  BY CacheAssumption DEF CacheInv, Miss, At, AsksFor, dropVars, CacheTypeOK, Values, Stages, Contracts, FlightsMatch, Flying, AnswersFit, Fresh, OnlyEnter, NothingOldKept, CleanFits
<1>4. MeasuredOnce' /\ CountFits'
  BY CacheAssumption DEF CacheInv, Miss, At, AsksFor, dropVars, CacheTypeOK, Values, Stages, Contracts, FlightsMatch, Flying, AnswersFit, Fresh, MeasuredOnce, CountFits
<1>5. CleanFits'
  BY CacheAssumption DEF CacheInv, Miss, At, AsksFor, dropVars, CacheTypeOK, Values, Stages, Contracts, FlightsMatch, Flying, CleanFits
<1>6. NothingOldKept'
  BY CacheAssumption DEF CacheInv, Miss, At, AsksFor, dropVars, CacheTypeOK, Values, Stages, Contracts, FlightsMatch, Flying, AnswersFit, Fresh, CleanFits, NothingOldKept
<1> QED
  BY <1>1, <1>2, <1>3, <1>4, <1>5, <1>6 DEF CacheInv

LEMMA ReadFileKeeps ==
  ASSUME CacheInv, NEW t \in Callers, OnlyEnter({}), ReadFile(t)
  PROVE  CacheInv'
<1>1. CacheTypeOK'
  BY CacheAssumption DEF CacheInv, ReadFile, At, dropVars, CacheTypeOK, Values, Stages, Contracts, FlightsMatch, Flying, AnswersFit, Fresh
<1>2. FlightsMatch'
  BY CacheAssumption DEF CacheInv, ReadFile, At, dropVars, CacheTypeOK, Values, Stages, Contracts, FlightsMatch, Flying
<1>3. AnswersFit'
  BY CacheAssumption DEF CacheInv, ReadFile, At, dropVars, CacheTypeOK, Values, Stages, Contracts, FlightsMatch, Flying, AnswersFit, Fresh, OnlyEnter, NothingOldKept, CleanFits
<1>4. MeasuredOnce' /\ CountFits'
  BY CacheAssumption DEF CacheInv, ReadFile, At, dropVars, CacheTypeOK, Values, Stages, Contracts, FlightsMatch, Flying, AnswersFit, Fresh, MeasuredOnce, CountFits
<1>5. CleanFits'
  BY CacheAssumption DEF CacheInv, ReadFile, At, dropVars, CacheTypeOK, Values, Stages, Contracts, FlightsMatch, Flying, CleanFits
<1>6. NothingOldKept'
  BY CacheAssumption DEF CacheInv, ReadFile, At, dropVars, CacheTypeOK, Values, Stages, Contracts, FlightsMatch, Flying, AnswersFit, Fresh, CleanFits, NothingOldKept
<1> QED
  BY <1>1, <1>2, <1>3, <1>4, <1>5, <1>6 DEF CacheInv

LEMMA BeginsAttemptKeeps ==
  ASSUME CacheInv, NEW t \in Callers, OnlyEnter({t}), BeginsAttempt(t)
  PROVE  CacheInv'
<1>1. CacheTypeOK'
  BY CacheAssumption DEF CacheInv, BeginsAttempt, dropVars, CacheTypeOK, Values, Stages, Contracts
<1>2. FlightsMatch'
  BY CacheAssumption DEF CacheInv, BeginsAttempt, dropVars, CacheTypeOK, Values, Stages, Contracts, FlightsMatch, Flying
<1>3. AnswersFit'
  BY CacheAssumption DEF CacheInv, BeginsAttempt, dropVars, CacheTypeOK, Values, Stages, Contracts, FlightsMatch, Flying, AnswersFit, Fresh, OnlyEnter, NothingOldKept, CleanFits
<1>4. MeasuredOnce' /\ CountFits'
  BY CacheAssumption DEF CacheInv, BeginsAttempt, dropVars, CacheTypeOK, Values, Stages, Contracts, FlightsMatch, Flying, AnswersFit, Fresh, MeasuredOnce, CountFits
<1>5. CleanFits'
  BY CacheAssumption DEF CacheInv, BeginsAttempt, dropVars, CacheTypeOK, Values, Stages, Contracts, FlightsMatch, Flying, CleanFits
<1>6. NothingOldKept'
  BY CacheAssumption DEF CacheInv, BeginsAttempt, dropVars, CacheTypeOK, Values, Stages, Contracts, FlightsMatch, Flying, AnswersFit, Fresh, CleanFits, NothingOldKept
<1> QED
  BY <1>1, <1>2, <1>3, <1>4, <1>5, <1>6 DEF CacheInv

LEMMA MeasuresKeeps ==
  ASSUME CacheInv, NEW t \in Callers, OnlyEnter({}), place'[t] = "out", Measures(t)
  PROVE  CacheInv'
<1>1. CacheTypeOK'
  BY CacheAssumption DEF CacheInv, Measures, Measured, At, dropVars, CacheTypeOK, Values, Stages, Contracts, FlightsMatch, Flying, AnswersFit, Fresh
<1>2. FlightsMatch'
  BY CacheAssumption DEF CacheInv, Measures, Measured, At, dropVars, CacheTypeOK, Values, Stages, Contracts, FlightsMatch, Flying
<1>3. AnswersFit'
  BY CacheAssumption DEF CacheInv, Measures, Measured, At, dropVars, CacheTypeOK, Values, Stages, Contracts, FlightsMatch, Flying, AnswersFit, Fresh, OnlyEnter, NothingOldKept, CleanFits
<1>4. MeasuredOnce' /\ CountFits'
  BY CacheAssumption DEF CacheInv, Measures, Measured, At, dropVars, CacheTypeOK, Values, Stages, Contracts, FlightsMatch, Flying, AnswersFit, Fresh, MeasuredOnce, CountFits
<1>5. CleanFits'
  BY CacheAssumption DEF CacheInv, Measures, Measured, At, dropVars, CacheTypeOK, Values, Stages, Contracts, FlightsMatch, Flying, CleanFits
<1>6. NothingOldKept'
  BY CacheAssumption DEF CacheInv, Measures, Measured, At, dropVars, CacheTypeOK, Values, Stages, Contracts, FlightsMatch, Flying, AnswersFit, Fresh, CleanFits, NothingOldKept
<1> QED
  BY <1>1, <1>2, <1>3, <1>4, <1>5, <1>6 DEF CacheInv

LEMMA MeasureFailsKeeps ==
  ASSUME CacheInv, NEW t \in Callers, OnlyEnter({}), place'[t] = "out", MeasureFails(t)
  PROVE  CacheInv'
<1>1. CacheTypeOK'
  BY CacheAssumption DEF CacheInv, MeasureFails, At, dropVars, CacheTypeOK, Values, Stages, Contracts
<1>2. FlightsMatch'
  BY CacheAssumption DEF CacheInv, MeasureFails, At, dropVars, CacheTypeOK, Values, Stages, Contracts, FlightsMatch, Flying
<1>3. AnswersFit'
  BY CacheAssumption DEF CacheInv, MeasureFails, At, dropVars, CacheTypeOK, Values, Stages, Contracts, FlightsMatch, Flying, AnswersFit, Fresh, OnlyEnter, NothingOldKept, CleanFits
<1>4. MeasuredOnce' /\ CountFits'
  BY CacheAssumption DEF CacheInv, MeasureFails, At, dropVars, CacheTypeOK, Values, Stages, Contracts, FlightsMatch, Flying, AnswersFit, Fresh, MeasuredOnce, CountFits
<1>5. CleanFits'
  BY CacheAssumption DEF CacheInv, MeasureFails, At, dropVars, CacheTypeOK, Values, Stages, Contracts, FlightsMatch, Flying, CleanFits
<1>6. NothingOldKept'
  BY CacheAssumption DEF CacheInv, MeasureFails, At, dropVars, CacheTypeOK, Values, Stages, Contracts, FlightsMatch, Flying, AnswersFit, Fresh, CleanFits, NothingOldKept
<1> QED
  BY <1>1, <1>2, <1>3, <1>4, <1>5, <1>6 DEF CacheInv

LEMMA WriteFileKeeps ==
  ASSUME CacheInv, NEW t \in Callers, OnlyEnter({}), WriteFile(t)
  PROVE  CacheInv'
<1>1. CacheTypeOK'
  BY CacheAssumption DEF CacheInv, WriteFile, At, dropVars, CacheTypeOK, Values, Stages, Contracts, FlightsMatch, Flying, AnswersFit, Fresh
<1>2. FlightsMatch'
  BY CacheAssumption DEF CacheInv, WriteFile, At, dropVars, CacheTypeOK, Values, Stages, Contracts, FlightsMatch, Flying
<1>3. AnswersFit'
  BY CacheAssumption DEF CacheInv, WriteFile, At, dropVars, CacheTypeOK, Values, Stages, Contracts, FlightsMatch, Flying, AnswersFit, Fresh, OnlyEnter, NothingOldKept, CleanFits
<1>4. MeasuredOnce' /\ CountFits'
  BY CacheAssumption DEF CacheInv, WriteFile, At, dropVars, CacheTypeOK, Values, Stages, Contracts, FlightsMatch, Flying, AnswersFit, Fresh, MeasuredOnce, CountFits
<1>5. CleanFits'
  BY CacheAssumption DEF CacheInv, WriteFile, At, dropVars, CacheTypeOK, Values, Stages, Contracts, FlightsMatch, Flying, CleanFits
<1>6. NothingOldKept'
  BY CacheAssumption DEF CacheInv, WriteFile, At, dropVars, CacheTypeOK, Values, Stages, Contracts, FlightsMatch, Flying, AnswersFit, Fresh, CleanFits, NothingOldKept
<1> QED
  BY <1>1, <1>2, <1>3, <1>4, <1>5, <1>6 DEF CacheInv

LEMMA StoreKeeps ==
  ASSUME CacheInv, NEW t \in Callers, OnlyEnter({}), Store(t)
  PROVE  CacheInv'
<1>1. CacheTypeOK'
  BY CacheAssumption DEF CacheInv, Store, Kept, Lands, At, dropVars, CacheTypeOK, Values, Stages, Contracts, FlightsMatch, Flying, AnswersFit, Fresh
<1>2. FlightsMatch'
  BY CacheAssumption DEF CacheInv, Store, Kept, Lands, At, dropVars, CacheTypeOK, Values, Stages, Contracts, FlightsMatch, Flying
<1>3. AnswersFit'
  BY CacheAssumption DEF CacheInv, Store, Kept, Lands, At, dropVars, CacheTypeOK, Values, Stages, Contracts, FlightsMatch, Flying, AnswersFit, Fresh, OnlyEnter, NothingOldKept, CleanFits
<1>4. MeasuredOnce' /\ CountFits'
  BY CacheAssumption DEF CacheInv, Store, Kept, Lands, At, dropVars, CacheTypeOK, Values, Stages, Contracts, FlightsMatch, Flying, AnswersFit, Fresh, MeasuredOnce, CountFits
<1>5. CleanFits'
  BY CacheAssumption DEF CacheInv, Store, Kept, Lands, At, dropVars, CacheTypeOK, Values, Stages, Contracts, FlightsMatch, Flying, CleanFits
<1>6. NothingOldKept'
  BY CacheAssumption DEF CacheInv, Store, Kept, Lands, At, dropVars, CacheTypeOK, Values, Stages, Contracts, FlightsMatch, Flying, AnswersFit, Fresh, CleanFits, NothingOldKept
<1> QED
  BY <1>1, <1>2, <1>3, <1>4, <1>5, <1>6 DEF CacheInv

LEMMA ForgetKeeps ==
  ASSUME CacheInv, NEW t \in Callers, OnlyEnter({}), Forget(t)
  PROVE  CacheInv'
<1>1. CacheTypeOK'
  BY CacheAssumption DEF CacheInv, Forget, Lands, At, dropVars, CacheTypeOK, Values, Stages, Contracts
<1>2. FlightsMatch'
  BY CacheAssumption DEF CacheInv, Forget, Lands, At, dropVars, CacheTypeOK, Values, Stages, Contracts, FlightsMatch, Flying
<1>3. AnswersFit'
  BY CacheAssumption DEF CacheInv, Forget, Lands, At, dropVars, CacheTypeOK, Values, Stages, Contracts, FlightsMatch, Flying, AnswersFit, Fresh, OnlyEnter, NothingOldKept, CleanFits
<1>4. MeasuredOnce' /\ CountFits'
  BY CacheAssumption DEF CacheInv, Forget, Lands, At, dropVars, CacheTypeOK, Values, Stages, Contracts, FlightsMatch, Flying, AnswersFit, Fresh, MeasuredOnce, CountFits
<1>5. CleanFits'
  BY CacheAssumption DEF CacheInv, Forget, Lands, At, dropVars, CacheTypeOK, Values, Stages, Contracts, FlightsMatch, Flying, CleanFits
<1>6. NothingOldKept'
  BY CacheAssumption DEF CacheInv, Forget, Lands, At, dropVars, CacheTypeOK, Values, Stages, Contracts, FlightsMatch, Flying, AnswersFit, Fresh, CleanFits, NothingOldKept
<1> QED
  BY <1>1, <1>2, <1>3, <1>4, <1>5, <1>6 DEF CacheInv

LEMMA AnnounceKeeps ==
  ASSUME CacheInv, NEW t \in Callers, OnlyEnter({}), Announce(t)
  PROVE  CacheInv'
<1>1. CacheTypeOK'
  BY CacheAssumption DEF CacheInv, Announce, Joiners, Outcome, dropVars, CacheTypeOK, Values, Stages, Contracts, FlightsMatch, Flying, AnswersFit, Fresh
<1>2. FlightsMatch'
  BY CacheAssumption DEF CacheInv, Announce, Joiners, Outcome, dropVars, CacheTypeOK, Values, Stages, Contracts, FlightsMatch, Flying
<1>3. AnswersFit'
  BY CacheAssumption DEF CacheInv, Announce, Joiners, Outcome, dropVars, CacheTypeOK, Values, Stages, Contracts, FlightsMatch, Flying, AnswersFit, Fresh, OnlyEnter, NothingOldKept, CleanFits
<1>4. MeasuredOnce' /\ CountFits'
  BY CacheAssumption DEF CacheInv, Announce, Joiners, Outcome, dropVars, CacheTypeOK, Values, Stages, Contracts, FlightsMatch, Flying, AnswersFit, Fresh, MeasuredOnce, CountFits
<1>5. CleanFits'
  BY CacheAssumption DEF CacheInv, Announce, Joiners, Outcome, dropVars, CacheTypeOK, Values, Stages, Contracts, FlightsMatch, Flying, CleanFits
<1>6. NothingOldKept'
  BY CacheAssumption DEF CacheInv, Announce, Joiners, Outcome, dropVars, CacheTypeOK, Values, Stages, Contracts, FlightsMatch, Flying, AnswersFit, Fresh, CleanFits, NothingOldKept
<1> QED
  BY <1>1, <1>2, <1>3, <1>4, <1>5, <1>6 DEF CacheInv

LEMMA ReturnKeeps ==
  ASSUME CacheInv, NEW t \in Callers, OnlyEnter({}), Return(t)
  PROVE  CacheInv'
<1>1. CacheTypeOK'
  BY CacheAssumption DEF CacheInv, Return, At, dropVars, CacheTypeOK, Values, Stages, Contracts
<1>2. FlightsMatch'
  BY CacheAssumption DEF CacheInv, Return, At, dropVars, CacheTypeOK, Values, Stages, Contracts, FlightsMatch, Flying
<1>3. AnswersFit'
  BY CacheAssumption DEF CacheInv, Return, At, dropVars, CacheTypeOK, Values, Stages, Contracts, FlightsMatch, Flying, AnswersFit, Fresh, OnlyEnter, NothingOldKept, CleanFits
<1>4. MeasuredOnce' /\ CountFits'
  BY CacheAssumption DEF CacheInv, Return, At, dropVars, CacheTypeOK, Values, Stages, Contracts, FlightsMatch, Flying, AnswersFit, Fresh, MeasuredOnce, CountFits
<1>5. CleanFits'
  BY CacheAssumption DEF CacheInv, Return, At, dropVars, CacheTypeOK, Values, Stages, Contracts, FlightsMatch, Flying, CleanFits
<1>6. NothingOldKept'
  BY CacheAssumption DEF CacheInv, Return, At, dropVars, CacheTypeOK, Values, Stages, Contracts, FlightsMatch, Flying, AnswersFit, Fresh, CleanFits, NothingOldKept
<1> QED
  BY <1>1, <1>2, <1>3, <1>4, <1>5, <1>6 DEF CacheInv

LEMMA ContractChangesKeeps ==
  ASSUME CacheInv, OnlyEnter({}), ContractChanges
  PROVE  CacheInv'
<1>1. CacheTypeOK'
  BY CacheAssumption DEF CacheInv, ContractChanges, threadVars, CacheTypeOK, Values, Stages, Contracts
<1>2. FlightsMatch'
  BY CacheAssumption DEF CacheInv, ContractChanges, threadVars, CacheTypeOK, Values, Stages, Contracts, FlightsMatch, Flying
<1>3. AnswersFit'
  BY CacheAssumption DEF CacheInv, ContractChanges, threadVars, CacheTypeOK, Values, Stages, Contracts, FlightsMatch, Flying, AnswersFit, Fresh, OnlyEnter, NothingOldKept, CleanFits
<1>4. MeasuredOnce' /\ CountFits'
  BY CacheAssumption DEF CacheInv, ContractChanges, threadVars, CacheTypeOK, Values, Stages, Contracts, FlightsMatch, Flying, AnswersFit, Fresh, MeasuredOnce, CountFits
<1>5. CleanFits'
  BY CacheAssumption DEF CacheInv, ContractChanges, threadVars, CacheTypeOK, Values, Stages, Contracts, FlightsMatch, Flying, CleanFits
<1>6. NothingOldKept'
  BY CacheAssumption DEF CacheInv, ContractChanges, threadVars, CacheTypeOK, Values, Stages, Contracts, FlightsMatch, Flying, AnswersFit, Fresh, CleanFits, NothingOldKept
<1> QED
  BY <1>1, <1>2, <1>3, <1>4, <1>5, <1>6 DEF CacheInv

LEMMA DropMemoryKeeps ==
  ASSUME CacheInv, OnlyEnter({}), DropMemory
  PROVE  CacheInv'
<1>1. CacheTypeOK'
  <2>1. values' \in [Keys -> Values] /\ clean' \in [Keys -> Contracts] /\ measured' \in [Keys -> Nat]
    BY CacheAssumption DEF CacheInv, DropMemory, CacheTypeOK, Values, Contracts
  <2>2. doomed' \subseteq Keys /\ changed' \in BOOLEAN
    BY DEF DropMemory, Dooms
  <2> QED
    BY <2>1, <2>2 DEF CacheInv, CacheTypeOK, DropMemory, threadVars, Values, Contracts
<1>2. FlightsMatch'
  BY CacheAssumption DEF CacheInv, DropMemory, Dooms, threadVars, CacheTypeOK, Values, Stages, Contracts, FlightsMatch, Flying
<1>3. AnswersFit'
  BY CacheAssumption DEF CacheInv, DropMemory, Dooms, threadVars, CacheTypeOK, Values, Stages, Contracts, FlightsMatch, Flying, AnswersFit, Fresh, OnlyEnter, NothingOldKept, CleanFits
<1>4. MeasuredOnce' /\ CountFits'
  BY CacheAssumption DEF CacheInv, DropMemory, Dooms, threadVars, CacheTypeOK, Values, Stages, Contracts, FlightsMatch, Flying, AnswersFit, Fresh, MeasuredOnce, CountFits
<1>5. CleanFits'
  BY CacheAssumption DEF CacheInv, DropMemory, Dooms, threadVars, CacheTypeOK, Values, Stages, Contracts, FlightsMatch, Flying, CleanFits
<1>6. NothingOldKept'
  BY CacheAssumption DEF CacheInv, DropMemory, Dooms, threadVars, CacheTypeOK, Values, Stages, Contracts, FlightsMatch, Flying, AnswersFit, Fresh, CleanFits, NothingOldKept
<1> QED
  BY <1>1, <1>2, <1>3, <1>4, <1>5, <1>6 DEF CacheInv

LEMMA DeleteFileKeeps ==
  ASSUME CacheInv, NEW k \in Keys, OnlyEnter({}), DeleteFile(k)
  PROVE  CacheInv'
<1>1. CacheTypeOK'
  BY CacheAssumption DEF CacheInv, DeleteFile, threadVars, CacheTypeOK, Values, Stages, Contracts
<1>2. FlightsMatch'
  BY CacheAssumption DEF CacheInv, DeleteFile, threadVars, CacheTypeOK, Values, Stages, Contracts, FlightsMatch, Flying
<1>3. AnswersFit'
  BY CacheAssumption DEF CacheInv, DeleteFile, threadVars, CacheTypeOK, Values, Stages, Contracts, FlightsMatch, Flying, AnswersFit, Fresh, OnlyEnter, NothingOldKept, CleanFits
<1>4. MeasuredOnce' /\ CountFits'
  BY CacheAssumption DEF CacheInv, DeleteFile, threadVars, CacheTypeOK, Values, Stages, Contracts, FlightsMatch, Flying, AnswersFit, Fresh, MeasuredOnce, CountFits
<1>5. CleanFits'
  BY CacheAssumption DEF CacheInv, DeleteFile, threadVars, CacheTypeOK, Values, Stages, Contracts, FlightsMatch, Flying, CleanFits
<1>6. NothingOldKept'
  BY CacheAssumption DEF CacheInv, DeleteFile, threadVars, CacheTypeOK, Values, Stages, Contracts, FlightsMatch, Flying, AnswersFit, Fresh, CleanFits, NothingOldKept
<1> QED
  BY <1>1, <1>2, <1>3, <1>4, <1>5, <1>6 DEF CacheInv

LEMMA CacheStands ==
  ASSUME CacheInv, UNCHANGED cacheVars,
         \/ OnlyEnter({})
         \/ \E t \in Callers : OnlyEnter({t}) /\ stage[t] = "out"
  PROVE  CacheInv'
<1>1. CacheTypeOK' /\ FlightsMatch' /\ MeasuredOnce' /\ CountFits' /\ CleanFits' /\ NothingOldKept'
  BY DEF CacheInv, cacheVars, CacheTypeOK, FlightsMatch, MeasuredOnce, CountFits, CleanFits,
         NothingOldKept
<1>2. AnswersFit'
  BY DEF CacheInv, cacheVars, AnswersFit, Fresh, OnlyEnter
<1> QED
  BY <1>1, <1>2 DEF CacheInv

LEMMA CacheStepKeeps == CacheInv /\ CacheStep => CacheInv'
<1> SUFFICES ASSUME CacheInv, CacheStep PROVE CacheInv'
  OBVIOUS
<1>1. CASE OnlyEnter({}) /\ (\/ UNCHANGED cacheVars \/ ContractChanges \/ DropMemory
                             \/ \E k \in Keys : DeleteFile(k))
  BY <1>1, CacheStands, ContractChangesKeeps, DropMemoryKeeps, DeleteFileKeeps
<1>2. CASE \E t \in Callers : OnlyEnter({t}) /\ stage[t] = "out" /\ UNCHANGED cacheVars
  BY <1>2, CacheStands
<1>3. CASE \E t \in Callers : OnlyEnter({t}) /\ BeginsAttempt(t)
  BY <1>3, BeginsAttemptKeeps
<1>4. CASE \E t \in Callers, k \in Keys :
             OnlyEnter({}) /\ place[t] = "out" /\ (Hit(t, k) \/ Join(t, k) \/ Miss(t, k))
  BY <1>4, HitKeeps, JoinKeeps, MissKeeps
<1>5. CASE \E t \in Callers : OnlyEnter({}) /\ InFlight(t)
  BY <1>5, ReadFileKeeps, WriteFileKeeps, StoreKeeps, ForgetKeeps, AnnounceKeeps, ReturnKeeps
     DEF InFlight
<1>6. CASE \E t \in Callers : /\ OnlyEnter({}) /\ place'[t] = "out"
                              /\ Measures(t) \/ MeasureFails(t)
  BY <1>6, MeasuresKeeps, MeasureFailsKeeps
<1> QED
  BY <1>1, <1>2, <1>3, <1>4, <1>5, <1>6 DEF CacheStep

LEMMA EvaluationInvariant == Spec => [](PoolInv /\ CacheInv)
<1>1. Init => CacheInv
  BY CacheInitInv DEF Init
<1>2. PoolInv /\ CacheInv /\ [Next]_vars => CacheInv'
  BY NextIsCacheStep, CacheStepKeeps DEF PoolInv
<1> QED
  BY <1>1, <1>2, PoolInvariant, PTL DEF Spec

\* A value is measured once until it is invalidated, however many threads ask for it, whatever
\* fails and whenever the contract changes (get_or_eval, _measure).
THEOREM MeasuredOnceHolds == Spec => []MeasuredOnce
BY EvaluationInvariant, PTL DEF CacheInv

\* After an invalidation neither memory nor the directory keeps a value of an older contract, but
\* for the keys of the flights it could not stop (invalidate).
THEOREM NothingOldKeptHolds == Spec => []NothingOldKept
BY EvaluationInvariant, PTL DEF CacheInv

CountersOK ==
  /\ tries \in [Callers -> 0..Attempts]
  /\ asks \in [Threads -> Nat]
  /\ reclaims \in 0..MaxEvents

LEMMA CountersKept ==
  ASSUME PoolInv, CacheInv, CountersOK, [Next]_vars
  PROVE  CountersOK'
<1> USE EvaluationAssumption DEF CountersOK
<1>1. CASE UNCHANGED vars
  BY <1>1 DEF vars
<1>2. ASSUME NEW t \in Workers, Rollout(t) PROVE CountersOK'
  BY <1>2 DEF Rollout, CountsAsk
<1>3. ASSUME NEW t \in Callers, NEW k \in Keys, Evaluate(t, k) PROVE CountersOK'
  BY <1>3 DEF Evaluate, CountsAsk
<1>4. ASSUME NEW t \in Threads, SandboxFails(t) \/ RunEnds(t) \/ InPool(t) PROVE CountersOK'
  BY <1>4 DEF SandboxFails, RunEnds, InPool
<1>5. ASSUME NEW t \in Callers, Attempt(t) PROVE CountersOK'
  BY <1>5 DEF Attempt
<1>6. ASSUME NEW t \in Callers, InCache(t) PROVE CountersOK'
  BY <1>6 DEF InCache
<1>7. CASE Reclaim
  <2>1. contract \in Nat
    BY CacheAssumption DEF CacheInv, CacheTypeOK, Contracts
  <2> QED
    BY <1>7, <2>1 DEF Reclaim, Eventful
<1>8. CASE Breaks \/ Invalidate
  BY <1>8 DEF Breaks, Invalidate
<1> QED
  BY <1>1, <1>2, <1>3, <1>4, <1>5, <1>6, <1>7, <1>8 DEF Next, Moves

\* Types, and a call that is about to return has something to return.
THEOREM TypeCorrect == Spec => []TypeOK
<1>1. Init => CountersOK
  BY EvaluationAssumption DEF Init, CountersOK
<1>2. PoolInv /\ CacheInv /\ CountersOK /\ [Next]_vars => CountersOK'
  BY CountersKept
<1>3. PoolInv /\ CacheInv /\ CountersOK => TypeOK
  BY DEF PoolInv, CacheInv, CountersOK, TypeOK
<1> QED
  BY <1>1, <1>2, <1>3, EvaluationInvariant, PTL DEF Spec
=============================================================================
