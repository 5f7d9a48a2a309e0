-------------------------- MODULE PopulationProofs --------------------------
(***************************************************************************)
(* Proofs about Population, for any contents, islands, workers and bounds, *)
(* and any number of processes, one after the other, on one ledger.        *)
(***************************************************************************)
EXTENDS Population, FiniteSetTheorems, WellFoundedInduction, TLAPS

InStep == {"choose", "switch", "measure", "save"}

\* A slot's branch is the island that had its place, or in a search without islands its number.
HasPlace(b, i) ==
    IF Islands > 0 THEN i <= Len(work.prev) => b = work.prev[i] ELSE b = i

\* How far the switch of the heads is: one fork for each slot between the first and this one.
Switching ==
    /\ pc \in InStep => Number < MaxRounds
    /\ pc = "switch" =>
          /\ Len(mem.archive) > 1 /\ work.slot <= Slots
          /\ work.slot = 1 => work.branch = Dev /\ mem.forks = <<>>
          /\ work.slot > 1 => Len(mem.forks) = work.slot - 2
          /\ \A i \in DOMAIN mem.forks : HasPlace(mem.forks[i], i)
          /\ work.branch # Dev => work.branch \in Live /\ HasPlace(work.branch, work.slot - 1)

Typed == TypeOK /\ Switching

(***************************************************************************)
(* References                                                              *)
(***************************************************************************)
\* An archive and the tips into it refer to nothing else.
Closed(archive, tip) ==
    /\ \A i, j \in DOMAIN archive : archive[i].id = archive[j].id => i = j
    /\ \A i \in DOMAIN archive :
          archive[i].parent = None \/ \E j \in 1 .. (i - 1) : archive[j].id = archive[i].parent
    /\ \A b \in Branches : tip[b] = None \/ \E i \in DOMAIN archive : archive[i].id = tip[b]

Referenced ==
    /\ Closed(mem.archive, mem.tip)
    /\ IsInjective(mem.forks) /\ Range(mem.forks) \subseteq Live
    /\ disk # None => Closed(disk.archive, disk.tip) /\ IsInjective(disk.forks)
    /\ pc = "switch" =>
          /\ IsInjective(work.prev)
          /\ work.branch # Dev => work.branch \notin Range(mem.forks)

(***************************************************************************)
(* The count of rounds, and patience                                       *)
(***************************************************************************)
Top(s) == Max({0} \cup {s[i].reward : i \in 1 .. Len(s)})
First(s) == Min({Len(s)} \cup {i \in 1 .. Len(s) : s[i].reward = Top(s)})

InOrder(s) == \A i, j \in 1 .. Len(s) : i < j => s[i].round < s[j].round

Counted ==
    /\ InOrder(observed)
    /\ pc # "down" => \A i \in 1 .. Len(observed) : observed[i].round <= Number
    /\ pc \in {"top", "choose", "switch", "measure"} =>
          \A i \in 1 .. Len(observed) : observed[i].round < Number
    /\ pc \in {"top"} \cup InStep =>
          mem.best = Top(observed) /\ mem.stalled = Len(observed) - First(observed)
    /\ disk # None =>
          /\ InOrder(disk.observed)
          /\ \A i \in 1 .. Len(disk.observed) : disk.observed[i].round <= disk.round
          /\ disk.best = Top(disk.observed)
          /\ disk.stalled = Len(disk.observed) - First(disk.observed)

(***************************************************************************)
(* What is published                                                       *)
(***************************************************************************)
Holds(archive, s) == \E i \in DOMAIN archive : archive[i].state = s

\* The archive of a process has what dev held when it came, and all of the checkpoint.
Gathered ==
    /\ pc \in {"top", "final"} /\ ~stepped => heads[Dev].state = start
    /\ stepped => Holds(mem.archive, start)
    /\ pc # "down" /\ disk # None =>
          \A i \in DOMAIN disk.archive : Holds(mem.archive, disk.archive[i].state)
    /\ pc \in InStep => stepped
    /\ pc \in {"discard", "ended"} /\ mem.archive # <<>> => heads[Dev].state = Best(mem.archive)

(***************************************************************************)
(* Lineage                                                                 *)
(***************************************************************************)
Derived(archive) ==
    \A i, j \in DOMAIN archive :
       archive[i].parent = archive[j].id => archive[i].from = archive[j].state

\* The candidate a branch descends from is the one s names.
Descends(archive, id, s) == \E i \in DOMAIN archive : archive[i].id = id /\ archive[i].state = s

Settled(archive, tip, b) == tip[b] = None \/ Descends(archive, tip[b], heads[b].state)

\* The next selection switches every branch that has a tip: it has a slot for each fork.
SlotLimit == IF Islands > 0 THEN Islands + 1 ELSE NWorkers
Fits(forks, archive) ==
    \A i \in DOMAIN forks :
       /\ i < Len(archive) /\ i < SlotLimit
       /\ Islands = 0 => forks[i] < Len(archive) /\ forks[i] < SlotLimit

Tipped(tip, forks) == \A b \in Live : tip[b] # None => b = Dev \/ b \in Range(forks)

Lone(archive, tip) == Len(archive) <= 1 => \A b \in Branches : tip[b] = None

\* A search between two selections.
AtRest(archive, tip, forks) ==
    /\ Tipped(tip, forks)
    /\ \A b \in Live : Settled(archive, tip, b)

\* What the checkpoint says, as long as the ledger is as it found it.
OnDisk ==
    disk # None =>
        /\ Lone(disk.archive, disk.tip) /\ Fits(disk.forks, disk.archive)
        /\ trusted => Derived(disk.archive)
        /\ trusted /\ clean => AtRest(disk.archive, disk.tip, disk.forks)

InMemory == Lone(mem.archive, mem.tip) /\ (trusted => Derived(mem.archive))

Resting ==
    pc \in {"top", "measure", "save"} =>
        /\ Fits(mem.forks, mem.archive)
        /\ trusted => AtRest(mem.archive, mem.tip, mem.forks)

\* A head that moved was made from the candidate its branch descends from.
Merged ==
    pc = "choose" =>
        /\ Fits(mem.forks, mem.archive)
        /\ trusted =>
              /\ Tipped(mem.tip, mem.forks)
              /\ \A b \in Live : \/ Settled(mem.archive, mem.tip, b)
                                 \/ Descends(mem.archive, mem.tip[b], heads[b].from)

\* What is still to be switched has its slot.
Switched ==
    pc = "switch" =>
        /\ Fits(work.prev, mem.archive)
        /\ trusted =>
              /\ \A b \in Live : mem.tip[b] # None =>
                    b \in {Dev, work.branch} \cup Range(work.prev) \cup Range(mem.forks)
              /\ work.slot > 1 => Settled(mem.archive, mem.tip, Dev)
              /\ \A b \in Range(mem.forks) : Settled(mem.archive, mem.tip, b)

Descended == OnDisk /\ InMemory /\ Resting /\ Merged /\ Switched

(***************************************************************************)
(* Induction and recursion over the natural numbers                        *)
(***************************************************************************)
Less == {pair \in Nat \X Nat : pair[1] < pair[2]}

LEMMA LessIsWellFounded == IsWellFoundedOn(Less, Nat)
BY NatLessThanWellFounded, Zenon DEF OpToRel, Less

LEMMA Smallest ==
  ASSUME NEW T \in SUBSET Nat, T # {}
  PROVE  \E x \in T : \A y \in T : x <= y
<1>1. PICK x \in T : \A y \in T : ~ (<<y, x>> \in Less)
  BY LessIsWellFounded, WFMin
<1>2. \A y \in T : x <= y
  <2> TAKE y \in T
  <2>1. ~(y < x)
    BY <1>1 DEF Less
  <2> QED
    BY <2>1
<1> QED
  BY <1>2

LEMMA Climb ==
  ASSUME NEW T \in SUBSET Nat, 0 \in T, \A n \in T : n + 1 \in T
  PROVE  T = Nat
<1> SUFFICES ASSUME Nat \ T # {} PROVE FALSE
  OBVIOUS
<1>1. PICK x \in Nat \ T : \A y \in Nat \ T : x <= y
  BY Smallest
<1>2. x # 0 /\ x - 1 \in Nat
  BY <1>1
<1>3. x - 1 \in T
  BY <1>1, <1>2
<1> QED
  BY <1>1, <1>2, <1>3

\* A function on 0..n may be defined by what it is at 0 and how it goes on.
Recurs(g, z, F, n, S) ==
    /\ g \in [0..n -> S] /\ g[0] = z
    /\ \A k \in 1..n : g[k] = F[<<k, g[k - 1]>>]

LEMMA Recursion ==
  ASSUME NEW S, NEW z \in S, NEW n \in Nat, NEW F, \A k \in Nat, x \in S : F[<<k, x>>] \in S
  PROVE  \E g : Recurs(g, z, F, n, S)
<1> USE DEF Recurs
<1> DEFINE T == {m \in Nat : \E g \in [0..m -> S] :
                               g[0] = z /\ \A k \in 1..m : g[k] = F[<<k, g[k - 1]>>]}
<1>1. 0 \in T
  <2> DEFINE g == [k \in 0..0 |-> z]
  <2>1. g \in [0..0 -> S] /\ g[0] = z
    OBVIOUS
  <2>2. \A k \in 1..0 : FALSE
    OBVIOUS
  <2> HIDE DEF g
  <2>3. g[0] = z /\ \A k \in 1..0 : g[k] = F[<<k, g[k - 1]>>]
    BY <2>1, <2>2
  <2> QED
    BY <2>1, <2>3
<1>2. ASSUME NEW m \in T PROVE m + 1 \in T
  <2>1. PICK h \in [0..m -> S] : h[0] = z /\ \A k \in 1..m : h[k] = F[<<k, h[k - 1]>>]
    OBVIOUS
  <2> DEFINE g == [k \in 0..(m + 1) |-> IF k <= m THEN h[k] ELSE F[<<k, h[m]>>]]
  <2>2. m \in Nat /\ m + 1 \in Nat /\ h[m] \in S /\ F[<<m + 1, h[m]>>] \in S
    OBVIOUS
  <2>3. ASSUME NEW k \in 0..(m + 1) PROVE g[k] \in S
    <3>1. CASE k <= m
      BY <2>2, <3>1
    <3>2. CASE k = m + 1
      BY <2>2, <3>2
    <3> QED
      BY <2>2, <3>1, <3>2
  <2>4. g \in [0..(m + 1) -> S] /\ g[0] = z
    BY <2>1, <2>2, <2>3
  <2>5. ASSUME NEW k \in 1..(m + 1) PROVE g[k] = F[<<k, g[k - 1]>>]
    <3>1. k \in 0..(m + 1) /\ k - 1 \in 0..(m + 1) /\ k - 1 \in 0..m /\ k - 1 <= m
      BY <2>2
    <3>2. g[k - 1] = h[k - 1]
      BY <3>1
    <3>3. CASE k <= m
      <4>1. k \in 1..m /\ g[k] = h[k]
        BY <2>2, <3>1, <3>3
      <4> QED
        BY <2>1, <3>2, <4>1
    <3>4. CASE k = m + 1
      <4>1. g[k] = F[<<k, h[m]>>] /\ k - 1 = m
        BY <2>2, <3>1, <3>4
      <4> QED
        BY <3>2, <4>1
    <3> QED
      BY <2>2, <3>3, <3>4
  <2> HIDE DEF g
  <2> QED
    BY <2>2, <2>4, <2>5
<1> HIDE DEF T
<1>3. T \subseteq Nat
  BY DEF T
<1>4. n \in T
  BY <1>1, <1>2, <1>3, Climb
<1> QED
  BY <1>4 DEF T

LEMMA MinIs ==
  ASSUME NEW S \in SUBSET Nat, S # {}
  PROVE  Min(S) \in S /\ \A x \in S : Min(S) <= x
BY Smallest DEF Min

LEMMA MaxIs ==
  ASSUME NEW S \in SUBSET Nat, S # {}, NEW m \in Nat, \A x \in S : x <= m
  PROVE  Max(S) \in S /\ \A x \in S : Max(S) >= x
<1> DEFINE U == {u \in Nat : \A x \in S : x <= u}
<1>1. PICK u \in U : \A v \in U : u <= v
  BY Smallest
<1>2. ASSUME u \notin S PROVE FALSE
  <2>1. PICK y \in S : TRUE
    OBVIOUS
  <2>2. \A x \in S : x <= u /\ x # u
    BY <1>1, <1>2
  <2>3. u - 1 \in U
    BY <2>1, <2>2
  <2> QED
    BY <1>1, <2>3
<1>3. u \in S /\ \A x \in S : u >= x
  BY <1>1, <1>2
<1> QED
  BY <1>3 DEF Max

\* The entries of a sequence have a bound.
LEMMA Bounded ==
  ASSUME NEW n \in Nat, NEW f \in [1..n -> Nat]
  PROVE  \E m \in Nat : \A i \in 1..n : f[i] <= m
<1> DEFINE T == {k \in Nat : \E m \in Nat : \A i \in 1..n : i <= k => f[i] <= m}
<1>1. 0 \in T
  BY Z3
<1>2. ASSUME NEW k \in T PROVE k + 1 \in T
  <2>1. PICK m \in Nat : \A i \in 1..n : i <= k => f[i] <= m
    OBVIOUS
  <2>2. CASE k + 1 \in 1..n
    <3> DEFINE u == m + f[k + 1]
    <3>1. k \in Nat /\ k + 1 \in Nat /\ f[k + 1] \in Nat /\ u \in Nat
      BY <2>2
    <3>2. ASSUME NEW i \in 1..n, i <= k + 1 PROVE f[i] <= u
      <4>1. CASE i <= k
        <5>1. f[i] <= m /\ f[i] \in Nat
          BY <2>1, <4>1
        <5> QED
          BY <3>1, <5>1
      <4>2. CASE i = k + 1
        BY <3>1, <4>2
      <4> QED
        BY <3>1, <3>2, <4>1, <4>2
    <3> HIDE DEF u
    <3> QED
      BY <3>1, <3>2
  <2>3. CASE k + 1 \notin 1..n
    <3>1. k + 1 \in Nat /\ \A i \in 1..n : i <= k + 1 => i <= k
      BY <2>3
    <3>2. \A i \in 1..n : i <= k + 1 => f[i] <= m
      BY <2>1, <3>1
    <3> QED
      BY <3>1, <3>2
  <2> QED
    BY <2>2, <2>3
<1> HIDE DEF T
<1>3. T \subseteq Nat
  BY DEF T
<1>4. n \in T
  BY <1>1, <1>2, <1>3, Climb
<1> QED
  BY <1>4 DEF T

(***************************************************************************)
(* The archive                                                             *)
(***************************************************************************)
LEMMA Basics ==
  /\ Contents \subseteq Nat /\ \A s \in Contents : s > 0
  /\ Seed \in Contents /\ Leftover \subseteq Contents \cup {None}
  /\ Islands \in Nat /\ NWorkers \in Nat /\ NWorkers > 0 /\ SlotLimit \in Nat /\ SlotLimit > 0
  /\ TopBranch \in Nat /\ Branches = 0..TopBranch /\ Dev = 0 /\ Dev \in Branches
  /\ Patience \in Nat /\ MaxRounds \in Nat /\ MaxRuns \in Nat /\ MaxMerges \in Nat /\ MaxFaults \in Nat
  /\ None \notin Nat /\ None \notin Contents /\ None \notin Numbers
<1>1. /\ Contents \subseteq Nat /\ \A s \in Contents : s > 0
      /\ Seed \in Contents /\ Leftover \subseteq Contents \cup {None}
  BY PopulationAssumption
<1>2. Islands \in Nat /\ NWorkers \in Nat /\ NWorkers > 0
  BY PopulationAssumption
<1>3. SlotLimit \in Nat /\ SlotLimit > 0 /\ TopBranch \in Nat
  BY <1>2 DEF SlotLimit, TopBranch
<1>4. Branches = 0..TopBranch /\ Dev = 0 /\ Dev \in Branches
  BY <1>3 DEF Branches, Dev
<1>5. Patience \in Nat /\ MaxRounds \in Nat /\ MaxRuns \in Nat /\ MaxMerges \in Nat /\ MaxFaults \in Nat
  BY PopulationAssumption
<1>6. None \notin Nat /\ None \notin Contents /\ None \notin Numbers
  BY <1>1, PopulationAssumption DEF Numbers
<1> QED
  BY <1>1, <1>2, <1>3, <1>4, <1>5, <1>6

LEMMA ArchiveParts ==
  ASSUME NEW a \in Seq(Candidates)
  PROVE  /\ Len(a) \in Nat /\ DOMAIN a = 1..Len(a)
         /\ \A i \in DOMAIN a : /\ a[i] \in Candidates /\ a[i].state \in Contents /\ a[i].id \in Numbers
                                /\ a[i].parent \in Numbers \cup {None}
                                /\ a[i].from \in Contents \cup {None}
<1>1. Len(a) \in Nat /\ DOMAIN a = 1..Len(a)
  OBVIOUS
<1>2. ASSUME NEW i \in DOMAIN a
      PROVE  /\ a[i] \in Candidates /\ a[i].state \in Contents /\ a[i].id \in Numbers
             /\ a[i].parent \in Numbers \cup {None}
             /\ a[i].from \in Contents \cup {None}
  <2>1. a[i] \in Candidates
    BY <1>1
  <2> QED
    BY <2>1 DEF Candidates
<1> QED
  BY <1>1, <1>2

LEMMA IdsMax ==
  ASSUME NEW a \in Seq(Candidates), a # <<>>
  PROVE  Max(Ids(a)) \in Nat /\ \A i \in DOMAIN a : a[i].id <= Max(Ids(a))
<1> DEFINE f == [i \in 1..Len(a) |-> a[i].id]
<1>1. Len(a) \in Nat /\ DOMAIN a = 1..Len(a) /\ \A i \in DOMAIN a : a[i].id \in Nat
  BY ArchiveParts DEF Numbers
<1>2. f \in [1..Len(a) -> Nat]
  BY <1>1
<1>3. PICK m \in Nat : \A i \in 1..Len(a) : f[i] <= m
  BY <1>1, <1>2, Bounded
<1>4. Ids(a) \in SUBSET Nat /\ \A x \in Ids(a) : x <= m
  BY <1>1, <1>3 DEF Ids
<1>5. Ids(a) # {}
  <2>1. 1 \in DOMAIN a
    BY <1>1
  <2> QED
    BY <2>1 DEF Ids
<1>6. Max(Ids(a)) \in Ids(a) /\ \A x \in Ids(a) : Max(Ids(a)) >= x
  BY <1>4, <1>5, MaxIs
<1>7. \A i \in DOMAIN a : a[i].id \in Ids(a)
  BY DEF Ids
<1> QED
  BY <1>1, <1>4, <1>6, <1>7

\* A node id is a new one.
LEMMA NodeIdIsNew ==
  ASSUME NEW a \in Seq(Candidates), NEW v \in Numbers
  PROVE  NodeId(a, v) \in Numbers /\ \A i \in DOMAIN a : a[i].id # NodeId(a, v)
<1>1. CASE v \in Ids(a)
  <2>1. a # <<>>
    BY <1>1 DEF Ids
  <2>2. Max(Ids(a)) \in Nat /\ \A i \in DOMAIN a : a[i].id <= Max(Ids(a))
    BY <2>1, IdsMax
  <2>3. NodeId(a, v) = Max(Ids(a)) + 1
    BY <1>1 DEF NodeId
  <2>4. \A i \in DOMAIN a : a[i].id \in Nat
    BY ArchiveParts DEF Numbers
  <2> QED
    BY <2>2, <2>3, <2>4 DEF Numbers
<1>2. CASE v \notin Ids(a)
  BY <1>2 DEF NodeId, Ids
<1> QED
  BY <1>1, <1>2

\* What Admit appends.
Newcomer(a, b) == [state |-> heads[b].state, id |-> NodeId(a, heads[b].ver),
                   parent |-> mem.tip[b], from |-> heads[b].from]

Joins(a, new, t) ==
  /\ t \in Seq(Candidates) /\ Len(t) = Len(a) + 1 /\ t[Len(t)] = new
  /\ \A i \in DOMAIN a : t[i] = a[i]

LEMMA AdmitIs ==
  ASSUME TypeOK, NEW a \in Seq(Candidates), NEW b \in Live
  PROVE  /\ Newcomer(a, b) \in Candidates
         /\ \/ Admit(a, b) = a /\ Holds(a, heads[b].state)
            \/ ~Holds(a, heads[b].state) /\ Joins(a, Newcomer(a, b), Admit(a, b))
<1>1. b \in Branches /\ heads[b] \in HeadStates
  BY DEF Live, TypeOK
<1>2. heads[b].state \in Contents /\ heads[b].ver \in Numbers /\ heads[b].from \in Contents \cup {None}
  BY <1>1 DEF HeadStates
<1>3. mem.tip[b] \in Numbers \cup {None}
  BY <1>1 DEF TypeOK, Memory
<1>4. NodeId(a, heads[b].ver) \in Numbers
  BY <1>2, NodeIdIsNew
<1>5. Newcomer(a, b) \in Candidates
  BY <1>2, <1>3, <1>4 DEF Newcomer, Candidates
<1>6. CASE Holds(a, heads[b].state)
  <2>1. Admit(a, b) = a
    BY <1>6 DEF Admit, Holds
  <2> QED
    BY <1>5, <1>6, <2>1
<1>7. CASE ~Holds(a, heads[b].state)
  <2> DEFINE new == Newcomer(a, b)
  <2>1. Admit(a, b) = Append(a, new)
    BY <1>7 DEF Admit, Holds, Newcomer
  <2>2. new \in Candidates
    BY <1>5
  <2> HIDE DEF new
  <2>3. Joins(a, new, Append(a, new))
    BY <2>2 DEF Joins
  <2> QED
    BY <1>5, <1>7, <2>1, <2>3 DEF new
<1> QED
  BY <1>6, <1>7

\* What each Admit preserves, all of them do.
LEMMA AdmitAllIn ==
  ASSUME NEW S, NEW archive \in S, \A a \in S, b \in Live : Admit(a, b) \in S
  PROVE  AdmitAll(archive) \in S
<1> DEFINE n == TopBranch + 1
           Is(f) == f = [k \in 0..n |-> IF k = 0 THEN archive
                                        ELSE IF k - 1 \in Live THEN Admit(f[k - 1], k - 1)
                                        ELSE f[k - 1]]
           F == [p \in Nat \X S |-> IF p[1] - 1 \in Live THEN Admit(p[2], p[1] - 1) ELSE p[2]]
           f == CHOOSE g : Is(g)
<1>1. n \in Nat
  BY Basics
<1>2. F \in [Nat \X S -> S]
  OBVIOUS
<1>3. PICK g : Recurs(g, archive, F, n, S)
  <2>1. \A k \in Nat, x \in S : F[<<k, x>>] \in S
    BY <1>2
  <2> HIDE DEF F, n
  <2> QED
    BY <1>1, <2>1, Recursion
<1>4. ASSUME NEW k \in 1..n
      PROVE  g[k] = IF k - 1 \in Live THEN Admit(g[k - 1], k - 1) ELSE g[k - 1]
  <2> HIDE DEF n
  <2>1. k \in Nat /\ k - 1 \in 0..n
    BY <1>1
  <2>2. g[k - 1] \in S /\ <<k, g[k - 1]>> \in Nat \X S
    BY <1>3, <2>1 DEF Recurs
  <2>3. F[<<k, g[k - 1]>>] = IF k - 1 \in Live THEN Admit(g[k - 1], k - 1) ELSE g[k - 1]
    BY <2>2
  <2> HIDE DEF F
  <2> QED
    BY <1>3, <2>3 DEF Recurs
<1>5. Is(g)
  <2> HIDE DEF n, F
  <2>1. \A k \in 0..n : g[k] = IF k = 0 THEN archive
                               ELSE IF k - 1 \in Live THEN Admit(g[k - 1], k - 1) ELSE g[k - 1]
    <3> TAKE k \in 0..n
    <3>1. k = 0 \/ k \in 1..n
      BY <1>1
    <3> QED
      BY <1>3, <1>4, <3>1 DEF Recurs
  <2>2. g = [k \in 0..n |-> g[k]]
    BY <1>3 DEF Recurs
  <2> QED
    BY <2>1, <2>2
<1>6. Is(f)
  <2> HIDE DEF Is
  <2> QED
    BY <1>5
<1>7. AdmitAll(archive) = f[n]
  BY DEF AdmitAll
<1> HIDE DEF f, F
<1> DEFINE T == {k \in Nat : k <= n => f[k] \in S}
<1>8. 0 \in T
  <2> HIDE DEF n
  <2>1. 0 \in 0..n
    BY <1>1
  <2> QED
    BY <1>6, <2>1
<1>9. ASSUME NEW k \in T PROVE k + 1 \in T
  <2>1. ASSUME k + 1 <= n PROVE f[k + 1] \in S
    <3> HIDE DEF n
    <3>1. k \in Nat /\ k <= n /\ k + 1 \in 0..n /\ k + 1 # 0 /\ (k + 1) - 1 = k
      BY <1>1, <2>1
    <3>2. f[k + 1] = IF k \in Live THEN Admit(f[k], k) ELSE f[k]
      BY <1>6, <3>1
    <3>3. f[k] \in S
      BY <3>1
    <3> QED
      BY <3>2, <3>3
  <2> QED
    BY <2>1
<1> HIDE DEF T
<1>10. T \subseteq Nat
  BY DEF T
<1>11. n \in T
  BY <1>1, <1>8, <1>9, <1>10, Climb
<1>12. f[n] \in S
  BY <1>1, <1>11 DEF T
<1> QED
  BY <1>7, <1>12

(***************************************************************************)
(* The islands that live                                                   *)
(***************************************************************************)
\* s is what is kept of the first n forks.
KeptOf(s, forks, n) ==
  /\ s \in Forks /\ Len(s) <= n
  /\ \A j \in DOMAIN s : s[j] \in Live /\ \E i \in 1..n : i >= j /\ s[j] = forks[i]
  /\ \A i \in 1..n : forks[i] \in Live => \E j \in DOMAIN s : s[j] = forks[i]
  /\ IsInjective(forks) => IsInjective(s)

LEMMA KeepNext ==
  ASSUME NEW forks \in Forks, NEW n \in Nat, n + 1 <= Len(forks), NEW s, KeptOf(s, forks, n)
  PROVE  KeptOf(IF forks[n + 1] \in Live THEN Append(s, forks[n + 1]) ELSE s, forks, n + 1)
<1> USE DEF KeptOf
<1>1. /\ s \in Seq(Branches \ {Dev}) /\ Len(s) \in Nat /\ Len(s) <= n /\ DOMAIN s = 1..Len(s)
      /\ n + 1 \in DOMAIN forks /\ forks[n + 1] \in Branches \ {Dev}
  BY DEF Forks
<1>2. \A i \in 1..(n + 1) : i \in 1..n \/ i = n + 1
  OBVIOUS
<1>3. CASE forks[n + 1] \notin Live
  <2>1. \A j \in DOMAIN s : \E i \in 1..(n + 1) : i >= j /\ s[j] = forks[i]
    OBVIOUS
  <2> QED
    BY <1>1, <1>2, <1>3, <2>1
<1>4. CASE forks[n + 1] \in Live
  <2> DEFINE e == forks[n + 1]
             t == Append(s, e)
  <2>1. e \in Live /\ e \in Branches \ {Dev}
    BY <1>1, <1>4
  <2> HIDE DEF e
  <2>2. /\ t \in Forks /\ Len(t) = Len(s) + 1 /\ DOMAIN t = 1..(Len(s) + 1) /\ t[Len(s) + 1] = e
        /\ \A j \in DOMAIN s : t[j] = s[j]
        /\ \A j \in DOMAIN t : j \in DOMAIN s \/ j = Len(s) + 1
    BY <1>1, <2>1 DEF Forks
  <2> HIDE DEF t
  <2>3. ASSUME NEW j \in DOMAIN t
        PROVE  t[j] \in Live /\ \E i \in 1..(n + 1) : i >= j /\ t[j] = forks[i]
    <3>1. CASE j \in DOMAIN s
      <4>1. s[j] \in Live /\ \E i \in 1..n : i >= j /\ s[j] = forks[i]
        BY <3>1
      <4> QED
        BY <2>2, <3>1, <4>1
    <3>2. CASE j = Len(s) + 1
      <4>1. t[j] = forks[n + 1] /\ n + 1 >= j /\ n + 1 \in 1..(n + 1)
        BY <1>1, <2>2, <3>2 DEF e
      <4> QED
        BY <1>4, <4>1
    <3> QED
      BY <2>2, <3>1, <3>2
  <2>4. ASSUME NEW i \in 1..(n + 1), forks[i] \in Live PROVE \E j \in DOMAIN t : t[j] = forks[i]
    <3>1. CASE i \in 1..n
      <4>1. PICK j \in DOMAIN s : s[j] = forks[i]
        BY <2>4, <3>1
      <4> QED
        BY <1>1, <2>2, <4>1
    <3>2. CASE i = n + 1
      BY <1>1, <2>2, <3>2 DEF e
    <3> QED
      BY <1>2, <3>1, <3>2
  <2>5. ASSUME IsInjective(forks) PROVE IsInjective(t)
    <3>1. \A j \in DOMAIN s : s[j] # e
      <4> SUFFICES ASSUME NEW j \in DOMAIN s, s[j] = e PROVE FALSE
        OBVIOUS
      <4>1. PICK i \in 1..n : s[j] = forks[i]
        OBVIOUS
      <4>2. i \in DOMAIN forks /\ n + 1 \in DOMAIN forks /\ i # n + 1
        BY <1>1 DEF Forks
      <4> QED
        BY <2>5, <4>1, <4>2 DEF e, IsInjective
    <3>2. IsInjective(s)
      BY <2>5
    <3> QED
      BY <2>2, <3>1, <3>2 DEF IsInjective
  <2>6. Len(t) <= n + 1
    BY <1>1, <2>2
  <2>7. KeptOf(t, forks, n + 1)
    BY <2>2, <2>3, <2>4, <2>5, <2>6
  <2> QED
    BY <1>4, <2>7 DEF t, e
<1> QED
  BY <1>3, <1>4

LEMMA LiveForksIs ==
  ASSUME NEW forks \in Forks
  PROVE  KeptOf(LiveForks(forks), forks, Len(forks))
<1> DEFINE n == Len(forks)
           S == Seq(Branches \ {Dev})
           Is(f) == f = [k \in 0..n |-> IF k = 0 THEN <<>>
                                        ELSE IF forks[k] \in Live THEN Append(f[k - 1], forks[k])
                                        ELSE f[k - 1]]
           F == [p \in Nat \X S |->
                   IF p[1] \in 1..n /\ forks[p[1]] \in Live THEN Append(p[2], forks[p[1]]) ELSE p[2]]
           f == CHOOSE g : Is(g)
<1>1. n \in Nat /\ <<>> \in S /\ \A k \in 1..n : forks[k] \in Branches \ {Dev}
  BY DEF Forks
<1>2. \A k \in Nat, x \in S : F[<<k, x>>] \in S
  <2> TAKE k \in Nat, x \in S
  <2>1. F[<<k, x>>] = IF k \in 1..n /\ forks[k] \in Live THEN Append(x, forks[k]) ELSE x
    OBVIOUS
  <2> QED
    BY <1>1, <2>1
<1>3. PICK g : Recurs(g, <<>>, F, n, S)
  <2> HIDE DEF F, n, S
  <2> QED
    BY <1>1, <1>2, Recursion
<1>4. ASSUME NEW k \in 1..n
      PROVE  g[k] = IF forks[k] \in Live THEN Append(g[k - 1], forks[k]) ELSE g[k - 1]
  <2> HIDE DEF n, S
  <2>1. k \in Nat /\ k - 1 \in 0..n
    BY <1>1
  <2>2. g[k - 1] \in S /\ <<k, g[k - 1]>> \in Nat \X S
    BY <1>3, <2>1 DEF Recurs
  <2>3. F[<<k, g[k - 1]>>] = IF forks[k] \in Live THEN Append(g[k - 1], forks[k]) ELSE g[k - 1]
    BY <2>2
  <2> HIDE DEF F
  <2> QED
    BY <1>3, <2>3 DEF Recurs
<1>5. Is(g)
  <2> HIDE DEF n, F, S
  <2>1. \A k \in 0..n : g[k] = IF k = 0 THEN <<>>
                               ELSE IF forks[k] \in Live THEN Append(g[k - 1], forks[k]) ELSE g[k - 1]
    <3> TAKE k \in 0..n
    <3>1. k = 0 \/ k \in 1..n
      BY <1>1
    <3> QED
      BY <1>3, <1>4, <3>1 DEF Recurs
  <2>2. g = [k \in 0..n |-> g[k]]
    BY <1>3 DEF Recurs
  <2> QED
    BY <2>1, <2>2
<1>6. Is(f)
  <2> HIDE DEF Is
  <2> QED
    BY <1>5
<1>7. LiveForks(forks) = f[n]
  BY DEF LiveForks
<1> HIDE DEF f, F
<1> DEFINE T == {k \in Nat : k <= n => KeptOf(f[k], forks, k)}
<1>8. 0 \in T
  <2>1. f[0] = <<>>
    <3> HIDE DEF n
    <3>1. 0 \in 0..n
      BY <1>1
    <3> QED
      BY <1>6, <3>1
  <2>2. KeptOf(<<>>, forks, 0)
    BY DEF KeptOf, Forks, IsInjective
  <2> QED
    BY <2>1, <2>2
<1>9. ASSUME NEW k \in T PROVE k + 1 \in T
  <2>1. ASSUME k + 1 <= n PROVE KeptOf(f[k + 1], forks, k + 1)
    <3>1. k \in Nat /\ k <= n /\ k + 1 \in 0..n /\ k + 1 # 0 /\ (k + 1) - 1 = k
      BY <1>1, <2>1
    <3>2. KeptOf(f[k], forks, k)
      BY <3>1
    <3> HIDE DEF n
    <3>3. f[k + 1] = IF forks[k + 1] \in Live THEN Append(f[k], forks[k + 1]) ELSE f[k]
      BY <1>6, <3>1
    <3>4. k + 1 <= Len(forks)
      BY <2>1 DEF n
    <3> QED
      BY <3>1, <3>2, <3>3, <3>4, KeepNext
  <2> QED
    BY <2>1
<1> HIDE DEF T
<1>10. T \subseteq Nat
  BY DEF T
<1>11. n \in T
  BY <1>1, <1>8, <1>9, <1>10, Climb
<1>12. KeptOf(f[n], forks, n)
  BY <1>1, <1>11 DEF T
<1> QED
  BY <1>7, <1>12

(***************************************************************************)
(* The slots of a selection                                                *)
(***************************************************************************)
LEMMA SmallerIs ==
  ASSUME NEW len \in Nat, NEW m, m = Min({len, SlotLimit})
  PROVE  m \in Nat /\ m <= len /\ m <= SlotLimit /\ (m = len \/ m = SlotLimit)
<1> DEFINE S == {len, SlotLimit}
<1>1. S \in SUBSET Nat /\ S # {}
  BY Basics
<1>2. Min(S) \in S /\ \A x \in S : Min(S) <= x
  BY <1>1, MinIs
<1> QED
  BY <1>2, Basics

LEMMA SlotsIs ==
  ASSUME TypeOK
  PROVE  /\ Slots \in Nat /\ Slots <= Len(mem.archive) /\ Slots <= SlotLimit
         /\ Slots = Len(mem.archive) \/ Slots = SlotLimit
<1>1. Len(mem.archive) \in Nat
  BY DEF TypeOK, Memory
<1>2. Slots = Min({Len(mem.archive), SlotLimit})
  BY DEF Slots, SlotLimit
<1> QED
  BY <1>1, <1>2, SmallerIs

LEMMA FewForks ==
  ASSUME NEW S, NEW s \in Seq(S)
  PROVE  IsFiniteSet(Range(s)) /\ Cardinality(Range(s)) <= Len(s)
<1>1. s \in Surjection(1..Len(s), Range(s))
  BY DEF Surjection, Range
<1>2. IsFiniteSet(1..Len(s)) /\ Cardinality(1..Len(s)) = Len(s)
  <2>1. Len(s) \in Nat
    OBVIOUS
  <2> QED
    BY <2>1, FS_Interval
<1> QED
  BY <1>1, <1>2, FS_Surjection

\* There is always a name left for one island more: 2 * Islands are enough for the old and the new.
LEMMA NameIsFree ==
  ASSUME TypeOK, Switching, pc = "switch", work.slot > 1, work.branch = Dev, Islands > 0,
         work.slot - 2 >= Len(work.prev),
         NEW b, b = FreeName(work.slot - 2, Range(work.prev) \cup Range(mem.forks))
  PROVE  b \in Branches \ {Dev} /\ b \notin Range(mem.forks)
<1> DEFINE idx == work.slot - 2
           taken == Range(work.prev) \cup Range(mem.forks)
           S == {c \in Branches : c > idx /\ c \notin taken}
<1>1. /\ work.prev \in Seq(Branches \ {Dev}) /\ mem.forks \in Seq(Branches \ {Dev})
      /\ work.slot \in Nat /\ Len(work.prev) \in Nat /\ Len(mem.forks) = idx /\ idx \in Nat
      /\ Slots \in Nat /\ Slots <= SlotLimit /\ work.slot <= Slots
  BY SlotsIs DEF TypeOK, Memory, Forks, Numbers, Switching
<1>2. SlotLimit = Islands + 1 /\ TopBranch = 2 * Islands /\ Islands \in Nat
  BY Basics DEF SlotLimit, TopBranch
<1>3. idx < Islands
  BY <1>1, <1>2
<1>4. taken \subseteq Range(mem.forks)
  <2>1. ASSUME NEW i \in DOMAIN work.prev PROVE work.prev[i] \in Range(mem.forks)
    <3>1. i \in DOMAIN mem.forks /\ i <= Len(work.prev)
      BY <1>1
    <3>2. mem.forks[i] = work.prev[i]
      BY <3>1 DEF Switching, HasPlace
    <3> QED
      BY <3>1, <3>2 DEF Range
  <2>2. Range(work.prev) \subseteq Range(mem.forks)
    BY <2>1 DEF Range
  <2> QED
    BY <2>2
<1>5. S # {}
  <2> SUFFICES ASSUME S = {} PROVE FALSE
    OBVIOUS
  <2> DEFINE R == (idx + 1)..(2 * Islands)
  <2>1. R \subseteq Range(mem.forks)
    <3> SUFFICES ASSUME NEW c \in R PROVE c \in Range(mem.forks)
      OBVIOUS
    <3>1. c \in Branches /\ c > idx
      BY <1>1, <1>2, Basics
    <3> QED
      BY <1>4, <3>1
  <2>2. IsFiniteSet(Range(mem.forks)) /\ Cardinality(Range(mem.forks)) <= idx
    BY <1>1, FewForks
  <2>3. Cardinality(Range(mem.forks)) \in Nat
    BY <2>2, FS_CardinalityType
  <2>4. Cardinality(R) = 2 * Islands - idx
    <3>1. idx + 1 \in Int /\ 2 * Islands \in Int /\ ~(idx + 1 > 2 * Islands)
      BY <1>1, <1>2, <1>3
    <3> HIDE DEF idx
    <3>2. Cardinality(R) = 2 * Islands - (idx + 1) + 1
      BY <3>1, FS_Interval
    <3> QED
      BY <1>1, <1>2, <3>2
  <2>5. Cardinality(R) <= Cardinality(Range(mem.forks))
    <3> HIDE DEF R
    <3> QED
      BY <2>1, <2>2, FS_Subset
  <2> HIDE DEF R, idx
  <2> QED
    BY <1>1, <1>2, <1>3, <2>2, <2>3, <2>4, <2>5
<1>6. S \in SUBSET Nat
  BY Basics
<1>7. b = Min(S)
  BY DEF FreeName
<1>8. b \in S
  <2> HIDE DEF S
  <2> QED
    BY <1>5, <1>6, <1>7, MinIs
<1> QED
  BY <1>1, <1>8, Basics

LEMMA NumberIsFree ==
  ASSUME TypeOK, Switching, pc = "switch", work.slot > 1, work.branch = Dev, ~(Islands > 0)
  PROVE  FreeName(work.slot - 2, {}) = work.slot - 1 /\ work.slot - 1 \in Branches \ {Dev}
<1> DEFINE S == {c \in Branches : c > work.slot - 2 /\ c \notin {}}
<1>1. work.slot \in Nat /\ Slots \in Nat /\ Slots <= SlotLimit /\ work.slot <= Slots
  BY SlotsIs DEF TypeOK, Numbers, Switching
<1>2. SlotLimit = NWorkers /\ TopBranch = NWorkers - 1 /\ NWorkers \in Nat
  BY Basics DEF SlotLimit, TopBranch
<1>3. work.slot - 1 \in S /\ \A c \in S : c >= work.slot - 1
  BY <1>1, <1>2, Basics
<1>4. S \in SUBSET Nat /\ S # {}
  BY <1>3, Basics
<1>5. FreeName(work.slot - 2, {}) = Min(S)
  BY DEF FreeName
<1>6. Min(S) \in S /\ \A c \in S : Min(S) <= c
  <2> HIDE DEF S
  <2> QED
    BY <1>4, MinIs
<1>7. Min(S) \in Nat /\ Min(S) <= work.slot - 1 /\ Min(S) >= work.slot - 1 /\ work.slot - 1 \in Nat
  <2>1. Min(S) \in Nat /\ Min(S) <= work.slot - 1 /\ Min(S) >= work.slot - 1
    <3> HIDE DEF S
    <3> QED
      BY <1>3, <1>4, <1>6
  <2> QED
    BY <1>1, <2>1
<1>8. work.slot - 1 \in Branches /\ work.slot - 1 # 0
  BY <1>1, <1>3
<1> HIDE DEF S
<1> QED
  BY <1>1, <1>5, <1>7, <1>8, Basics

\* The branch of a slot past the first: a name of its own, and that of the island that has its place.
LEMMA IslandIs ==
  ASSUME TypeOK, Switching, pc = "switch", work.slot > 1, work.branch = Dev,
         NEW b, b = IslandOf(work.slot - 2)
  PROVE  /\ b \in Branches \ {Dev} /\ HasPlace(b, work.slot - 1)
         /\ IsInjective(work.prev) => b \notin Range(mem.forks)
<1>1. /\ work.prev \in Seq(Branches \ {Dev}) /\ mem.forks \in Seq(Branches \ {Dev})
      /\ work.slot \in Nat /\ Len(work.prev) \in Nat /\ Len(mem.forks) = work.slot - 2
      /\ DOMAIN mem.forks = 1..Len(mem.forks) /\ DOMAIN work.prev = 1..Len(work.prev)
  BY DEF TypeOK, Memory, Forks, Numbers, Switching
<1>2. CASE Islands > 0 /\ work.slot - 2 < Len(work.prev)
  <2>1. b = work.prev[work.slot - 1] /\ work.slot - 1 \in DOMAIN work.prev
    <3>1. (work.slot - 2) + 1 = work.slot - 1
      BY <1>1
    <3> QED
      BY <1>1, <1>2, <3>1 DEF IslandOf
  <2>2. ASSUME IsInjective(work.prev), NEW i \in DOMAIN mem.forks, mem.forks[i] = b PROVE FALSE
    <3>1. i \in DOMAIN work.prev /\ i # work.slot - 1 /\ i <= Len(work.prev)
      BY <1>1, <1>2
    <3>2. mem.forks[i] = work.prev[i]
      BY <1>2, <3>1 DEF Switching, HasPlace
    <3> QED
      BY <2>1, <2>2, <3>1, <3>2 DEF IsInjective
  <2> QED
    BY <1>1, <1>2, <2>1, <2>2 DEF HasPlace, Range
<1>3. CASE Islands > 0 /\ ~(work.slot - 2 < Len(work.prev))
  <2>1. b = FreeName(work.slot - 2, Range(work.prev) \cup Range(mem.forks))
    BY <1>3 DEF IslandOf
  <2>2. work.slot - 2 >= Len(work.prev)
    BY <1>1, <1>3
  <2>3. b \in Branches \ {Dev} /\ b \notin Range(mem.forks)
    BY <1>3, <2>1, <2>2, NameIsFree
  <2>4. ~(work.slot - 1 <= Len(work.prev))
    BY <1>1, <2>2
  <2> QED
    BY <1>3, <2>3, <2>4 DEF HasPlace
<1>4. CASE ~(Islands > 0)
  <2>1. b = FreeName(work.slot - 2, {})
    BY <1>4 DEF IslandOf
  <2>2. b = work.slot - 1 /\ b \in Branches \ {Dev}
    BY <1>4, <2>1, NumberIsFree
  <2>3. \A i \in DOMAIN mem.forks : mem.forks[i] # b
    <3> TAKE i \in DOMAIN mem.forks
    <3>1. mem.forks[i] = i
      BY <1>4 DEF Switching, HasPlace
    <3> QED
      BY <1>1, <2>2, <3>1
  <2> QED
    BY <1>4, <2>2, <2>3 DEF HasPlace, Range
<1> QED
  BY <1>2, <1>3, <1>4

(***************************************************************************)
(* Types                                                                   *)
(***************************************************************************)
LEMMA PutIs ==
  ASSUME TypeOK, NEW b \in Live, NEW s \in Contents, Put(b, s)
  PROVE  /\ heads' \in [Branches -> HeadStates \cup {None}]
         /\ \A c \in Branches : c # b => heads'[c] = heads[c]
         /\ heads'[b] # None /\ heads'[b].state = s /\ Live' = Live /\ heads'[Dev] # None
<1>1. b \in Branches /\ heads[b] \in HeadStates /\ heads \in [Branches -> HeadStates \cup {None}]
  BY DEF Live, TypeOK
<1>2. /\ heads' \in [Branches -> HeadStates \cup {None}]
      /\ \A c \in Branches : c # b => heads'[c] = heads[c]
      /\ heads'[b] # None /\ heads'[b].state = s
  <2>1. CASE heads[b].state = s
    BY <1>1, <2>1 DEF Put, Live
  <2>2. CASE heads[b].state # s
    <3> DEFINE h == [state |-> s, ver |-> heads[b].ver + 1, from |-> None]
    <3>1. heads' = [heads EXCEPT ![b] = h]
      BY <2>2 DEF Put
    <3>2. h \in HeadStates /\ h.state = s
      BY <1>1 DEF HeadStates, Numbers
    <3>3. h # None
      BY <3>2, NoneIsNoHead
    <3> HIDE DEF h
    <3> QED
      BY <1>1, <3>1, <3>2, <3>3
  <2> QED
    BY <2>1, <2>2
<1>3. Live' = Live
  BY <1>1, <1>2 DEF Live
<1> QED
  BY <1>2, <1>3, Basics DEF TypeOK

LEMMA FreshType == Fresh \in Memory /\ Idle \in [prev : Forks, slot : Numbers, branch : Branches]
<1> DEFINE noTip == [b \in Branches |-> None]
<1>1. noTip \in [Branches -> Numbers \cup {None}]
  OBVIOUS
<1>2. 0 \in Contents \cup {0} /\ 0 \in Nat /\ 0 \in 0..MaxRounds /\ 1 \in Numbers /\ Dev \in Branches
  BY Basics DEF Numbers
<1>3. <<>> \in Seq(Candidates) /\ <<>> \in Forks
  BY DEF Forks
<1>4. Fresh = [archive |-> <<>>, tip |-> noTip, forks |-> <<>>,
               best |-> 0, stalled |-> 0, base |-> 0, round |-> 0]
  BY DEF Fresh
<1> HIDE DEF noTip
<1> QED
  BY <1>1, <1>2, <1>3, <1>4 DEF Memory, Idle

LEMMA NextRoundType ==
  ASSUME TypeOK, Number < MaxRounds
  PROVE  /\ NextRound \in Memory /\ NextRound.round = mem.round + 1
         /\ NextRound.archive = mem.archive /\ NextRound.tip = mem.tip /\ NextRound.forks = mem.forks
         /\ NextRound.best = mem.best /\ NextRound.stalled = mem.stalled /\ NextRound.base = mem.base
<1>1. mem \in Memory /\ mem.base \in Nat /\ mem.round \in 0..MaxRounds
  BY DEF TypeOK, Memory
<1>2. mem.round + 1 \in 0..MaxRounds
  BY <1>1, Basics DEF Number
<1> DEFINE r == mem.round + 1
<1>3. NextRound = [mem EXCEPT !.round = r]
  BY DEF NextRound
<1> HIDE DEF r
<1> QED
  BY <1>1, <1>2, <1>3 DEF Memory, r

LEMMA TypedInit == Init => Typed
<1> SUFFICES ASSUME Init PROVE Typed
  OBVIOUS
<1>1. PICK left \in Leftover :
          heads = [b \in Branches |->
                     CASE b = Dev -> [state |-> Seed, ver |-> 1, from |-> None]
                       [] b = 1 /\ left # None -> [state |-> left, ver |-> 2, from |-> None]
                       [] OTHER -> None]
  BY DEF Init
<1> DEFINE d == [state |-> Seed, ver |-> 1, from |-> None]
           l == [state |-> left, ver |-> 2, from |-> None]
<1>2. d \in HeadStates /\ (left # None => l \in HeadStates) /\ d # None
  <2>1. d \in HeadStates /\ (left # None => l \in HeadStates)
    BY Basics DEF HeadStates, Numbers
  <2> QED
    BY <2>1, NoneIsNoHead
<1>3. heads = [b \in Branches |-> CASE b = Dev -> d [] b = 1 /\ left # None -> l [] OTHER -> None]
  BY <1>1
<1> HIDE DEF d, l
<1>4. ASSUME NEW b \in Branches
      PROVE  heads[b] = IF b = Dev THEN d ELSE IF b = 1 /\ left # None THEN l ELSE None
  BY <1>3, Basics
<1>5. heads \in [Branches -> HeadStates \cup {None}] /\ heads[Dev] # None
  BY <1>2, <1>3, <1>4, Basics
<1>6. <<>> \in Records
  BY DEF Records
<1>7. 0 \in 0..MaxRuns /\ 0 \in 0..MaxMerges /\ 0 \in 0..MaxFaults
  BY Basics
<1>8. /\ disk = None /\ pc = "down" /\ mem = Fresh /\ work = Idle /\ observed = <<>> /\ start = None
      /\ stepped = FALSE /\ clean = TRUE /\ trusted = TRUE /\ runs = 0 /\ merges = 0 /\ faults = 0
  BY DEF Init
<1>9. TypeOK
  BY <1>5, <1>6, <1>7, <1>8, FreshType DEF TypeOK
<1> QED
  BY <1>8, <1>9 DEF Typed, Switching, InStep

LEMMA TypedStart ==
  ASSUME Typed, Start
  PROVE  Typed'
<1> USE DEF Typed
<1>1. mem' = Restored /\ pc' = "top"
  BY DEF Start
<1>2. Restored \in Memory
  <2>1. CASE disk = None
    BY <2>1, FreshType DEF Restored
  <2>2. CASE disk # None
    <3>1. disk \in Checkpoints
      BY <2>2 DEF TypeOK
    <3>2. /\ disk.archive \in Seq(Candidates) /\ disk.tip \in [Branches -> Numbers \cup {None}]
          /\ disk.forks \in Forks /\ disk.best \in Contents \cup {0} /\ disk.stalled \in Nat
          /\ disk.round + 1 \in Nat
      BY <3>1 DEF Checkpoints
    <3>3. LiveForks(disk.forks) \in Forks
      BY <3>2, LiveForksIs DEF KeptOf
    <3> DEFINE kept == LiveForks(disk.forks)
               next == disk.round + 1
    <3>4. Restored = [archive |-> disk.archive, tip |-> disk.tip, forks |-> kept, best |-> disk.best,
                      stalled |-> disk.stalled, base |-> next, round |-> 0]
      BY <2>2 DEF Restored, Tracked
    <3>5. kept \in Forks /\ next \in Nat /\ 0 \in 0..MaxRounds
      BY <3>2, <3>3, Basics
    <3> HIDE DEF kept, next
    <3> QED
      BY <3>2, <3>4, <3>5 DEF Memory
  <2> QED
    BY <2>1, <2>2
<1>3. observed' \in Records
  <2>1. <<>> \in Records
    BY DEF Records
  <2>2. disk # None => disk.observed \in Records
    BY DEF TypeOK, Checkpoints
  <2> QED
    BY <2>1, <2>2 DEF Start
<1>4. start' \in Contents \cup {None}
  <2>1. heads[Dev] \in HeadStates
    BY Basics DEF TypeOK
  <2> QED
    BY <2>1 DEF Start, HeadStates
<1>5. runs' \in 0..MaxRuns
  BY Basics DEF Start, TypeOK
<1> QED
  BY <1>1, <1>2, <1>3, <1>4, <1>5 DEF Start, TypeOK, Switching, InStep, ledger

LEMMA FaultType ==
  ASSUME TypeOK, NEW kind, Fault(kind)
  PROVE  faults' \in 0..MaxFaults
BY Basics DEF TypeOK, Fault

LEMMA TypedRests ==
  ASSUME Typed, Stop \/ End \/ SkipRound \/ Unmeasured
  PROVE  Typed'
<1> USE DEF Typed, ledger, history
<1>1. CASE Stop \/ End
  BY <1>1 DEF Stop, End, TypeOK, Switching, InStep
<1>2. CASE SkipRound
  BY <1>2, FaultType, NextRoundType DEF SkipRound, TypeOK, Switching, InStep
<1>3. CASE Unmeasured
  <2>1. Number < MaxRounds
    BY <1>3 DEF Unmeasured, Switching, InStep
  <2> QED
    BY <1>3, <2>1, FaultType, NextRoundType DEF Unmeasured, TypeOK, Switching, InStep
<1> QED
  BY <1>1, <1>2, <1>3

LEMMA TypedDies ==
  ASSUME Typed, Dies
  PROVE  Typed'
<1>1. <<>> \in Records
  BY DEF Records
<1> QED
  BY <1>1, FaultType, FreshType DEF Typed, Dies, TypeOK, Switching, InStep, ledger, history

LEMMA AdmitType ==
  ASSUME TypeOK, NEW a \in Seq(Candidates), NEW b \in Live
  PROVE  Admit(a, b) \in Seq(Candidates)
BY AdmitIs DEF Joins

LEMMA DevLives == TypeOK => Dev \in Live
BY Basics DEF TypeOK, Live

LEMMA MergeIs ==
  ASSUME TypeOK, Merge
  PROVE  /\ mem' \in Memory /\ mem'.archive = Admit(mem.archive, Dev) /\ mem'.tip = mem.tip
         /\ mem'.forks = mem.forks /\ mem'.best = mem.best /\ mem'.stalled = mem.stalled
         /\ mem'.base = mem.base /\ mem'.round = mem.round
         /\ heads' \in [Branches -> HeadStates \cup {None}] /\ Live' = Live /\ merges' \in 0..MaxMerges
         /\ \A b \in Live : heads'[b] = heads[b] \/ heads'[b].from = heads[b].state
<1>1. mem \in Memory /\ mem.archive \in Seq(Candidates) /\ Dev \in Live
  BY DevLives DEF TypeOK, Memory
<1> DEFINE a == Admit(mem.archive, Dev)
<1>2. a \in Seq(Candidates)
  BY <1>1, AdmitType
<1>3. mem' = [mem EXCEPT !.archive = a]
  BY DEF Merge, AdmitHead
<1>4. PICK moved \in SUBSET Live : \E into \in [moved -> Contents] :
          /\ merges' = merges + Cardinality(moved) /\ merges' <= MaxMerges
          /\ heads' = [b \in Branches |->
                         IF b \in moved
                         THEN [state |-> into[b], ver |-> heads[b].ver + 1, from |-> heads[b].state]
                         ELSE heads[b]]
  BY DEF Merge
<1>5. PICK into \in [moved -> Contents] :
          /\ merges' = merges + Cardinality(moved) /\ merges' <= MaxMerges
          /\ heads' = [b \in Branches |->
                         IF b \in moved
                         THEN [state |-> into[b], ver |-> heads[b].ver + 1, from |-> heads[b].state]
                         ELSE heads[b]]
  BY <1>4
<1>6. ASSUME NEW b \in moved
      PROVE  heads'[b] \in HeadStates /\ heads'[b].from = heads[b].state
  <2>1. b \in Branches /\ heads[b] \in HeadStates /\ into[b] \in Contents
    BY DEF Live, TypeOK
  <2>2. heads[b].ver + 1 \in Numbers /\ heads[b].state \in Contents \cup {None}
    BY <2>1 DEF HeadStates, Numbers
  <2>3. heads'[b] = [state |-> into[b], ver |-> heads[b].ver + 1, from |-> heads[b].state]
    BY <1>5, <2>1
  <2> QED
    BY <2>1, <2>2, <2>3 DEF HeadStates
<1>7. \A b \in Branches \ moved : heads'[b] = heads[b]
  BY <1>5
<1>8. \A b \in Branches : heads'[b] \in HeadStates \cup {None} /\ (heads'[b] # None <=> heads[b] # None)
  BY <1>6, <1>7, NoneIsNoHead DEF TypeOK, Live
<1>9. heads' \in [Branches -> HeadStates \cup {None}] /\ Live' = Live
  BY <1>5, <1>8 DEF Live
<1>10. merges' \in 0..MaxMerges
  <2>1. IsFiniteSet(Branches)
    BY Basics, FS_Interval
  <2>2. moved \in SUBSET Branches
    BY DEF Live
  <2>3. Cardinality(moved) \in Nat
    BY <2>1, <2>2, FS_Subset, FS_CardinalityType
  <2> QED
    BY <1>5, <2>3, Basics DEF TypeOK
<1>11. \A b \in Live : heads'[b] = heads[b] \/ heads'[b].from = heads[b].state
  BY <1>6, <1>7 DEF Live
<1> HIDE DEF a
<1>12. /\ mem' \in Memory /\ mem'.archive = a /\ mem'.tip = mem.tip
       /\ mem'.forks = mem.forks /\ mem'.best = mem.best /\ mem'.stalled = mem.stalled
       /\ mem'.base = mem.base /\ mem'.round = mem.round
  BY <1>1, <1>2, <1>3 DEF Memory
<1> QED
  BY <1>9, <1>10, <1>11, <1>12 DEF a

LEMMA TypedMerge ==
  ASSUME Typed, Merge
  PROVE  Typed'
<1>1. TypeOK /\ heads'[Dev] # None
  <2>1. Dev \in Live /\ Live' = Live
    BY DevLives, MergeIs DEF Typed
  <2> QED
    BY <2>1 DEF Live, Typed
<1> QED
  BY <1>1, MergeIs DEF Merge, TypeOK, Typed, Switching, InStep, Number, Touched, history

LEMMA AdmitAllType ==
  ASSUME TypeOK
  PROVE  AdmitAll(mem.archive) \in Seq(Candidates)
<1>1. mem.archive \in Seq(Candidates)
  BY DEF TypeOK, Memory
<1> QED
  BY <1>1, AdmitType, AdmitAllIn

\* What the archive of Choose is needed for: it may start a switch.
LEMMA ChooseIs ==
  ASSUME TypeOK, Choose, NEW archive, archive = AdmitAll(mem.archive)
  PROVE  /\ archive \in Seq(Candidates)
         /\ mem' \in Memory /\ mem'.archive = archive /\ mem'.tip = mem.tip
         /\ mem'.best = mem.best /\ mem'.stalled = mem.stalled
         /\ mem'.base = mem.base /\ mem'.round = mem.round
         /\ work' \in [prev : Forks, slot : Numbers, branch : Branches]
         /\ \/ /\ Len(archive) > 1 /\ pc' = "switch" /\ mem'.forks = <<>>
               /\ work'.prev = mem.forks /\ work'.slot = 1 /\ work'.branch = Dev
            \/ ~(Len(archive) > 1) /\ pc' = "measure" /\ mem'.forks = mem.forks
<1>1. archive \in Seq(Candidates) /\ mem \in Memory /\ mem.forks \in Forks /\ <<>> \in Forks
  BY AdmitAllType DEF TypeOK, Memory, Forks
<1>2. /\ mem' = [mem EXCEPT !.archive = archive,
                            !.forks = IF Len(archive) > 1 THEN <<>> ELSE mem.forks]
      /\ work' = IF Len(archive) > 1 THEN [Idle EXCEPT !.prev = mem.forks] ELSE Idle
      /\ pc' = IF Len(archive) > 1 THEN "switch" ELSE "measure"
  BY DEF Choose, Memory, TypeOK
<1>3. /\ mem' \in Memory /\ mem'.archive = archive /\ mem'.tip = mem.tip
      /\ mem'.best = mem.best /\ mem'.stalled = mem.stalled
      /\ mem'.base = mem.base /\ mem'.round = mem.round
      /\ mem'.forks = IF Len(archive) > 1 THEN <<>> ELSE mem.forks
  BY <1>1, <1>2 DEF Memory
<1>4. CASE Len(archive) > 1
  <2>1. work' = [prev |-> mem.forks, slot |-> 1, branch |-> Dev]
    BY <1>2, <1>4 DEF Idle
  <2>2. work' \in [prev : Forks, slot : Numbers, branch : Branches]
    BY <1>1, <2>1, Basics DEF Numbers
  <2> QED
    BY <1>1, <1>2, <1>3, <1>4, <2>1, <2>2
<1>5. CASE ~(Len(archive) > 1)
  BY <1>1, <1>2, <1>3, <1>5, FreshType
<1> QED
  BY <1>4, <1>5

LEMMA TypedChoose ==
  ASSUME Typed, Choose
  PROVE  Typed'
<1> DEFINE archive == AdmitAll(mem.archive)
<1> HIDE DEF archive
<1>1. TypeOK /\ archive = AdmitAll(mem.archive)
  BY DEF Typed, archive
<1>2. /\ mem' \in Memory /\ mem'.archive = archive
      /\ mem'.base = mem.base /\ mem'.round = mem.round
      /\ work' \in [prev : Forks, slot : Numbers, branch : Branches]
      /\ \/ /\ Len(archive) > 1 /\ pc' = "switch" /\ mem'.forks = <<>>
            /\ work'.prev = mem.forks /\ work'.slot = 1 /\ work'.branch = Dev
         \/ ~(Len(archive) > 1) /\ pc' = "measure" /\ mem'.forks = mem.forks
  BY <1>1, ChooseIs
<1>3. TypeOK'
  BY <1>1, <1>2 DEF Choose, TypeOK, ledger, history
<1>4. Number' < MaxRounds
  BY <1>2 DEF Choose, Typed, Switching, InStep, Number
<1>5. CASE pc' = "switch"
  <2>1. Len(archive) > 1 /\ mem'.forks = <<>> /\ work'.slot = 1 /\ work'.branch = Dev
    BY <1>2, <1>5
  <2>2. Slots' >= 1
    <3>1. Slots' = Min({Len(archive), SlotLimit})
      BY <1>2 DEF Slots, SlotLimit
    <3>2. archive \in Seq(Candidates)
      BY <1>1, AdmitAllType
    <3>3. Len(archive) \in Nat
      BY <3>2
    <3> QED
      BY <2>1, <3>1, <3>3, SmallerIs, Basics
  <2> QED
    BY <1>2, <1>3, <1>4, <1>5, <2>1, <2>2 DEF Typed, Switching, InStep
<1>6. CASE pc' = "measure"
  BY <1>3, <1>4, <1>6 DEF Typed, Switching, InStep
<1> QED
  BY <1>2, <1>5, <1>6

LEMMA ForkIs ==
  ASSUME TypeOK, Switching, Fork, NEW b, b = IslandOf(work.slot - 2)
  PROVE  /\ pc = "switch" /\ work.slot > 1 /\ work.branch = Dev
         /\ b \in Branches \ {Dev} /\ HasPlace(b, work.slot - 1)
         /\ IsInjective(work.prev) => b \notin Range(mem.forks)
         /\ work'.prev = work.prev /\ work'.slot = work.slot /\ work'.branch = b
         /\ work' \in [prev : Forks, slot : Numbers, branch : Branches]
         /\ heads' \in [Branches -> HeadStates \cup {None}] /\ b \in Live' /\ Live \subseteq Live'
         /\ \A c \in Branches \ {b} : heads'[c] = heads[c]
         /\ Live' \subseteq Live \cup {b}
<1>1. pc = "switch" /\ work.slot > 1 /\ work.branch = Dev
  BY DEF Fork
<1>2. /\ b \in Branches \ {Dev} /\ HasPlace(b, work.slot - 1)
      /\ IsInjective(work.prev) => b \notin Range(mem.forks)
  BY <1>1, IslandIs
<1>3. work' = [work EXCEPT !.branch = b]
  BY DEF Fork
<1>4. /\ work'.prev = work.prev /\ work'.slot = work.slot /\ work'.branch = b
      /\ work' \in [prev : Forks, slot : Numbers, branch : Branches]
  BY <1>2, <1>3 DEF TypeOK
<1>5. heads[Dev] \in HeadStates /\ heads \in [Branches -> HeadStates \cup {None}] /\ heads[Dev] # None
  BY Basics DEF TypeOK
<1>6. (heads' = heads /\ b \in Live) \/ heads' = [heads EXCEPT ![b] = heads[Dev]]
  BY DEF Fork
<1>7. /\ heads' \in [Branches -> HeadStates \cup {None}] /\ heads'[b] # None
      /\ \A c \in Branches \ {b} : heads'[c] = heads[c]
  BY <1>2, <1>5, <1>6 DEF Live
<1>8. b \in Live' /\ Live \subseteq Live' /\ Live' \subseteq Live \cup {b}
  BY <1>2, <1>7 DEF Live
<1> QED
  BY <1>1, <1>2, <1>4, <1>7, <1>8

LEMMA TypedFork ==
  ASSUME Typed, Fork
  PROVE  Typed'
<1> DEFINE b == IslandOf(work.slot - 2)
<1> HIDE DEF b
<1>1. TypeOK /\ Switching /\ b = IslandOf(work.slot - 2)
  BY DEF Typed, b
<1>2. /\ pc = "switch" /\ work.slot > 1
      /\ b \in Branches \ {Dev} /\ HasPlace(b, work.slot - 1)
      /\ work'.prev = work.prev /\ work'.slot = work.slot /\ work'.branch = b
      /\ work' \in [prev : Forks, slot : Numbers, branch : Branches]
      /\ heads' \in [Branches -> HeadStates \cup {None}] /\ b \in Live'
      /\ \A c \in Branches \ {b} : heads'[c] = heads[c]
  BY <1>1, ForkIs
<1>3. heads'[Dev] # None
  BY <1>1, <1>2, Basics DEF TypeOK
<1>4. mem' = mem /\ pc' = pc
  BY DEF Fork
<1>5. TypeOK'
  BY <1>1, <1>2, <1>3, <1>4 DEF Fork, TypeOK, Touched, history
<1>6. \A c, i : HasPlace(c, i)' <=> HasPlace(c, i)
  BY <1>2 DEF HasPlace
<1>7. Number' = Number /\ Slots' = Slots
  BY <1>4 DEF Number, Slots
<1>8. Switching'
  BY <1>1, <1>2, <1>4, <1>6, <1>7 DEF Switching
<1> QED
  BY <1>5, <1>8 DEF Typed

LEMMA SwitchIs ==
  ASSUME TypeOK, Switching, Switch
  PROVE  \E c \in Range(mem.archive) :
         /\ pc = "switch" /\ c \in Candidates /\ (work.slot > 1 => work.branch # Dev)
         /\ Put(work.branch, c.state)
         /\ mem' \in Memory /\ mem'.archive = mem.archive
         /\ mem'.tip = [mem.tip EXCEPT ![work.branch] = c.id]
         /\ mem'.forks = (IF work.branch = Dev THEN mem.forks ELSE Append(mem.forks, work.branch))
         /\ mem'.best = mem.best /\ mem'.stalled = mem.stalled
         /\ mem'.base = mem.base /\ mem'.round = mem.round
<1>1. PICK c \in Range(mem.archive) :
         /\ Put(work.branch, c.state)
         /\ mem' = [mem EXCEPT !.tip[work.branch] = Tip(work.branch, c),
                               !.forks = IF work.branch = Dev THEN @ ELSE Append(@, work.branch)]
  BY DEF Switch
<1>2. mem \in Memory /\ mem.forks \in Forks /\ mem.archive \in Seq(Candidates) /\ work.branch \in Branches
      /\ mem.tip \in [Branches -> Numbers \cup {None}]
  BY DEF TypeOK, Memory
<1>3. c \in Candidates
  BY <1>2, ArchiveParts DEF Range
<1> DEFINE f == IF work.branch = Dev THEN mem.forks ELSE Append(mem.forks, work.branch)
           t == [mem.tip EXCEPT ![work.branch] = c.id]
<1>4. f \in Forks /\ t \in [Branches -> Numbers \cup {None}]
  <2>1. c.id \in Numbers
    BY <1>3 DEF Candidates
  <2> QED
    BY <1>2, <2>1 DEF Forks
<1>5. mem' = [mem EXCEPT !.tip = t, !.forks = f]
  BY <1>1, <1>2 DEF Tip, Memory
<1> HIDE DEF f, t
<1>6. /\ mem' \in Memory /\ mem'.archive = mem.archive /\ mem'.tip = t /\ mem'.forks = f
      /\ mem'.best = mem.best /\ mem'.stalled = mem.stalled
      /\ mem'.base = mem.base /\ mem'.round = mem.round
  BY <1>2, <1>4, <1>5 DEF Memory
<1>7. pc = "switch" /\ (work.slot > 1 => work.branch # Dev)
  BY DEF Switch
<1>8. /\ mem'.tip = [mem.tip EXCEPT ![work.branch] = c.id]
      /\ mem'.forks = (IF work.branch = Dev THEN mem.forks ELSE Append(mem.forks, work.branch))
  BY <1>6 DEF t, f
<1> QED
  BY <1>1, <1>3, <1>6, <1>7, <1>8

LEMMA SwitchBranch ==
  ASSUME TypeOK, Switching, pc = "switch", work.slot > 1 => work.branch # Dev
  PROVE  work.branch \in Live /\ (work.branch = Dev <=> work.slot = 1) /\ work.slot \in Nat /\ work.slot > 0
BY DevLives DEF TypeOK, Switching, Numbers

\* The slots so far have their branches.
LEMMA SwitchForks ==
  ASSUME TypeOK, Switching, Switch
  PROVE  Len(mem'.forks) = work.slot - 1 /\ \A i \in DOMAIN mem'.forks : HasPlace(mem'.forks[i], i)
<1>1. /\ pc = "switch" /\ (work.slot > 1 => work.branch # Dev)
      /\ mem'.forks = (IF work.branch = Dev THEN mem.forks ELSE Append(mem.forks, work.branch))
  BY SwitchIs
<1>2. work.branch \in Live /\ (work.branch = Dev <=> work.slot = 1) /\ work.slot \in Nat /\ work.slot > 0
  BY <1>1, SwitchBranch
<1>3. work \in [prev : Forks, slot : Numbers, branch : Branches] /\ mem.forks \in Forks
  BY DEF TypeOK, Memory
<1>4. CASE work.branch = Dev
  <2>1. mem'.forks = <<>> /\ work.slot = 1
    BY <1>1, <1>2, <1>4 DEF Switching
  <2> QED
    BY <2>1
<1>5. CASE work.branch # Dev
  <2> DEFINE b == work.branch
  <2>1. Len(mem.forks) = work.slot - 2 /\ b \in Branches \ {Dev} /\ HasPlace(b, work.slot - 1)
    BY <1>1, <1>2, <1>3, <1>5 DEF Switching
  <2>2. mem'.forks = Append(mem.forks, b) /\ mem.forks \in Seq(Branches \ {Dev})
    BY <1>1, <1>3, <1>5 DEF Forks
  <2>3. \A i \in DOMAIN mem.forks : HasPlace(mem.forks[i], i)
    BY <1>1 DEF Switching
  <2> HIDE DEF b
  <2>4. /\ Len(mem'.forks) = Len(mem.forks) + 1 /\ DOMAIN mem'.forks = 1..(Len(mem.forks) + 1)
        /\ \A i \in DOMAIN mem.forks : mem'.forks[i] = mem.forks[i]
        /\ mem'.forks[Len(mem.forks) + 1] = b /\ DOMAIN mem.forks = 1..Len(mem.forks)
        /\ Len(mem.forks) \in Nat
    BY <2>1, <2>2
  <2>5. Len(mem.forks) + 1 = work.slot - 1
    BY <1>2, <2>1
  <2>6. ASSUME NEW i \in DOMAIN mem'.forks PROVE HasPlace(mem'.forks[i], i)
    <3>1. i \in DOMAIN mem.forks \/ i = work.slot - 1
      BY <2>4, <2>5
    <3>2. CASE i \in DOMAIN mem.forks
      BY <2>3, <2>4, <3>2
    <3>3. CASE i = work.slot - 1
      <4>1. mem'.forks[i] = b
        BY <2>4, <2>5, <3>3
      <4> QED
        BY <2>1, <3>3, <4>1
    <3> QED
      BY <3>1, <3>2, <3>3
  <2> QED
    BY <2>4, <2>5, <2>6
<1> QED
  BY <1>4, <1>5

LEMMA TypedSwitch ==
  ASSUME Typed, Switch
  PROVE  Typed'
<1>1. TypeOK /\ Switching
  BY DEF Typed
<1>2. PICK c \in Range(mem.archive) :
         /\ pc = "switch" /\ c \in Candidates /\ (work.slot > 1 => work.branch # Dev)
         /\ Put(work.branch, c.state)
         /\ mem' \in Memory /\ mem'.archive = mem.archive
         /\ mem'.forks = (IF work.branch = Dev THEN mem.forks ELSE Append(mem.forks, work.branch))
         /\ mem'.base = mem.base /\ mem'.round = mem.round
  BY <1>1, SwitchIs
<1>3. work.branch \in Live /\ (work.branch = Dev <=> work.slot = 1) /\ work.slot \in Nat /\ work.slot > 0
  BY <1>1, <1>2, SwitchBranch
<1>4. c.state \in Contents
  BY <1>2 DEF Candidates
<1>5. heads' \in [Branches -> HeadStates \cup {None}] /\ heads'[Dev] # None /\ Live' = Live
  BY <1>1, <1>2, <1>3, <1>4, PutIs
<1>6. work \in [prev : Forks, slot : Numbers, branch : Branches] /\ mem.forks \in Forks
  BY <1>1 DEF TypeOK, Memory
<1>7. Number' = Number /\ Slots' = Slots /\ Number < MaxRounds
  BY <1>1, <1>2 DEF Number, Slots, Switching, InStep
<1>8. CASE work.slot = Slots
  <2>1. work' = Idle /\ pc' = "measure"
    BY <1>8 DEF Switch
  <2>2. TypeOK'
    BY <1>1, <1>2, <1>5, <2>1, FreshType DEF Switch, TypeOK, Touched, history
  <2> QED
    BY <1>7, <2>1, <2>2 DEF Typed, Switching, InStep
<1>9. CASE work.slot # Slots
  <2>1. pc' = pc /\ work' = [work EXCEPT !.slot = work.slot + 1, !.branch = Dev]
    BY <1>6, <1>9 DEF Switch
  <2> DEFINE next == work.slot + 1
  <2>2. next \in Numbers
    BY <1>3 DEF Numbers
  <2>3. work' = [work EXCEPT !.slot = next, !.branch = Dev]
    BY <2>1
  <2> HIDE DEF next
  <2>4. /\ work' \in [prev : Forks, slot : Numbers, branch : Branches]
        /\ work'.prev = work.prev /\ work'.slot = next /\ work'.branch = Dev
    BY <1>6, <2>2, <2>3, Basics
  <2>5. TypeOK'
    BY <1>1, <1>2, <1>5, <2>1, <2>4 DEF Switch, TypeOK, Touched, history
  <2>6. next <= Slots' /\ next > 1
    <3>1. work.slot <= Slots /\ Slots \in Nat
      BY <1>1, <1>2, SlotsIs DEF Switching
    <3> QED
      BY <1>3, <1>7, <1>9, <3>1 DEF next
  <2>7. Len(mem'.forks) = next - 2 /\ \A i \in DOMAIN mem'.forks : HasPlace(mem'.forks[i], i)
    <3>1. Len(mem'.forks) = work.slot - 1 /\ \A i \in DOMAIN mem'.forks : HasPlace(mem'.forks[i], i)
      BY <1>1, SwitchForks
    <3> QED
      BY <1>3, <3>1 DEF next
  <2>8. \A b, i : HasPlace(b, i)' <=> HasPlace(b, i)
    BY <2>4 DEF HasPlace
  <2>9. Len(mem'.archive) > 1
    BY <1>1, <1>2 DEF Switching
  <2>10. next \in Nat
    BY <2>2 DEF Numbers
  <2> QED
    BY <1>2, <1>7, <2>1, <2>4, <2>5, <2>6, <2>7, <2>8, <2>9, <2>10 DEF Typed, Switching, InStep
<1> QED
  BY <1>8, <1>9

\* EarlyStop.observe moves the tracker alone.
LEMMA ObserveIs ==
  ASSUME TypeOK, NEW r \in Contents, NEW m, m = Observe(r)
  PROVE  /\ m \in Memory /\ m.archive = mem.archive /\ m.tip = mem.tip /\ m.forks = mem.forks
         /\ m.base = mem.base /\ m.round = mem.round
         /\ r > mem.best => m.best = r /\ m.stalled = 0
         /\ ~(r > mem.best) => m.best = mem.best /\ m.stalled = mem.stalled + 1
<1>1. mem \in Memory /\ mem.stalled + 1 \in Nat /\ 0 \in Nat /\ r \in Contents \cup {0}
  BY DEF TypeOK, Memory
<1>2. CASE r > mem.best
  <2>1. m = [mem EXCEPT !.best = r, !.stalled = 0]
    BY <1>2 DEF Observe
  <2> QED
    BY <1>1, <1>2, <2>1 DEF Memory
<1>3. CASE ~(r > mem.best)
  <2> DEFINE k == mem.stalled + 1
  <2>1. m = [mem EXCEPT !.stalled = k] /\ k \in Nat
    BY <1>1, <1>3 DEF Observe
  <2> HIDE DEF k
  <2>2. /\ m \in Memory /\ m.archive = mem.archive /\ m.tip = mem.tip /\ m.forks = mem.forks
        /\ m.base = mem.base /\ m.round = mem.round /\ m.best = mem.best /\ m.stalled = k
    BY <1>1, <2>1 DEF Memory
  <2> QED
    BY <1>3, <2>2 DEF k
<1> QED
  BY <1>2, <1>3

LEMMA DevState ==
  ASSUME TypeOK
  PROVE  heads[Dev] \in HeadStates /\ heads[Dev].state \in Contents
BY Basics DEF TypeOK, HeadStates

LEMMA TypedMeasure ==
  ASSUME Typed, Measure
  PROVE  Typed'
<1> DEFINE r == heads[Dev].state
           e == [round |-> Number, reward |-> r]
<1>1. TypeOK /\ r \in Contents /\ Number \in Nat /\ Number < MaxRounds
  BY DevState DEF Typed, TypeOK, Memory, Number, Measure, Switching, InStep
<1>2. mem' = Observe(r)
  BY DEF Measure
<1>3. mem' \in Memory /\ mem'.base = mem.base /\ mem'.round = mem.round
  <2> HIDE DEF r
  <2> QED
    BY <1>1, <1>2, ObserveIs
<1>4. e \in [round : Nat, reward : Contents]
  BY <1>1
<1>5. observed' = Append(observed, e)
  BY DEF Measure
<1> HIDE DEF e
<1>6. observed' \in Records
  BY <1>1, <1>4, <1>5 DEF TypeOK, Records
<1>7. pc' = "save" /\ UNCHANGED <<ledger, disk, work, stepped, history, faults>>
  BY DEF Measure
<1>8. TypeOK'
  BY <1>1, <1>3, <1>6, <1>7 DEF TypeOK, ledger, history
<1>9. Number' = Number
  BY <1>3 DEF Number
<1> QED
  BY <1>1, <1>7, <1>8, <1>9 DEF Typed, Switching, InStep

\* After the round was recorded: the next one, or the end.
LEMMA ContinueIs ==
  ASSUME TypeOK, Number < MaxRounds, Continue
  PROVE  \/ pc' = "final" /\ mem' = mem
         \/ pc' = "top" /\ mem' = NextRound
BY DEF Continue

LEMMA ContinueKeeps ==
  ASSUME TypeOK, Number < MaxRounds, Continue
  PROVE  /\ mem' \in Memory /\ mem'.archive = mem.archive /\ mem'.tip = mem.tip /\ mem'.forks = mem.forks
         /\ mem'.best = mem.best /\ mem'.stalled = mem.stalled /\ mem'.base = mem.base
         /\ \/ pc' = "final" /\ mem'.round = mem.round
            \/ pc' = "top" /\ mem'.round = mem.round + 1
<1>1. CASE pc' = "final" /\ mem' = mem
  BY <1>1 DEF TypeOK
<1>2. CASE pc' = "top" /\ mem' = NextRound
  BY <1>2, NextRoundType
<1> QED
  BY <1>1, <1>2, ContinueIs

LEMMA SaveIs ==
  ASSUME TypeOK, Number < MaxRounds, Save
  PROVE  /\ disk' \in Checkpoints /\ disk'.archive = mem.archive /\ disk'.tip = mem.tip
         /\ disk'.forks = mem.forks /\ disk'.best = mem.best /\ disk'.stalled = mem.stalled
         /\ disk'.round = Number /\ disk'.observed = observed
<1> DEFINE n == Number
<1>1. n \in Nat /\ mem \in Memory /\ observed \in Records
  BY DEF TypeOK, Memory, Number
<1>2. disk' = [round |-> n, archive |-> mem.archive, tip |-> mem.tip,
               forks |-> mem.forks, best |-> mem.best, stalled |-> mem.stalled, observed |-> observed]
  BY DEF Save
<1> HIDE DEF n
<1> QED
  BY <1>1, <1>2 DEF Memory, Checkpoints, n

LEMMA TypedSave ==
  ASSUME Typed, Save \/ SaveFails
  PROVE  Typed'
<1>1. TypeOK /\ Number < MaxRounds
  BY DEF Typed, Switching, InStep, Save, SaveFails
<1>2. Continue /\ UNCHANGED <<heads, merges, work, observed, stepped, history>>
  BY DEF Save, SaveFails, ledger
<1>3. mem' \in Memory /\ pc' \in {"final", "top"}
  BY <1>1, <1>2, ContinueKeeps
<1>4. /\ disk' \in Checkpoints \cup {None}
      /\ clean' \in BOOLEAN /\ faults' \in 0..MaxFaults
  <2>1. CASE Save
    BY <1>1, <2>1, SaveIs DEF Save, TypeOK
  <2>2. CASE SaveFails
    BY <1>1, <2>2, FaultType DEF SaveFails, TypeOK, ledger
  <2> QED
    BY <2>1, <2>2
<1>5. TypeOK'
  BY <1>1, <1>2, <1>3, <1>4 DEF TypeOK, history
<1> QED
  BY <1>3, <1>5 DEF Typed, Switching, InStep

\* The best of an archive is one of its candidates.
LEMMA BestIs ==
  ASSUME NEW a \in Seq(Candidates), a # <<>>
  PROVE  /\ Best(a) \in Contents
         /\ \A i \in DOMAIN a : Best(a) >= a[i].state
<1> DEFINE S == {a[i].state : i \in DOMAIN a}
<1>1. \A i \in DOMAIN a : a[i].state \in Contents
  BY ArchiveParts
<1>2. S \in SUBSET Contents /\ S \in SUBSET Nat
  BY <1>1, Basics
<1>3. S # {}
  <2>1. 1 \in DOMAIN a
    BY ArchiveParts
  <2> QED
    BY <2>1
<1>4. PICK m \in Nat : \A x \in S : x <= m
  <2> DEFINE n == Len(a)
             f == [i \in 1..n |-> a[i].state]
  <2>1. n \in Nat /\ f \in [1..n -> Nat] /\ DOMAIN a = 1..n
    BY <1>1, ArchiveParts, Basics
  <2>2. \A i \in 1..n : f[i] = a[i].state
    OBVIOUS
  <2> HIDE DEF n, f
  <2>3. \E m \in Nat : \A i \in 1..n : f[i] <= m
    BY <2>1, Bounded
  <2> QED
    BY <2>1, <2>2, <2>3
<1>5. Best(a) = Max(S)
  BY DEF Best
<1>6. \A i \in DOMAIN a : a[i].state \in S
  OBVIOUS
<1> HIDE DEF S
<1>7. Max(S) \in S /\ \A x \in S : Max(S) >= x
  BY <1>2, <1>3, <1>4, MaxIs
<1> QED
  BY <1>2, <1>5, <1>6, <1>7

LEMMA TypedFinalBest ==
  ASSUME Typed, FinalBest
  PROVE  Typed'
<1>1. TypeOK /\ mem.archive \in Seq(Candidates) /\ Dev \in Live
  BY DevLives DEF Typed, TypeOK, Memory
<1>2. heads' \in [Branches -> HeadStates \cup {None}] /\ heads'[Dev] # None
  <2>1. CASE mem.archive = <<>>
    BY <1>1, <2>1 DEF FinalBest, TypeOK
  <2>2. CASE mem.archive # <<>>
    <3>1. Best(mem.archive) \in Contents /\ Put(Dev, Best(mem.archive))
      BY <1>1, <2>2, BestIs DEF FinalBest
    <3> QED
      BY <1>1, <3>1, PutIs
  <2> QED
    BY <2>1, <2>2
<1> QED
  BY <1>1, <1>2 DEF FinalBest, Touched, history, Typed, TypeOK, Switching, InStep

\* What an island leaves behind when it is given up.
LEMMA DiscardIs ==
  ASSUME TypeOK, Discard, NEW f, f = Tail(mem.forks)
  PROVE  /\ f \in Forks /\ Head(mem.forks) \in Branches \ {Dev}
         /\ mem' \in Memory /\ mem'.archive = mem.archive /\ mem'.tip = mem.tip /\ mem'.forks = f
         /\ mem'.best = mem.best /\ mem'.stalled = mem.stalled
         /\ mem'.base = mem.base /\ mem'.round = mem.round
         /\ heads' \in [Branches -> HeadStates \cup {None}] /\ heads'[Dev] = heads[Dev]
         /\ \A b \in Branches \ {Head(mem.forks)} : heads'[b] = heads[b]
         /\ faults' \in 0..MaxFaults
<1>1. mem \in Memory /\ mem.forks \in Seq(Branches \ {Dev}) /\ mem.forks # <<>>
  BY DEF TypeOK, Memory, Forks, Discard
<1>2. f \in Forks /\ Head(mem.forks) \in Branches \ {Dev}
  BY <1>1 DEF Forks
<1>3. mem' = [mem EXCEPT !.forks = f]
  BY <1>1 DEF Discard, Memory
<1>4. /\ mem' \in Memory /\ mem'.archive = mem.archive /\ mem'.tip = mem.tip /\ mem'.forks = f
      /\ mem'.best = mem.best /\ mem'.stalled = mem.stalled
      /\ mem'.base = mem.base /\ mem'.round = mem.round
  BY <1>1, <1>2, <1>3 DEF Memory
<1> DEFINE b == Head(mem.forks)
<1>5. \/ heads' = [heads EXCEPT ![b] = None] /\ UNCHANGED faults
      \/ Fault("discard") /\ UNCHANGED heads
  BY DEF Discard
<1>6. b \in Branches \ {Dev}
  BY <1>2
<1> HIDE DEF b
<1>7. /\ heads' \in [Branches -> HeadStates \cup {None}] /\ heads'[Dev] = heads[Dev]
      /\ \A c \in Branches \ {b} : heads'[c] = heads[c]
  BY <1>5, <1>6, Basics DEF TypeOK
<1>8. faults' \in 0..MaxFaults
  BY <1>5, FaultType DEF TypeOK
<1> QED
  BY <1>2, <1>4, <1>7, <1>8 DEF b

LEMMA TypedDiscard ==
  ASSUME Typed, Discard
  PROVE  Typed'
<1> DEFINE f == Tail(mem.forks)
<1> HIDE DEF f
<1>1. TypeOK /\ f = Tail(mem.forks)
  BY DEF Typed, f
<1>2. /\ mem' \in Memory /\ heads' \in [Branches -> HeadStates \cup {None}] /\ heads'[Dev] = heads[Dev]
      /\ faults' \in 0..MaxFaults
  BY <1>1, DiscardIs
<1>3. pc' = pc /\ pc = "discard" /\ UNCHANGED <<merges, disk, work, observed, stepped, history>> /\ Touched
  BY DEF Discard
<1> QED
  BY <1>1, <1>2, <1>3 DEF history, Touched, Typed, TypeOK, Switching, InStep

\* Every step keeps the types, and the place of a switch under way.
LEMMA TypedKept == Typed /\ [Next]_vars => Typed'
<1> SUFFICES ASSUME Typed, [Next]_vars
             PROVE  Typed'
  OBVIOUS
<1>1. CASE Start
  BY <1>1, TypedStart
<1>2. CASE Stop \/ End \/ SkipRound \/ Unmeasured
  BY <1>2, TypedRests
<1>3. CASE Merge
  BY <1>3, TypedMerge
<1>4. CASE Choose
  BY <1>4, TypedChoose
<1>5. CASE Fork
  BY <1>5, TypedFork
<1>6. CASE Switch
  BY <1>6, TypedSwitch
<1>7. CASE Measure
  BY <1>7, TypedMeasure
<1>8. CASE Save \/ SaveFails
  BY <1>8, TypedSave
<1>9. CASE FinalBest
  BY <1>9, TypedFinalBest
<1>10. CASE Discard
  BY <1>10, TypedDiscard
<1>11. CASE Dies
  BY <1>11, TypedDies
<1>12. CASE UNCHANGED vars
  BY <1>12 DEF vars, Typed, TypeOK, Switching, InStep, HasPlace, Number, Slots, Live
<1> QED
  BY <1>1, <1>2, <1>3, <1>4, <1>5, <1>6, <1>7, <1>8, <1>9, <1>10, <1>11, <1>12 DEF Next

LEMMA AlwaysTyped == Spec => []Typed
<1> QED
  BY TypedInit, TypedKept, PTL DEF Spec

\* Whatever the processes resume from, heads, checkpoint and memory keep their shape.
THEOREM PopulationTypeCorrect == Spec => []TypeOK
<1>1. Typed => TypeOK
  BY DEF Typed
<1> QED
  BY <1>1, AlwaysTyped, PTL

(***************************************************************************)
(* References                                                              *)
(***************************************************************************)
\* A newcomer gets an id of its own, and a candidate of the archive as its parent.
LEMMA AdmitCloses ==
  ASSUME TypeOK, NEW a \in Seq(Candidates), NEW b \in Live, Closed(a, mem.tip)
  PROVE  Closed(Admit(a, b), mem.tip)
<1> DEFINE t == Admit(a, b)
           new == Newcomer(a, b)
<1>1. new \in Candidates /\ (t = a \/ Joins(a, new, t))
  BY AdmitIs
<1>2. CASE t = a
  BY <1>2
<1>3. CASE Joins(a, new, t)
  <2>1. new.id = NodeId(a, heads[b].ver) /\ new.parent = mem.tip[b] /\ b \in Branches
    BY DEF Newcomer, Live
  <2>2. \A i \in DOMAIN a : a[i].id # new.id
    <3>1. heads[b].ver \in Numbers
      BY DEF Live, TypeOK, HeadStates
    <3> QED
      BY <2>1, <3>1, NodeIdIsNew
  <2> HIDE DEF t, new
  <2>3. /\ Len(a) \in Nat /\ DOMAIN a = 1..Len(a) /\ DOMAIN t = 1..(Len(a) + 1)
        /\ t[Len(a) + 1] = new /\ \A i \in DOMAIN a : t[i] = a[i]
    BY <1>3 DEF Joins
  <2>4. \A i \in DOMAIN t : i \in DOMAIN a \/ i = Len(a) + 1
    BY <2>3
  <2>5. \A i, j \in DOMAIN t : t[i].id = t[j].id => i = j
    <3> SUFFICES ASSUME NEW i \in DOMAIN t, NEW j \in DOMAIN t, t[i].id = t[j].id
                 PROVE  i = j
      OBVIOUS
    <3>1. CASE i \in DOMAIN a /\ j \in DOMAIN a
      BY <2>3, <3>1 DEF Closed
    <3>2. CASE i \in DOMAIN a /\ j = Len(a) + 1
      BY <2>2, <2>3, <3>2
    <3>3. CASE i = Len(a) + 1 /\ j \in DOMAIN a
      BY <2>2, <2>3, <3>3
    <3> QED
      BY <2>4, <3>1, <3>2, <3>3
  <2>6. ASSUME NEW i \in DOMAIN t
        PROVE  t[i].parent = None \/ \E j \in 1 .. (i - 1) : t[j].id = t[i].parent
    <3>1. CASE i \in DOMAIN a
      <4>1. a[i].parent = None \/ \E j \in 1 .. (i - 1) : a[j].id = a[i].parent
        BY <3>1 DEF Closed
      <4>2. \A j \in 1 .. (i - 1) : t[j] = a[j]
        BY <2>3, <3>1
      <4> QED
        BY <2>3, <3>1, <4>1, <4>2
    <3>2. CASE i = Len(a) + 1
      <4>1. mem.tip[b] = None \/ \E j \in DOMAIN a : a[j].id = mem.tip[b]
        BY <2>1 DEF Closed
      <4>2. (Len(a) + 1) - 1 = Len(a)
        BY <2>3
      <4> QED
        BY <2>1, <2>3, <3>2, <4>1, <4>2
    <3> QED
      BY <2>4, <3>1, <3>2
  <2>7. ASSUME NEW c \in Branches
        PROVE  mem.tip[c] = None \/ \E i \in DOMAIN t : t[i].id = mem.tip[c]
    <3>1. mem.tip[c] = None \/ \E i \in DOMAIN a : a[i].id = mem.tip[c]
      BY DEF Closed
    <3> QED
      BY <2>3, <3>1
  <2>8. Closed(t, mem.tip)
    BY <2>5, <2>6, <2>7 DEF Closed
  <2> QED
    BY <2>8 DEF t
<1> QED
  BY <1>1, <1>2, <1>3

LEMMA AdmitAllCloses ==
  ASSUME TypeOK, Closed(mem.archive, mem.tip)
  PROVE  Closed(AdmitAll(mem.archive), mem.tip)
<1> DEFINE S == {a \in Seq(Candidates) : Closed(a, mem.tip)}
<1>1. mem.archive \in S
  BY DEF TypeOK, Memory
<1>2. \A a \in S, b \in Live : Admit(a, b) \in S
  BY AdmitCloses, AdmitType
<1> HIDE DEF S
<1>3. AdmitAll(mem.archive) \in S
  BY <1>1, <1>2, AdmitAllIn
<1> QED
  BY <1>3 DEF S

LEMMA NothingCloses == Closed(<<>>, Fresh.tip) /\ IsInjective(<<>>)
BY DEF Closed, Fresh, IsInjective

LEMMA ReferencedInit == Init => Referenced
<1> SUFFICES ASSUME Init PROVE Referenced
  OBVIOUS
<1>1. mem = Fresh /\ disk = None /\ pc = "down"
  BY DEF Init
<1>2. mem.archive = <<>> /\ mem.forks = <<>> /\ mem.tip = Fresh.tip /\ Range(<<>>) = {}
  BY <1>1 DEF Fresh, Range
<1> QED
  BY <1>1, <1>2, NothingCloses DEF Referenced

\* What is resumed from a checkpoint.
LEMMA StartIs ==
  ASSUME TypeOK, Start
  PROVE  \/ disk = None /\ mem' = Fresh
         \/ /\ disk \in Checkpoints /\ disk # None
            /\ mem'.archive = disk.archive /\ mem'.tip = disk.tip
            /\ mem'.forks = LiveForks(disk.forks) /\ KeptOf(mem'.forks, disk.forks, Len(disk.forks))
            /\ mem'.best = disk.best /\ mem'.stalled = disk.stalled
            /\ mem'.base = disk.round + 1 /\ mem'.round = 0
<1>1. CASE disk = None
  BY <1>1 DEF Start, Restored
<1>2. CASE disk # None
  <2> DEFINE kept == LiveForks(disk.forks)
             next == disk.round + 1
  <2>1. disk \in Checkpoints /\ disk.forks \in Forks
    BY <1>2 DEF TypeOK, Checkpoints
  <2>2. KeptOf(kept, disk.forks, Len(disk.forks))
    BY <2>1, LiveForksIs
  <2>3. mem' = [archive |-> disk.archive, tip |-> disk.tip, forks |-> kept,
                best |-> disk.best, stalled |-> disk.stalled, base |-> next, round |-> 0]
    BY <1>2 DEF Start, Restored, Tracked
  <2> HIDE DEF kept, next
  <2>4. /\ mem'.archive = disk.archive /\ mem'.tip = disk.tip /\ mem'.forks = kept
        /\ mem'.best = disk.best /\ mem'.stalled = disk.stalled
        /\ mem'.base = next /\ mem'.round = 0
    BY <2>3
  <2> QED
    BY <1>2, <2>1, <2>2, <2>4 DEF kept, next
<1> QED
  BY <1>1, <1>2

LEMMA ReferencedStart ==
  ASSUME TypeOK, Referenced, Start
  PROVE  Referenced'
<1>1. pc' = "top" /\ disk' = disk /\ heads' = heads
  BY DEF Start, ledger
<1>2. Live' = Live
  BY <1>1 DEF Live
<1>3. CASE disk = None /\ mem' = Fresh
  <2>1. mem'.archive = <<>> /\ mem'.forks = <<>> /\ mem'.tip = Fresh.tip /\ Range(<<>>) = {}
    BY <1>3 DEF Fresh, Range
  <2> QED
    BY <1>1, <1>3, <2>1, NothingCloses DEF Referenced
<1>4. CASE /\ disk # None /\ mem'.archive = disk.archive /\ mem'.tip = disk.tip
           /\ KeptOf(mem'.forks, disk.forks, Len(disk.forks))
  BY <1>1, <1>2, <1>4 DEF Referenced, KeptOf, Range
<1> QED
  BY <1>3, <1>4, StartIs

\* The tip of a branch moves to a candidate of the archive.
LEMMA SwitchCloses ==
  ASSUME TypeOK, Switching, Switch, Closed(mem.archive, mem.tip)
  PROVE  Closed(mem.archive, mem'.tip)
<1>1. PICK c \in Range(mem.archive) : mem'.tip = [mem.tip EXCEPT ![work.branch] = c.id]
  BY SwitchIs
<1>2. mem.tip \in [Branches -> Numbers \cup {None}] /\ work.branch \in Branches
  BY DEF TypeOK, Memory
<1>3. PICK i \in DOMAIN mem.archive : mem.archive[i] = c
  BY DEF Range
<1>4. ASSUME NEW b \in Branches
      PROVE  mem'.tip[b] = None \/ \E j \in DOMAIN mem.archive : mem.archive[j].id = mem'.tip[b]
  <2>1. CASE b = work.branch
    BY <1>1, <1>2, <1>3, <2>1
  <2>2. CASE b # work.branch
    BY <1>1, <1>2, <2>2 DEF Closed
  <2> QED
    BY <2>1, <2>2
<1> QED
  BY <1>4 DEF Closed

LEMMA ReferencedSwitch ==
  ASSUME TypeOK, Switching, Referenced, Switch
  PROVE  Referenced'
<1>1. PICK c \in Range(mem.archive) :
         /\ pc = "switch" /\ c \in Candidates /\ (work.slot > 1 => work.branch # Dev)
         /\ Put(work.branch, c.state)
         /\ mem'.archive = mem.archive
         /\ mem'.forks = (IF work.branch = Dev THEN mem.forks ELSE Append(mem.forks, work.branch))
  BY SwitchIs
<1>2. work.branch \in Live /\ work.branch \in Branches
  BY <1>1, SwitchBranch DEF Live
<1>3. Live' = Live
  BY <1>1, <1>2, PutIs DEF Candidates
<1>4. mem.forks \in Seq(Branches \ {Dev}) /\ work \in [prev : Forks, slot : Numbers, branch : Branches]
  BY DEF TypeOK, Memory, Forks
<1>5. IsInjective(mem'.forks) /\ Range(mem'.forks) \subseteq Live
  <2> DEFINE b == work.branch
             f == mem.forks
  <2>1. CASE b = Dev
    BY <1>1, <2>1 DEF Referenced
  <2>2. CASE b # Dev
    <3>1. mem'.forks = Append(f, b) /\ b \notin Range(f) /\ IsInjective(f) /\ Range(f) \subseteq Live
      BY <1>1, <2>2 DEF Referenced
    <3>2. f \in Seq(Branches) /\ b \in Branches /\ b \in Live
      BY <1>2, <1>4
    <3> HIDE DEF f, b
    <3>3. /\ Len(f) \in Nat /\ DOMAIN f = 1..Len(f) /\ DOMAIN mem'.forks = 1..(Len(f) + 1)
          /\ mem'.forks[Len(f) + 1] = b /\ \A i \in DOMAIN f : mem'.forks[i] = f[i]
      BY <3>1, <3>2
    <3>4. \A i \in DOMAIN mem'.forks : i \in DOMAIN f \/ i = Len(f) + 1
      BY <3>3
    <3>5. \A i \in DOMAIN f : f[i] # b /\ f[i] \in Live
      BY <3>1 DEF Range
    <3> HIDE DEF Live
    <3>6. ASSUME NEW i \in DOMAIN mem'.forks, NEW j \in DOMAIN mem'.forks, mem'.forks[i] = mem'.forks[j]
          PROVE  i = j
      <4>1. CASE i \in DOMAIN f /\ j \in DOMAIN f
        BY <3>1, <3>3, <3>6, <4>1 DEF IsInjective
      <4>2. CASE i \in DOMAIN f /\ j = Len(f) + 1
        BY <3>3, <3>5, <3>6, <4>2
      <4>3. CASE i = Len(f) + 1 /\ j \in DOMAIN f
        BY <3>3, <3>5, <3>6, <4>3
      <4> QED
        BY <3>4, <4>1, <4>2, <4>3
    <3>7. \A i \in DOMAIN mem'.forks : mem'.forks[i] \in Live
      BY <3>2, <3>3, <3>4, <3>5
    <3> QED
      BY <3>6, <3>7 DEF IsInjective, Range
  <2> QED
    BY <2>1, <2>2
<1>6. Closed(mem'.archive, mem'.tip)
  BY <1>1, SwitchCloses DEF Referenced
<1>7. pc' = "switch" => work'.prev = work.prev /\ work'.branch = Dev
  BY <1>4 DEF Switch
<1>8. disk' = disk
  BY DEF Switch
<1> QED
  BY <1>1, <1>3, <1>5, <1>6, <1>7, <1>8 DEF Referenced

\* The first fork is gone, whether or not its branch could be removed.
LEMMA ReferencedDiscard ==
  ASSUME TypeOK, Referenced, Discard
  PROVE  Referenced'
<1> DEFINE f == mem.forks
           t == Tail(mem.forks)
<1>1. f \in Seq(Branches \ {Dev}) /\ f # <<>> /\ IsInjective(f) /\ Range(f) \subseteq Live
  BY DEF TypeOK, Memory, Forks, Discard, Referenced
<1>2. /\ mem'.archive = mem.archive /\ mem'.tip = mem.tip /\ mem'.forks = t
      /\ \A b \in Branches \ {Head(f)} : heads'[b] = heads[b]
  <2> HIDE DEF t
  <2>1. t = Tail(mem.forks)
    BY DEF t
  <2> QED
    BY <2>1, DiscardIs
<1>3. pc = "discard" /\ pc' = pc /\ disk' = disk
  BY DEF Discard
<1> HIDE DEF f
<1>4. t = Tail(f)
  BY DEF f, t
<1> HIDE DEF t
<1>5. /\ Len(f) \in Nat /\ DOMAIN f = 1..Len(f) /\ Len(f) > 0 /\ DOMAIN t = 1..(Len(f) - 1)
      /\ Head(f) = f[1] /\ \A i \in DOMAIN t : t[i] = f[i + 1] /\ i + 1 \in DOMAIN f /\ i \in Nat /\ i + 1 # 1
  BY <1>1, <1>4
<1>6. 1 \in DOMAIN f
  BY <1>5
<1>7. IsInjective(t)
  <2> SUFFICES ASSUME NEW i \in DOMAIN t, NEW j \in DOMAIN t, t[i] = t[j]
               PROVE  i = j
    BY DEF IsInjective
  <2>1. i + 1 = j + 1
    BY <1>1, <1>5 DEF IsInjective
  <2> QED
    BY <1>5, <2>1
<1>8. ASSUME NEW i \in DOMAIN t PROVE t[i] \in Live'
  <2>1. t[i] = f[i + 1] /\ i + 1 \in DOMAIN f /\ i + 1 # 1
    BY <1>5
  <2>2. t[i] # Head(f)
    BY <1>1, <1>5, <1>6, <2>1 DEF IsInjective
  <2>3. t[i] \in Live
    BY <1>1, <2>1 DEF Range
  <2> QED
    BY <1>2, <2>2, <2>3 DEF Live
<1>9. Range(t) \subseteq Live'
  BY <1>8 DEF Range
<1> QED
  BY <1>2, <1>3, <1>7, <1>9 DEF Referenced

LEMMA ReferencedKept ==
  ASSUME Typed, Referenced, [Next]_vars
  PROVE  Referenced'
<1> USE DEF Typed, ledger
<1>1. CASE Start
  BY <1>1, ReferencedStart
<1>2. CASE Stop \/ End \/ Dies \/ UNCHANGED vars
  <2>1. CASE Stop \/ End \/ UNCHANGED vars
    BY <2>1 DEF Stop, End, vars, Referenced, Live
  <2>2. CASE Dies
    <3>1. /\ disk' = disk /\ Live' = Live /\ pc' = "down" /\ Range(<<>>) = {}
          /\ mem'.archive = <<>> /\ mem'.forks = <<>> /\ mem'.tip = Fresh.tip
      BY <2>2 DEF Dies, Fresh, Live, Range
    <3> QED
      BY <3>1, NothingCloses DEF Referenced
  <2> QED
    BY <1>2, <2>1, <2>2
<1>3. CASE SkipRound \/ Unmeasured
  <2>1. Number < MaxRounds
    BY <1>3 DEF SkipRound, Unmeasured, Switching, InStep
  <2>2. mem'.archive = mem.archive /\ mem'.tip = mem.tip /\ mem'.forks = mem.forks
    BY <1>3, <2>1, NextRoundType DEF SkipRound, Unmeasured
  <2>3. disk' = disk /\ Live' = Live /\ pc' = "top"
    BY <1>3 DEF SkipRound, Unmeasured, Live
  <2> QED
    BY <2>2, <2>3 DEF Referenced
<1>4. CASE Merge
  <2>1. /\ mem'.archive = Admit(mem.archive, Dev) /\ mem'.tip = mem.tip
        /\ mem'.forks = mem.forks /\ Live' = Live
    BY <1>4, MergeIs
  <2>2. Closed(Admit(mem.archive, Dev), mem.tip)
    BY AdmitCloses, DevLives DEF Referenced, TypeOK, Memory
  <2>3. disk' = disk /\ pc' = "choose"
    BY <1>4 DEF Merge
  <2> QED
    BY <2>1, <2>2, <2>3 DEF Referenced
<1>5. CASE Choose
  <2> DEFINE archive == AdmitAll(mem.archive)
  <2>1. Closed(archive, mem.tip) /\ archive = AdmitAll(mem.archive)
    BY AdmitAllCloses DEF Referenced
  <2> HIDE DEF archive
  <2>2. /\ mem'.archive = archive /\ mem'.tip = mem.tip
        /\ \/ mem'.forks = <<>> /\ work'.prev = mem.forks /\ work'.branch = Dev
           \/ mem'.forks = mem.forks /\ pc' = "measure"
    BY <1>5, <2>1, ChooseIs
  <2>3. disk' = disk /\ Live' = Live /\ Range(<<>>) = {}
    BY <1>5 DEF Choose, Live, Range
  <2> QED
    BY <2>1, <2>2, <2>3, NothingCloses DEF Referenced
<1>6. CASE Fork
  <2> DEFINE b == IslandOf(work.slot - 2)
  <2>1. b = IslandOf(work.slot - 2)
    OBVIOUS
  <2> HIDE DEF b
  <2>2. /\ pc = "switch" /\ IsInjective(work.prev) => b \notin Range(mem.forks)
        /\ work'.prev = work.prev /\ work'.branch = b /\ Live \subseteq Live'
    BY <1>6, <2>1, ForkIs
  <2>3. mem' = mem /\ disk' = disk /\ pc' = pc
    BY <1>6 DEF Fork
  <2> QED
    BY <2>2, <2>3 DEF Referenced
<1>7. CASE Switch
  BY <1>7, ReferencedSwitch
<1>8. CASE Measure
  <2> DEFINE r == heads[Dev].state
  <2>1. r \in Contents /\ mem' = Observe(r)
    BY <1>8, DevState DEF Measure
  <2> HIDE DEF r
  <2>2. mem'.archive = mem.archive /\ mem'.tip = mem.tip /\ mem'.forks = mem.forks
    BY <2>1, ObserveIs
  <2>3. disk' = disk /\ Live' = Live /\ pc' = "save"
    BY <1>8 DEF Measure, Live
  <2> QED
    BY <2>2, <2>3 DEF Referenced
<1>9. CASE Save \/ SaveFails
  <2>1. Number < MaxRounds /\ Continue /\ heads' = heads
    BY <1>9 DEF Save, SaveFails, Switching, InStep
  <2>2. /\ mem'.archive = mem.archive /\ mem'.tip = mem.tip /\ mem'.forks = mem.forks
        /\ pc' # "switch" /\ Live' = Live
    BY <2>1, ContinueKeeps DEF Live
  <2>3. \/ disk' = disk
        \/ disk'.archive = mem.archive /\ disk'.tip = mem.tip /\ disk'.forks = mem.forks
    BY <1>9, <2>1, SaveIs DEF SaveFails
  <2> QED
    BY <2>2, <2>3 DEF Referenced
<1>10. CASE FinalBest
  <2>1. mem' = mem /\ disk' = disk /\ pc' = "discard"
    BY <1>10 DEF FinalBest
  <2>2. Live' = Live
    <3>1. CASE mem.archive = <<>>
      BY <1>10, <3>1 DEF FinalBest, Live
    <3>2. CASE mem.archive # <<>>
      <4>1. mem.archive \in Seq(Candidates) /\ Dev \in Live /\ Put(Dev, Best(mem.archive))
        BY <1>10, <3>2, DevLives DEF FinalBest, TypeOK, Memory
      <4> QED
        BY <3>2, <4>1, BestIs, PutIs
    <3> QED
      BY <3>1, <3>2
  <2> QED
    BY <2>1, <2>2 DEF Referenced
<1>11. CASE Discard
  BY <1>11, ReferencedDiscard
<1> QED
  BY <1>1, <1>2, <1>3, <1>4, <1>5, <1>6, <1>7, <1>8, <1>9, <1>10, <1>11 DEF Next

LEMMA ReferencedIsEnough ==
  ASSUME Typed, Referenced
  PROVE  NothingDangles
<1> DEFINE a == mem.archive
<1>1. a \in Seq(Candidates) /\ Closed(a, mem.tip)
  BY DEF Typed, TypeOK, Memory, Referenced
<1>2. ASSUME NEW i \in DOMAIN a
      PROVE  a[i].parent \in {None} \cup Ids(SubSeq(a, 1, i - 1))
  <2> DEFINE s == SubSeq(a, 1, i - 1)
  <2>1. DOMAIN s = 1 .. (i - 1) /\ \A j \in 1 .. (i - 1) : s[j] = a[j]
    <3> HIDE DEF a
    <3> QED
      BY <1>1
  <2> HIDE DEF s
  <2>2. a[i].parent = None \/ \E j \in 1 .. (i - 1) : a[j].id = a[i].parent
    BY <1>1 DEF Closed
  <2>3. a[i].parent = None \/ \E j \in DOMAIN s : s[j].id = a[i].parent
    BY <2>1, <2>2
  <2>4. a[i].parent \in {None} \cup Ids(s)
    BY <2>3 DEF Ids
  <2> QED
    BY <2>4 DEF s
<1>3. \A b \in Branches : mem.tip[b] \in {None} \cup Ids(a)
  BY <1>1 DEF Closed, Ids
<1>4. \A i, j \in DOMAIN a : a[i].id = a[j].id => i = j
  BY <1>1 DEF Closed
<1> QED
  BY <1>2, <1>3, <1>4 DEF Referenced, NothingDangles

\* Across crashes, lost checkpoints and resumes, no two candidates share an id,
\* every parent is an earlier candidate, every tip a candidate, and workers are
\* sent to different heads that live.
THEOREM NothingDanglesHolds == Spec => []NothingDangles
<1> DEFINE IInv == Typed /\ Referenced
<1>1. Init => IInv
  BY TypedInit, ReferencedInit
<1>2. IInv /\ [Next]_vars => IInv'
  BY TypedKept, ReferencedKept
<1>3. IInv => NothingDangles
  BY ReferencedIsEnough
<1> HIDE DEF IInv
<1> QED
  BY <1>1, <1>2, <1>3, PTL DEF Spec

(***************************************************************************)
(* The count of rounds, and patience                                       *)
(***************************************************************************)
LEMMA RecordParts ==
  ASSUME NEW s \in Records
  PROVE  /\ Len(s) \in Nat /\ DOMAIN s = 1..Len(s)
         /\ \A i \in 1..Len(s) : s[i].round \in Nat /\ s[i].reward \in Nat /\ s[i].reward > 0
<1>1. Len(s) \in Nat /\ DOMAIN s = 1..Len(s)
  BY DEF Records
<1>2. ASSUME NEW i \in 1..Len(s)
      PROVE  s[i].round \in Nat /\ s[i].reward \in Nat /\ s[i].reward > 0
  <2> DEFINE R == [round : Nat, reward : Contents]
  <2>1. s \in Seq(R) /\ i \in DOMAIN s
    BY <1>1 DEF Records
  <2> HIDE DEF R
  <2>2. s[i] \in R
    BY <2>1
  <2> QED
    BY <2>2, Basics DEF R
<1> QED
  BY <1>1, <1>2

\* The best reward so far: some record has it, once there is one, and none has more.
LEMMA TopIs ==
  ASSUME NEW s \in Records
  PROVE  /\ Top(s) \in Nat /\ \A i \in 1..Len(s) : s[i].reward <= Top(s)
         /\ Len(s) = 0 => Top(s) = 0
         /\ Len(s) > 0 => \E i \in 1..Len(s) : s[i].reward = Top(s)
<1> DEFINE S == {0} \cup {s[i].reward : i \in 1..Len(s)}
           n == Len(s)
           f == [i \in 1..n |-> s[i].reward]
<1>1. /\ n \in Nat /\ f \in [1..n -> Nat] /\ S \in SUBSET Nat /\ S # {}
      /\ \A i \in 1..n : f[i] = s[i].reward /\ s[i].reward \in S /\ s[i].reward > 0
  BY RecordParts
<1>2. PICK k \in Nat : \A i \in 1..n : f[i] <= k
  <2> HIDE DEF n, f
  <2> QED
    BY <1>1, Bounded
<1>3. \A x \in S : x <= k
  BY <1>1, <1>2
<1>4. Top(s) = Max(S)
  BY DEF Top
<1>5. Max(S) \in S /\ \A x \in S : Max(S) >= x
  <2> HIDE DEF S
  <2> QED
    BY <1>1, <1>3, MaxIs
<1>6. Top(s) \in Nat /\ Top(s) \in S /\ \A i \in 1..n : s[i].reward <= Top(s)
  <2>1. Top(s) \in Nat /\ Top(s) \in S
    BY <1>1, <1>4, <1>5
  <2>2. ASSUME NEW i \in 1..n PROVE s[i].reward <= Top(s)
    <3>1. s[i].reward \in S /\ s[i].reward \in Nat
      BY <1>1
    <3> HIDE DEF S
    <3> QED
      BY <1>4, <1>5, <2>1, <3>1
  <2> QED
    BY <2>1, <2>2
<1>7. ASSUME Len(s) > 0 PROVE \E i \in 1..Len(s) : s[i].reward = Top(s)
  <2>1. Top(s) # 0
    <3>1. 1 \in 1..n
      BY <1>1, <1>7
    <3> QED
      BY <1>1, <1>6, <3>1
  <2> QED
    BY <1>6, <2>1
<1>8. ASSUME Len(s) = 0 PROVE Top(s) = 0
  BY <1>6, <1>8
<1> QED
  BY <1>6, <1>7, <1>8

LEMMA TopIsOne ==
  ASSUME NEW s \in Records, NEW m \in Nat, \A i \in 1..Len(s) : s[i].reward <= m,
         m = 0 \/ \E i \in 1..Len(s) : s[i].reward = m
  PROVE  Top(s) = m
<1>1. /\ Top(s) \in Nat /\ \A i \in 1..Len(s) : s[i].reward <= Top(s)
      /\ Top(s) = 0 \/ \E i \in 1..Len(s) : s[i].reward = Top(s)
  <2>1. Len(s) \in Nat
    BY RecordParts
  <2> QED
    BY <2>1, TopIs
<1>2. Top(s) <= m
  BY <1>1
<1>3. m <= Top(s)
  BY <1>1
<1> QED
  BY <1>1, <1>2, <1>3

\* The record that first had it.
LEMMA FirstIs ==
  ASSUME NEW s \in Records
  PROVE  /\ First(s) \in Nat /\ First(s) <= Len(s)
         /\ \A i \in 1..Len(s) : s[i].reward = Top(s) => First(s) <= i
         /\ Len(s) > 0 => First(s) \in 1..Len(s) /\ s[First(s)].reward = Top(s)
<1> DEFINE T == {i \in 1..Len(s) : s[i].reward = Top(s)}
           S == {Len(s)} \cup T
<1>1. S \in SUBSET Nat /\ S # {} /\ Len(s) \in Nat /\ Len(s) \in S
  BY RecordParts
<1>2. Min(S) \in S /\ \A x \in S : Min(S) <= x
  <2> HIDE DEF S
  <2> QED
    BY <1>1, MinIs
<1>3. First(s) = Min(S)
  BY DEF First
<1>4. /\ First(s) \in Nat /\ First(s) <= Len(s)
      /\ \A i \in 1..Len(s) : s[i].reward = Top(s) => First(s) <= i
  BY <1>1, <1>2, <1>3
<1>5. ASSUME Len(s) > 0 PROVE First(s) \in T
  <2>1. PICK i \in 1..Len(s) : s[i].reward = Top(s)
    BY <1>5, TopIs
  <2>2. First(s) <= i /\ First(s) \in S
    BY <1>2, <1>3, <1>4, <2>1
  <2>3. CASE First(s) \in T
    BY <2>3
  <2>4. CASE First(s) = Len(s)
    <3>1. i = Len(s)
      BY <1>1, <2>2, <2>4
    <3> QED
      BY <2>1, <2>4, <3>1
  <2> QED
    BY <2>2, <2>3, <2>4
<1> QED
  BY <1>4, <1>5

\* With a better reward patience starts over; with any other one round more is lost.
LEMMA Recorded ==
  ASSUME NEW s \in Records, NEW e \in [round : Nat, reward : Contents],
         NEW t \in Records, t = Append(s, e)
  PROVE  /\ e.reward > Top(s) => Top(t) = e.reward /\ Len(t) - First(t) = 0
         /\ ~(e.reward > Top(s)) => Top(t) = Top(s) /\ Len(t) - First(t) = (Len(s) - First(s)) + 1
<1>1. /\ Len(s) \in Nat /\ Len(t) = Len(s) + 1 /\ t[Len(t)] = e
      /\ Len(t) \in 1..Len(t) /\ Len(t) \in Nat /\ Len(t) > 0
      /\ \A i \in 1..Len(s) : t[i] = s[i] /\ i \in 1..Len(t)
      /\ \A i \in 1..Len(t) : i \in 1..Len(s) \/ i = Len(t)
  BY DEF Records
<1>2. e.reward \in Nat /\ e.reward > 0
  BY Basics
<1>3. /\ Top(s) \in Nat /\ \A i \in 1..Len(s) : s[i].reward \in Nat /\ s[i].reward <= Top(s)
  BY TopIs, RecordParts
<1>4. ASSUME e.reward > Top(s) PROVE Top(t) = e.reward /\ Len(t) - First(t) = 0
  <2>1. \A i \in 1..Len(t) : t[i].reward <= e.reward
    <3> TAKE i \in 1..Len(t)
    <3>1. CASE i \in 1..Len(s)
      BY <1>1, <1>2, <1>3, <1>4, <3>1
    <3>2. CASE i = Len(t)
      BY <1>1, <1>2, <3>2
    <3> QED
      BY <1>1, <3>1, <3>2
  <2>2. Top(t) = e.reward
    <3>1. \E i \in 1..Len(t) : t[i].reward = e.reward
      BY <1>1
    <3> QED
      BY <1>2, <2>1, <3>1, TopIsOne
  <2>3. First(t) \in 1..Len(t) /\ t[First(t)].reward = e.reward
    BY <1>1, <2>2, FirstIs
  <2>4. First(t) = Len(t)
    <3>1. ASSUME First(t) \in 1..Len(s) PROVE FALSE
      BY <1>1, <1>2, <1>3, <1>4, <2>3, <3>1
    <3> QED
      BY <1>1, <2>3, <3>1
  <2> QED
    BY <1>1, <2>2, <2>4
<1>5. ASSUME ~(e.reward > Top(s))
      PROVE  Top(t) = Top(s) /\ Len(t) - First(t) = (Len(s) - First(s)) + 1
  <2>1. Len(s) > 0
    <3>1. Len(s) # 0
      BY <1>2, <1>5, TopIs
    <3> QED
      BY <1>1, <3>1
  <2>2. First(s) \in 1..Len(s) /\ s[First(s)].reward = Top(s)
    BY <2>1, FirstIs
  <2>3. Top(t) = Top(s)
    <3>1. \A i \in 1..Len(t) : t[i].reward <= Top(s)
      <4> TAKE i \in 1..Len(t)
      <4>1. CASE i \in 1..Len(s)
        BY <1>1, <1>3, <4>1
      <4>2. CASE i = Len(t)
        BY <1>1, <1>2, <1>3, <1>5, <4>2
      <4> QED
        BY <1>1, <4>1, <4>2
    <3>2. \E i \in 1..Len(t) : t[i].reward = Top(s)
      BY <1>1, <2>2
    <3> QED
      BY <1>3, <3>1, <3>2, TopIsOne
  <2>4. First(t) <= First(s)
    BY <1>1, <2>2, <2>3, FirstIs
  <2>5. First(s) <= First(t)
    <3>1. First(t) \in 1..Len(s) /\ t[First(t)].reward = Top(t)
      <4>1. First(t) \in 1..Len(t) /\ t[First(t)].reward = Top(t)
        BY <1>1, FirstIs
      <4>2. First(t) <= Len(s)
        BY <1>1, <2>2, <2>4, <4>1
      <4> QED
        BY <1>1, <4>1, <4>2
    <3>2. s[First(t)].reward = Top(s)
      BY <1>1, <2>3, <3>1
    <3> QED
      BY <3>1, <3>2, FirstIs
  <2>6. First(t) = First(s) /\ First(s) \in Nat
    BY <2>4, <2>5, FirstIs
  <2> QED
    BY <1>1, <2>3, <2>6
<1> QED
  BY <1>4, <1>5

LEMMA NothingRecorded ==
  /\ <<>> \in Records /\ InOrder(<<>>) /\ Top(<<>>) = 0 /\ Len(<<>>) - First(<<>>) = 0
  /\ 1..Len(<<>>) = {}
<1>1. <<>> \in Records /\ Len(<<>>) = 0
  BY DEF Records
<1>2. Top(<<>>) = 0 /\ First(<<>>) \in Nat /\ First(<<>>) <= 0
  BY <1>1, TopIs, FirstIs
<1>3. 1..Len(<<>>) = {}
  BY <1>1
<1>4. Len(<<>>) - First(<<>>) = 0
  BY <1>1, <1>2
<1> QED
  BY <1>1, <1>2, <1>3, <1>4 DEF InOrder

LEMMA CountedInit == Init => Counted
BY NothingRecorded DEF Init, Counted, InStep

\* Nothing is recorded and nothing saved, and the tracker stays as it is.
LEMMA CountedRests ==
  ASSUME TypeOK, Counted, observed' = observed, disk' = disk, pc # "down",
         mem' \in Memory, mem'.best = mem.best, mem'.stalled = mem.stalled, mem'.base = mem.base,
         \/ mem'.round = mem.round /\ pc' \in {"choose", "switch", "measure"}
                                   /\ pc \in {"top", "choose", "switch", "measure"}
         \/ mem'.round = mem.round /\ pc' \in {"final", "discard", "ended"}
         \/ mem'.round = mem.round + 1 /\ pc' = "top" /\ pc \in {"top", "measure", "save"}
         \/ mem'.round = mem.round /\ pc' = "final" /\ pc = "save"
  PROVE  Counted'
<1>1. /\ Number \in Nat /\ Len(observed) \in Nat
      /\ \A i \in 1..Len(observed) : observed[i].round \in Nat
  BY RecordParts DEF TypeOK, Memory, Number
<1>2. Number' = mem'.base + mem'.round
  BY DEF Number
<1>3. mem.base \in Nat /\ mem.round \in Nat
  BY Basics DEF TypeOK, Memory
<1>4. CASE /\ mem'.round = mem.round /\ pc' \in {"choose", "switch", "measure"}
           /\ pc \in {"top", "choose", "switch", "measure"}
  <2>1. Number' = Number
    BY <1>2, <1>4 DEF Number
  <2> QED
    BY <1>4, <2>1 DEF Counted, InStep
<1>5. CASE mem'.round = mem.round /\ pc' \in {"final", "discard", "ended"}
  <2>1. Number' = Number
    BY <1>2, <1>5 DEF Number
  <2> QED
    BY <1>5, <2>1 DEF Counted, InStep
<1>6. CASE mem'.round = mem.round + 1 /\ pc' = "top" /\ pc \in {"top", "measure", "save"}
  <2>1. Number' = Number + 1
    BY <1>2, <1>3, <1>6 DEF Number
  <2>2. \A i \in 1..Len(observed) : observed[i].round < Number'
    BY <1>1, <2>1 DEF Counted
  <2>3. \A i \in 1..Len(observed) : observed[i].round <= Number'
    BY <1>1, <2>1, <2>2
  <2>4. mem.best = Top(observed) /\ mem.stalled = Len(observed) - First(observed)
    BY <1>6 DEF Counted, InStep
  <2> QED
    BY <1>6, <2>2, <2>3, <2>4 DEF Counted, InStep
<1> QED
  BY <1>4, <1>5, <1>6

LEMMA CountedStart ==
  ASSUME TypeOK, Counted, Start
  PROVE  Counted'
<1>1. pc' = "top" /\ disk' = disk /\ observed' = (IF disk = None THEN <<>> ELSE disk.observed)
  BY DEF Start
<1>2. Number' = mem'.base + mem'.round
  BY DEF Number
<1>3. CASE disk = None /\ mem' = Fresh
  <2>1. mem'.best = 0 /\ mem'.stalled = 0
    BY <1>3 DEF Fresh
  <2> QED
    BY <1>1, <1>3, <2>1, NothingRecorded DEF Counted
<1>4. CASE /\ disk \in Checkpoints /\ disk # None
           /\ mem'.best = disk.best /\ mem'.stalled = disk.stalled
           /\ mem'.base = disk.round + 1 /\ mem'.round = 0
  <2>1. disk.round \in Nat /\ observed' = disk.observed /\ disk.observed \in Records
    BY <1>1, <1>4 DEF Checkpoints
  <2>2. Number' = disk.round + 1
    BY <1>2, <1>4, <2>1
  <2>3. \A i \in 1..Len(observed') : observed'[i].round <= disk.round /\ observed'[i].round \in Nat
    BY <1>4, <2>1, RecordParts DEF Counted
  <2>4. \A i \in 1..Len(observed') : observed'[i].round <= Number' /\ observed'[i].round < Number'
    BY <2>1, <2>2, <2>3
  <2> QED
    BY <1>1, <1>4, <2>1, <2>4 DEF Counted
<1> QED
  BY <1>3, <1>4, StartIs

LEMMA CountedMeasure ==
  ASSUME TypeOK, Counted, Measure
  PROVE  Counted'
<1> DEFINE r == heads[Dev].state
           e == [round |-> Number, reward |-> r]
           s == observed
           t == observed'
           n == Number
<1>1. r \in Contents /\ n \in Nat /\ s \in Records
  <2>1. n \in Nat
    BY Basics DEF TypeOK, Memory, Number
  <2>2. r \in Contents
    BY DevState
  <2> QED
    BY <2>1, <2>2 DEF TypeOK
<1>2. /\ mem' = Observe(r) /\ t = Append(s, e) /\ disk' = disk /\ pc = "measure" /\ pc' = "save"
  BY DEF Measure
<1>3. e \in [round : Nat, reward : Contents] /\ e.round = n /\ e.reward = r
  BY <1>1
<1> HIDE DEF e, r
<1>4. /\ mem'.base = mem.base /\ mem'.round = mem.round
      /\ r > mem.best => mem'.best = r /\ mem'.stalled = 0
      /\ ~(r > mem.best) => mem'.best = mem.best /\ mem'.stalled = mem.stalled + 1
  BY <1>1, <1>2, ObserveIs
<1>5. t \in Records
  BY <1>1, <1>2, <1>3 DEF Records
<1>6. Number' = n
  BY <1>4 DEF Number
<1>7. mem.best = Top(s) /\ mem.stalled = Len(s) - First(s)
  BY <1>2 DEF Counted, InStep
<1>8. /\ r > Top(s) => Top(t) = r /\ Len(t) - First(t) = 0
      /\ ~(r > Top(s)) => Top(t) = Top(s) /\ Len(t) - First(t) = (Len(s) - First(s)) + 1
  <2> HIDE DEF s, t
  <2> QED
    BY <1>1, <1>2, <1>3, <1>5, Recorded
<1>9. mem'.best = Top(t) /\ mem'.stalled = Len(t) - First(t)
  BY <1>4, <1>7, <1>8
<1>10. /\ Len(s) \in Nat /\ Len(t) = Len(s) + 1 /\ t[Len(t)] = e
       /\ \A i \in 1..Len(s) : t[i] = s[i] /\ s[i].round \in Nat
       /\ \A i \in 1..Len(t) : i \in 1..Len(s) \/ i = Len(t)
  <2> HIDE DEF s, t
  <2>1. /\ Len(s) \in Nat /\ Len(t) = Len(s) + 1 /\ t[Len(t)] = e
        /\ \A i \in 1..Len(s) : t[i] = s[i]
        /\ \A i \in 1..Len(t) : i \in 1..Len(s) \/ i = Len(t)
    BY <1>1, <1>2, <1>3 DEF Records
  <2> QED
    BY <1>1, <2>1, RecordParts
<1>11. InOrder(s) /\ \A i \in 1..Len(s) : s[i].round < n
  BY <1>2 DEF Counted
<1> HIDE DEF n, s, t
<1>12. \A i \in 1..Len(t) : t[i].round <= n
  BY <1>1, <1>3, <1>10, <1>11
<1>13. InOrder(t)
  <2> SUFFICES ASSUME NEW i \in 1..Len(t), NEW j \in 1..Len(t), i < j
               PROVE  t[i].round < t[j].round
    BY DEF InOrder
  <2>1. i \in 1..Len(s)
    BY <1>10
  <2>2. CASE j \in 1..Len(s)
    BY <1>10, <1>11, <2>1, <2>2 DEF InOrder
  <2>3. CASE j = Len(t)
    BY <1>3, <1>10, <1>11, <2>1, <2>3
  <2> QED
    BY <1>10, <2>2, <2>3
<1>14. /\ InOrder(observed') /\ \A i \in 1..Len(observed') : observed'[i].round <= Number'
       /\ mem'.best = Top(observed') /\ mem'.stalled = Len(observed') - First(observed')
  BY <1>6, <1>9, <1>12, <1>13 DEF t
<1> QED
  BY <1>2, <1>14 DEF Counted

LEMMA CountedSave ==
  ASSUME TypeOK, Counted, Number < MaxRounds, Save \/ SaveFails
  PROVE  Counted'
<1>1. Continue /\ observed' = observed /\ pc = "save"
  BY DEF Save, SaveFails
<1>2. /\ mem' \in Memory /\ mem'.best = mem.best /\ mem'.stalled = mem.stalled /\ mem'.base = mem.base
      /\ \/ pc' = "final" /\ mem'.round = mem.round
         \/ pc' = "top" /\ mem'.round = mem.round + 1
  BY <1>1, ContinueKeeps
<1>3. CASE disk' = disk
  BY <1>1, <1>2, <1>3, CountedRests
<1>4. CASE Save
  <2>1. /\ disk'.best = mem.best /\ disk'.stalled = mem.stalled
        /\ disk'.round = Number /\ disk'.observed = observed
    BY <1>4, SaveIs
  <2>2. /\ InOrder(observed) /\ \A i \in 1..Len(observed) : observed[i].round <= Number
        /\ mem.best = Top(observed) /\ mem.stalled = Len(observed) - First(observed)
    BY <1>1 DEF Counted, InStep
  <2>3. /\ mem.base \in Nat /\ mem.round \in Nat
        /\ \A i \in 1..Len(observed) : observed[i].round \in Nat
    BY RecordParts, Basics DEF TypeOK, Memory
  <2>4. /\ \A i \in 1..Len(observed) : observed[i].round <= Number'
        /\ pc' = "top" => \A i \in 1..Len(observed) : observed[i].round < Number'
    <3>1. Number' = Number \/ Number' = Number + 1
      BY <1>2, <2>3 DEF Number
    <3>2. pc' = "top" => Number' = Number + 1
      BY <1>2, <2>3 DEF Number
    <3>3. Number \in Nat
      BY <2>3 DEF Number
    <3> QED
      BY <2>2, <2>3, <3>1, <3>2, <3>3
  <2> QED
    BY <1>1, <1>2, <2>1, <2>2, <2>4 DEF Counted, InStep
<1> QED
  BY <1>3, <1>4 DEF SaveFails, ledger

LEMMA CountedKept ==
  ASSUME Typed, Counted, [Next]_vars
  PROVE  Counted'
<1> USE DEF Typed, ledger
<1>1. CASE Start
  BY <1>1, CountedStart
<1>2. CASE Stop \/ End
  BY <1>2, CountedRests DEF Stop, End, TypeOK
<1>3. CASE SkipRound \/ Unmeasured
  <2>1. Number < MaxRounds
    BY <1>3 DEF SkipRound, Unmeasured, Switching, InStep
  <2>2. /\ mem' \in Memory /\ mem'.best = mem.best /\ mem'.stalled = mem.stalled /\ mem'.base = mem.base
        /\ mem'.round = mem.round + 1
    BY <1>3, <2>1, NextRoundType DEF SkipRound, Unmeasured
  <2>3. observed' = observed /\ disk' = disk /\ pc' = "top" /\ pc \in {"top", "measure"}
    BY <1>3 DEF SkipRound, Unmeasured
  <2> QED
    BY <2>2, <2>3, CountedRests
<1>4. CASE Merge
  <2>1. observed' = observed /\ disk' = disk /\ pc' = "choose" /\ pc = "top"
    BY <1>4 DEF Merge
  <2> QED
    BY <1>4, <2>1, MergeIs, CountedRests
<1>5. CASE Choose
  <2> DEFINE archive == AdmitAll(mem.archive)
  <2>1. archive = AdmitAll(mem.archive)
    OBVIOUS
  <2> HIDE DEF archive
  <2>2. /\ mem' \in Memory /\ mem'.best = mem.best /\ mem'.stalled = mem.stalled
        /\ mem'.base = mem.base /\ mem'.round = mem.round /\ pc' \in {"switch", "measure"}
    BY <1>5, <2>1, ChooseIs
  <2>3. observed' = observed /\ disk' = disk /\ pc = "choose"
    BY <1>5 DEF Choose
  <2> QED
    BY <2>2, <2>3, CountedRests
<1>6. CASE Fork
  BY <1>6, CountedRests DEF Fork, TypeOK
<1>7. CASE Switch
  <2>1. /\ mem' \in Memory /\ mem'.best = mem.best /\ mem'.stalled = mem.stalled
        /\ mem'.base = mem.base /\ mem'.round = mem.round /\ pc = "switch"
    BY <1>7, SwitchIs
  <2>2. observed' = observed /\ disk' = disk /\ pc' \in {"switch", "measure"}
    BY <1>7, <2>1 DEF Switch
  <2> QED
    BY <2>1, <2>2, CountedRests
<1>8. CASE Measure
  BY <1>8, CountedMeasure
<1>9. CASE Save \/ SaveFails
  <2>1. Number < MaxRounds
    BY <1>9 DEF Save, SaveFails, Switching, InStep
  <2> QED
    BY <1>9, <2>1, CountedSave
<1>10. CASE FinalBest
  BY <1>10, CountedRests DEF FinalBest, TypeOK
<1>11. CASE Discard
  <2> DEFINE f == Tail(mem.forks)
  <2>1. f = Tail(mem.forks)
    OBVIOUS
  <2> HIDE DEF f
  <2>2. /\ mem' \in Memory /\ mem'.best = mem.best /\ mem'.stalled = mem.stalled
        /\ mem'.base = mem.base /\ mem'.round = mem.round
    BY <1>11, <2>1, DiscardIs
  <2>3. observed' = observed /\ disk' = disk /\ pc' = "discard" /\ pc = "discard"
    BY <1>11 DEF Discard
  <2> QED
    BY <2>2, <2>3, CountedRests
<1>12. CASE Dies
  <2>1. pc' = "down" /\ observed' = <<>> /\ disk' = disk
    BY <1>12 DEF Dies
  <2> QED
    BY <2>1, NothingRecorded DEF Counted, InStep
<1>13. CASE UNCHANGED vars
  BY <1>13 DEF vars, Counted, InStep, Number
<1> QED
  BY <1>1, <1>2, <1>3, <1>4, <1>5, <1>6, <1>7, <1>8, <1>9, <1>10, <1>11, <1>12, <1>13 DEF Next

\* A run that resumes goes on counting from its checkpoint: among the rounds saved
\* there and those recorded since no number is used twice, and best and stalled are
\* those of all their rewards.
THEOREM CountsOnHolds == Spec => []CountsOn
<1> DEFINE IInv == Typed /\ Counted
<1>1. Init => IInv
  BY TypedInit, CountedInit
<1>2. IInv /\ [Next]_vars => IInv'
  BY TypedKept, CountedKept
<1>3. IInv => CountsOn
  BY DEF Counted, CountsOn, InOrder, Top, First, InStep
<1> HIDE DEF IInv
<1> QED
  BY <1>1, <1>2, <1>3, PTL DEF Spec

(***************************************************************************)
(* What is published                                                       *)
(***************************************************************************)
\* Admission loses nothing and has what the branch holds.
LEMMA AdmitHolds ==
  ASSUME TypeOK, NEW a \in Seq(Candidates), NEW b \in Live
  PROVE  /\ Holds(Admit(a, b), heads[b].state)
         /\ \A s : Holds(a, s) => Holds(Admit(a, b), s)
<1> DEFINE t == Admit(a, b)
           new == Newcomer(a, b)
<1>1. (t = a /\ Holds(a, heads[b].state)) \/ Joins(a, new, t)
  BY AdmitIs
<1>2. CASE t = a /\ Holds(a, heads[b].state)
  BY <1>2
<1>3. CASE Joins(a, new, t)
  <2>1. new.state = heads[b].state
    BY DEF Newcomer
  <2> HIDE DEF t, new
  <2>2. /\ DOMAIN a \subseteq DOMAIN t /\ Len(t) \in DOMAIN t /\ t[Len(t)] = new
        /\ \A i \in DOMAIN a : t[i] = a[i]
    BY <1>3, ArchiveParts DEF Joins
  <2>3. Holds(t, heads[b].state) /\ \A s : Holds(a, s) => Holds(t, s)
    BY <2>1, <2>2 DEF Holds
  <2> QED
    BY <2>3 DEF t
<1> QED
  BY <1>1, <1>2, <1>3

LEMMA AdmitAllHolds ==
  ASSUME TypeOK
  PROVE  \A s : Holds(mem.archive, s) => Holds(AdmitAll(mem.archive), s)
<1> DEFINE S == {a \in Seq(Candidates) : \A s : Holds(mem.archive, s) => Holds(a, s)}
<1>1. mem.archive \in S
  BY DEF TypeOK, Memory
<1>2. ASSUME NEW a \in S, NEW b \in Live PROVE Admit(a, b) \in S
  <2>1. a \in Seq(Candidates) /\ \A s : Holds(mem.archive, s) => Holds(a, s)
    OBVIOUS
  <2>2. \A s : Holds(mem.archive, s) => Holds(Admit(a, b), s)
    BY <2>1, AdmitHolds
  <2> QED
    BY <2>1, <2>2, AdmitType
<1> HIDE DEF S
<1>3. AdmitAll(mem.archive) \in S
  BY <1>1, <1>2, AdmitAllIn
<1> QED
  BY <1>3 DEF S

LEMMA GatheredInit == Init => Gathered
BY DEF Init, Gathered, InStep, Fresh

\* Within a step or after the last, the archive stays.
LEMMA GatheredRests ==
  ASSUME Gathered, mem'.archive = mem.archive, start' = start, stepped' = stepped, pc # "down",
         disk' = disk \/ disk'.archive = mem.archive,
         \/ pc \in InStep /\ pc' \in {"top", "final"} \cup InStep
         \/ /\ heads'[Dev] = heads[Dev]
            /\ \/ pc = "top" /\ pc' \in {"top", "final"}
               \/ pc \in {"discard", "ended"} /\ pc' \in {"discard", "ended"}
  PROVE  Gathered'
<1>1. disk' # None => \A i \in DOMAIN disk'.archive : Holds(mem.archive, disk'.archive[i].state)
  BY DEF Gathered, Holds
<1>2. CASE pc \in InStep /\ pc' \in {"top", "final"} \cup InStep
  BY <1>1, <1>2 DEF Gathered, InStep
<1>3. CASE heads'[Dev] = heads[Dev] /\ pc = "top" /\ pc' \in {"top", "final"}
  BY <1>1, <1>3 DEF Gathered, InStep
<1>4. CASE heads'[Dev] = heads[Dev] /\ pc \in {"discard", "ended"} /\ pc' \in {"discard", "ended"}
  BY <1>1, <1>4 DEF Gathered, InStep
<1> QED
  BY <1>2, <1>3, <1>4

LEMMA GatheredKept ==
  ASSUME Typed, Gathered, [Next]_vars
  PROVE  Gathered'
<1> USE DEF Typed, ledger, history
<1>1. CASE Start
  <2>1. /\ pc' = "top" /\ stepped' = FALSE /\ start' = heads[Dev].state
        /\ heads' = heads /\ disk' = disk
    BY <1>1 DEF Start
  <2>2. disk = None \/ mem'.archive = disk.archive
    BY <1>1, StartIs
  <2> QED
    BY <2>1, <2>2 DEF Gathered, InStep, Holds
<1>2. CASE Stop \/ End \/ SkipRound \/ Unmeasured
  <2>1. CASE Stop
    BY <2>1, GatheredRests DEF Stop
  <2>2. CASE End
    BY <2>2, GatheredRests DEF End
  <2>3. CASE SkipRound
    <3>1. mem'.archive = mem.archive
      BY <2>3, NextRoundType DEF SkipRound
    <3> QED
      BY <2>3, <3>1, GatheredRests DEF SkipRound
  <2>4. CASE Unmeasured
    <3>1. mem'.archive = mem.archive
      BY <2>4, NextRoundType DEF Unmeasured, Switching, InStep
    <3> QED
      BY <2>4, <3>1, GatheredRests DEF Unmeasured, InStep
  <2> QED
    BY <1>2, <2>1, <2>2, <2>3, <2>4
<1>3. CASE Merge
  <2> DEFINE a == mem.archive
             t == Admit(a, Dev)
  <2>1. a \in Seq(Candidates) /\ Dev \in Live /\ mem'.archive = t
    BY <1>3, MergeIs, DevLives DEF TypeOK, Memory
  <2>2. Holds(t, heads[Dev].state) /\ \A s : Holds(a, s) => Holds(t, s)
    BY <2>1, AdmitHolds
  <2>3. pc = "top" /\ pc' = "choose" /\ stepped' = TRUE /\ start' = start /\ disk' = disk
    BY <1>3 DEF Merge
  <2> HIDE DEF t
  <2>4. Holds(t, start)
    BY <2>2, <2>3 DEF Gathered, TypeOK
  <2> QED
    BY <2>1, <2>2, <2>3, <2>4 DEF Gathered, InStep
<1>4. CASE Choose
  <2> DEFINE t == AdmitAll(mem.archive)
  <2>1. t = AdmitAll(mem.archive) /\ \A s : Holds(mem.archive, s) => Holds(t, s)
    BY AdmitAllHolds
  <2> HIDE DEF t
  <2>2. mem'.archive = t /\ pc' \in {"switch", "measure"}
    BY <1>4, <2>1, ChooseIs
  <2>3. pc = "choose" /\ stepped' = stepped /\ start' = start /\ disk' = disk
    BY <1>4 DEF Choose
  <2> QED
    BY <2>1, <2>2, <2>3 DEF Gathered, InStep
<1>5. CASE Fork
  <2>1. mem' = mem /\ disk' = disk /\ stepped' = stepped /\ start' = start /\ pc = "switch" /\ pc' = pc
    BY <1>5 DEF Fork
  <2> QED
    BY <2>1, GatheredRests DEF InStep
<1>6. CASE Switch
  <2>1. mem'.archive = mem.archive /\ pc = "switch"
    BY <1>6, SwitchIs
  <2>2. disk' = disk /\ stepped' = stepped /\ start' = start /\ pc' \in {"switch", "measure"}
    BY <1>6, <2>1 DEF Switch
  <2> QED
    BY <2>1, <2>2, GatheredRests DEF InStep
<1>7. CASE Measure
  <2> DEFINE r == heads[Dev].state
  <2>1. r \in Contents /\ mem' = Observe(r)
    BY <1>7, DevState DEF Measure
  <2> HIDE DEF r
  <2>2. mem'.archive = mem.archive
    BY <2>1, ObserveIs
  <2>3. disk' = disk /\ stepped' = stepped /\ start' = start /\ pc = "measure" /\ pc' = "save"
    BY <1>7 DEF Measure
  <2> QED
    BY <2>2, <2>3, GatheredRests DEF InStep
<1>8. CASE Save \/ SaveFails
  <2>1. Number < MaxRounds /\ Continue /\ pc = "save" /\ stepped' = stepped /\ start' = start
    BY <1>8 DEF Save, SaveFails, Switching, InStep
  <2>2. mem'.archive = mem.archive /\ pc' \in {"top", "final"}
    BY <2>1, ContinueKeeps
  <2>3. disk' = disk \/ disk'.archive = mem.archive
    BY <1>8, <2>1, SaveIs DEF SaveFails
  <2> QED
    BY <2>1, <2>2, <2>3, GatheredRests DEF InStep
<1>9. CASE FinalBest
  <2>1. mem' = mem /\ disk' = disk /\ stepped' = stepped /\ start' = start /\ pc = "final" /\ pc' = "discard"
    BY <1>9 DEF FinalBest
  <2>2. ASSUME mem.archive # <<>> PROVE heads'[Dev].state = Best(mem.archive)
    <3>1. mem.archive \in Seq(Candidates) /\ Dev \in Live /\ Put(Dev, Best(mem.archive))
      BY <1>9, <2>2, DevLives DEF FinalBest, TypeOK, Memory
    <3>2. Best(mem.archive) \in Contents
      BY <2>2, <3>1, BestIs
    <3> QED
      BY <3>1, <3>2, PutIs
  <2> QED
    BY <2>1, <2>2 DEF Gathered, InStep
<1>10. CASE Discard
  <2> DEFINE f == Tail(mem.forks)
  <2>1. f = Tail(mem.forks)
    OBVIOUS
  <2> HIDE DEF f
  <2>2. mem'.archive = mem.archive /\ heads'[Dev] = heads[Dev]
    BY <1>10, <2>1, DiscardIs
  <2>3. pc = "discard" /\ pc' = pc /\ disk' = disk /\ stepped' = stepped /\ start' = start
    BY <1>10 DEF Discard
  <2> QED
    BY <2>2, <2>3, GatheredRests
<1>11. CASE Dies
  BY <1>11 DEF Dies, Gathered, InStep, Fresh
<1>12. CASE UNCHANGED vars
  BY <1>12 DEF vars, Gathered
<1> QED
  BY <1>1, <1>2, <1>3, <1>4, <1>5, <1>6, <1>7, <1>8, <1>9, <1>10, <1>11, <1>12 DEF Next

LEMMA GatheredIsEnough ==
  ASSUME Typed, Gathered
  PROVE  BestIsPublished
<1> SUFFICES ASSUME pc = "ended", stepped
             PROVE  /\ heads[Dev].state >= start
                    /\ \A c \in Range(mem.archive) : heads[Dev].state >= c.state
                    /\ disk # None => \A c \in Range(disk.archive) : heads[Dev].state >= c.state
  BY DEF BestIsPublished
<1> DEFINE a == mem.archive
<1>1. a \in Seq(Candidates) /\ Holds(a, start)
  BY DEF Typed, TypeOK, Memory, Gathered
<1>2. a # <<>>
  BY <1>1 DEF Holds
<1>3. heads[Dev].state = Best(a) /\ \A i \in DOMAIN a : Best(a) >= a[i].state
  BY <1>1, <1>2, BestIs DEF Gathered
<1>4. \A s : Holds(a, s) => heads[Dev].state >= s
  BY <1>3 DEF Holds
<1>5. \A c \in Range(a) : Holds(a, c.state)
  BY DEF Range, Holds
<1>6. disk # None => \A c \in Range(disk.archive) : Holds(a, c.state)
  BY DEF Gathered, Range
<1> QED
  BY <1>1, <1>4, <1>5, <1>6

\* A clean end publishes on dev the best of what was there when the process came, of
\* what it archived and of what the checkpoint holds.
THEOREM BestIsPublishedHolds == Spec => []BestIsPublished
<1> DEFINE IInv == Typed /\ Gathered
<1>1. Init => IInv
  BY TypedInit, GatheredInit
<1>2. IInv /\ [Next]_vars => IInv'
  BY TypedKept, GatheredKept
<1>3. IInv => BestIsPublished
  BY GatheredIsEnough
<1> HIDE DEF IInv
<1> QED
  BY <1>1, <1>2, <1>3, PTL DEF Spec

(***************************************************************************)
(* Lineage                                                                 *)
(***************************************************************************)
\* What newcomers leave as it was.
Extends(a, t) ==
  /\ Len(a) <= Len(t)
  /\ \A id, s : Descends(a, id, s) => Descends(t, id, s)

LEMMA AdmitExtends ==
  ASSUME TypeOK, NEW a \in Seq(Candidates), NEW b \in Live
  PROVE  Extends(a, Admit(a, b))
<1> DEFINE t == Admit(a, b)
<1>1. t = a \/ Joins(a, Newcomer(a, b), t)
  BY AdmitIs
<1>2. Len(a) \in Nat /\ DOMAIN a = 1..Len(a)
  BY ArchiveParts
<1> HIDE DEF t
<1>3. Extends(a, t)
  <2>1. CASE t = a
    BY <1>2, <2>1 DEF Extends
  <2>2. CASE Joins(a, Newcomer(a, b), t)
    <3>1. /\ Len(a) <= Len(t) /\ DOMAIN a \subseteq DOMAIN t
          /\ \A i \in DOMAIN a : t[i] = a[i]
      BY <1>2, <2>2 DEF Joins
    <3> QED
      BY <3>1 DEF Extends, Descends
  <2> QED
    BY <1>1, <2>1, <2>2
<1> QED
  BY <1>3 DEF t

\* A branch whose head is archived already, or was made from the candidate the branch descends from.
Traced(a, b) ==
  \/ mem.tip[b] = None
  \/ Descends(a, mem.tip[b], heads[b].state)
  \/ Descends(a, mem.tip[b], heads[b].from)

\* The parent of a newcomer is the candidate it was made from.
LEMMA AdmitDerives ==
  ASSUME TypeOK, NEW a \in Seq(Candidates), NEW b \in Live,
         Closed(a, mem.tip), Derived(a), Traced(a, b)
  PROVE  Derived(Admit(a, b))
<1> DEFINE t == Admit(a, b)
           new == Newcomer(a, b)
<1>1. /\ t = a \/ (~Holds(a, heads[b].state) /\ Joins(a, new, t))
      /\ new \in Candidates
  BY AdmitIs
<1>2. CASE t = a
  BY <1>2
<1>3. CASE ~Holds(a, heads[b].state) /\ Joins(a, new, t)
  <2>1. /\ new.id = NodeId(a, heads[b].ver) /\ new.parent = mem.tip[b] /\ new.from = heads[b].from
        /\ b \in Branches
    BY DEF Newcomer, Live
  <2>2. new.id \in Numbers /\ \A i \in DOMAIN a : a[i].id # new.id
    <3>1. heads[b].ver \in Numbers
      BY DEF Live, TypeOK, HeadStates
    <3> QED
      BY <2>1, <3>1, NodeIdIsNew
  <2> HIDE DEF t, new
  <2>3. /\ Len(a) \in Nat /\ DOMAIN a = 1..Len(a) /\ DOMAIN t = 1..(Len(a) + 1)
        /\ t[Len(a) + 1] = new /\ \A i \in DOMAIN a : t[i] = a[i]
    BY <1>3 DEF Joins
  <2>4. \A i \in DOMAIN t : i \in DOMAIN a \/ i = Len(a) + 1
    BY <2>3
  <2>5. \A i \in DOMAIN a : a[i].parent # new.id
    <3> SUFFICES ASSUME NEW i \in DOMAIN a, a[i].parent = new.id
                 PROVE  FALSE
      OBVIOUS
    <3>1. new.id # None
      BY <2>2, Basics
    <3>2. PICK j \in 1 .. (i - 1) : a[j].id = a[i].parent
      BY <3>1 DEF Closed
    <3>3. j \in DOMAIN a
      BY <2>3
    <3> QED
      BY <2>2, <3>2, <3>3
  <2>6. new.parent # new.id
    <3>1. CASE mem.tip[b] = None
      BY <2>1, <2>2, <3>1, Basics
    <3>2. CASE mem.tip[b] # None
      BY <2>1, <2>2, <3>2 DEF Closed
    <3> QED
      BY <3>1, <3>2
  <2>7. ASSUME NEW j \in DOMAIN a, new.parent = a[j].id
        PROVE  new.from = a[j].state
    <3>1. mem.tip[b] # None
      BY <2>1, <2>7, ArchiveParts, Basics
    <3>2. ~Descends(a, mem.tip[b], heads[b].state)
      BY <1>3 DEF Descends, Holds
    <3>3. PICK i \in DOMAIN a : a[i].id = mem.tip[b] /\ a[i].state = heads[b].from
      BY <3>1, <3>2 DEF Traced, Descends
    <3>4. i = j
      BY <2>1, <2>7, <3>3 DEF Closed
    <3> QED
      BY <2>1, <3>3, <3>4
  <2>8. \A i, j \in DOMAIN t : t[i].parent = t[j].id => t[i].from = t[j].state
    <3> SUFFICES ASSUME NEW i \in DOMAIN t, NEW j \in DOMAIN t, t[i].parent = t[j].id
                 PROVE  t[i].from = t[j].state
      OBVIOUS
    <3>1. CASE i \in DOMAIN a /\ j \in DOMAIN a
      BY <2>3, <3>1 DEF Derived
    <3>2. CASE i \in DOMAIN a /\ j = Len(a) + 1
      BY <2>3, <2>5, <3>2
    <3>3. CASE i = Len(a) + 1 /\ j \in DOMAIN a
      BY <2>3, <2>7, <3>3
    <3>4. CASE i = Len(a) + 1 /\ j = Len(a) + 1
      BY <2>3, <2>6, <3>4
    <3> QED
      BY <2>4, <3>1, <3>2, <3>3, <3>4
  <2>9. Derived(t)
    BY <2>8 DEF Derived
  <2> QED
    BY <2>9 DEF t
<1> QED
  BY <1>1, <1>2, <1>3

LEMMA AdmitAllExtends ==
  ASSUME TypeOK
  PROVE  Extends(mem.archive, AdmitAll(mem.archive))
<1> DEFINE S == {a \in Seq(Candidates) : Extends(mem.archive, a)}
<1>1. mem.archive \in Seq(Candidates)
  BY DEF TypeOK, Memory
<1>2. mem.archive \in S
  <2>1. Len(mem.archive) \in Nat
    BY <1>1, ArchiveParts
  <2>2. Extends(mem.archive, mem.archive)
    BY <2>1 DEF Extends
  <2> QED
    BY <1>1, <2>2
<1>3. ASSUME NEW a \in S, NEW b \in Live PROVE Admit(a, b) \in S
  <2> DEFINE t == Admit(a, b)
  <2>1. a \in Seq(Candidates) /\ Extends(mem.archive, a) /\ Extends(a, t) /\ t \in Seq(Candidates)
    BY AdmitExtends, AdmitType
  <2> HIDE DEF t
  <2>2. Len(mem.archive) \in Nat /\ Len(a) \in Nat /\ Len(t) \in Nat
    BY <1>1, <2>1, ArchiveParts
  <2>3. Extends(mem.archive, t)
    BY <2>1, <2>2 DEF Extends
  <2> QED
    BY <2>1, <2>3 DEF t
<1> HIDE DEF S
<1>4. AdmitAll(mem.archive) \in S
  BY <1>2, <1>3, AdmitAllIn
<1> QED
  BY <1>4 DEF S

LEMMA AdmitAllDerives ==
  ASSUME TypeOK, Closed(mem.archive, mem.tip), Derived(mem.archive),
         \A b \in Live : Traced(mem.archive, b)
  PROVE  Derived(AdmitAll(mem.archive))
<1> DEFINE S == {a \in Seq(Candidates) : /\ Closed(a, mem.tip) /\ Derived(a)
                                         /\ \A b \in Live : Traced(a, b)}
<1>1. mem.archive \in S
  BY DEF TypeOK, Memory
<1>2. ASSUME NEW a \in S, NEW b \in Live PROVE Admit(a, b) \in S
  <2>1. a \in Seq(Candidates) /\ Closed(a, mem.tip) /\ Derived(a) /\ \A c \in Live : Traced(a, c)
    OBVIOUS
  <2>2. Closed(Admit(a, b), mem.tip) /\ Derived(Admit(a, b)) /\ Admit(a, b) \in Seq(Candidates)
    BY <2>1, AdmitCloses, AdmitDerives, AdmitType
  <2>3. \A c \in Live : Traced(Admit(a, b), c)
    BY <2>1, AdmitExtends DEF Extends, Traced
  <2> QED
    BY <2>2, <2>3
<1> HIDE DEF S
<1>3. AdmitAll(mem.archive) \in S
  BY <1>1, <1>2, AdmitAllIn
<1> QED
  BY <1>3 DEF S

LEMMA GrownFits ==
  ASSUME NEW a \in Seq(Candidates), NEW t \in Seq(Candidates), Extends(a, t), NEW forks \in Forks,
         Fits(forks, a)
  PROVE  Fits(forks, t)
<1>1. Len(a) \in Nat /\ Len(t) \in Nat /\ Len(a) <= Len(t)
  BY ArchiveParts DEF Extends
<1>2. DOMAIN forks \subseteq Nat /\ \A i \in DOMAIN forks : forks[i] \in Nat
  BY Basics DEF Forks
<1> QED
  BY <1>1, <1>2 DEF Fits

LEMMA GrownLone ==
  ASSUME NEW a \in Seq(Candidates), NEW t \in Seq(Candidates), Extends(a, t), NEW tip, Lone(a, tip)
  PROVE  Lone(t, tip)
<1>1. Len(a) \in Nat /\ Len(t) \in Nat /\ Len(a) <= Len(t)
  BY ArchiveParts DEF Extends
<1> QED
  BY <1>1 DEF Lone

LEMMA NothingDescends ==
  /\ Lone(<<>>, Fresh.tip) /\ Derived(<<>>) /\ Fits(<<>>, <<>>) /\ AtRest(<<>>, Fresh.tip, <<>>)
BY DEF Lone, Derived, Fits, AtRest, Tipped, Settled, Fresh, Live

LEMMA DescendedInit == Init => Descended
BY NothingDescends DEF Init, Fresh, Descended, OnDisk, InMemory, Resting, Merged, Switched

\* The checkpoint keeps its place while nobody but its search moves a head.
LEMMA OnDiskKept ==
  ASSUME OnDisk, disk' = disk, trusted' => trusted, clean' => clean /\ heads' = heads
  PROVE  OnDisk'
<1> SUFFICES ASSUME disk # None
             PROVE  /\ Lone(disk.archive, disk.tip) /\ Fits(disk.forks, disk.archive)
                    /\ trusted' => Derived(disk.archive)
                    /\ trusted' /\ clean' => AtRest(disk.archive, disk.tip, disk.forks)'
  BY DEF OnDisk
<1>1. clean' => (AtRest(disk.archive, disk.tip, disk.forks) => AtRest(disk.archive, disk.tip, disk.forks)')
  BY DEF AtRest, Tipped, Settled, Live
<1> QED
  BY <1>1 DEF OnDisk

LEMMA DescendedStart ==
  ASSUME TypeOK, Descended, Start
  PROVE  Descended'
<1>1. /\ pc' = "top" /\ disk' = disk /\ heads' = heads /\ clean' = clean
      /\ trusted' = (trusted /\ clean)
  BY DEF Start, ledger
<1>2. OnDisk'
  BY <1>1, OnDiskKept DEF Descended
<1>3. Live' = Live
  BY <1>1 DEF Live
<1>4. InMemory' /\ Resting'
  <2>1. CASE mem' = Fresh
    <3>1. mem'.archive = <<>> /\ mem'.forks = <<>> /\ mem'.tip = Fresh.tip
      BY <2>1 DEF Fresh
    <3>2. AtRest(<<>>, Fresh.tip, <<>>)'
      BY DEF AtRest, Tipped, Settled, Fresh, Live
    <3> QED
      BY <3>1, <3>2, NothingDescends DEF InMemory, Resting
  <2>2. CASE /\ disk \in Checkpoints /\ disk # None
             /\ mem'.archive = disk.archive /\ mem'.tip = disk.tip
             /\ KeptOf(mem'.forks, disk.forks, Len(disk.forks))
    <3> DEFINE a == disk.archive
               f == mem'.forks
               g == disk.forks
    <3>1. a \in Seq(Candidates) /\ g \in Forks /\ Lone(a, disk.tip) /\ Fits(g, a)
      BY <2>2 DEF Checkpoints, Descended, OnDisk
    <3>2. KeptOf(f, g, Len(g)) /\ f \in Forks
      BY <2>2 DEF KeptOf
    <3>3. Fits(f, a)
      <4> HIDE DEF a, f, g
      <4>1. Len(a) \in Nat /\ SlotLimit \in Nat
        BY <3>1, ArchiveParts, Basics
      <4>2. /\ DOMAIN f \subseteq Nat /\ \A i \in DOMAIN f : f[i] \in Nat
            /\ DOMAIN g = 1..Len(g) /\ DOMAIN g \subseteq Nat
        BY <3>1, <3>2, Basics DEF Forks
      <4> SUFFICES ASSUME NEW j \in DOMAIN f
                   PROVE  /\ j < Len(a) /\ j < SlotLimit
                          /\ Islands = 0 => f[j] < Len(a) /\ f[j] < SlotLimit
        BY DEF Fits
      <4>3. PICK i \in 1..Len(g) : i >= j /\ f[j] = g[i]
        BY <3>2 DEF KeptOf
      <4>4. i < Len(a) /\ i < SlotLimit /\ (Islands = 0 => g[i] < Len(a) /\ g[i] < SlotLimit)
        BY <3>1, <4>2 DEF Fits
      <4>5. j \in Nat /\ i \in Nat
        BY <4>2
      <4> QED
        BY <4>1, <4>3, <4>4, <4>5
    <3>4. ASSUME trusted' PROVE Derived(a) /\ AtRest(mem.archive, mem.tip, mem.forks)'
      <4>1. Derived(a) /\ AtRest(a, disk.tip, g)
        BY <1>1, <2>2, <3>4 DEF Descended, OnDisk
      <4>2. \A b \in Live : b \in Range(g) => b \in Range(f)
        BY <3>1, <3>2 DEF KeptOf, Range, Forks
      <4>3. \A b \in Live : disk.tip[b] # None => b = Dev \/ b \in Range(f)
        BY <4>1, <4>2 DEF AtRest, Tipped
      <4>4. Tipped(mem.tip, mem.forks)'
        BY <1>3, <2>2, <4>3 DEF Tipped
      <4>5. \A b \in Live' : Settled(mem.archive, mem.tip, b)'
        BY <1>1, <1>3, <2>2, <4>1 DEF AtRest, Settled
      <4> QED
        BY <4>1, <4>4, <4>5 DEF AtRest
    <3> QED
      BY <2>2, <3>1, <3>3, <3>4 DEF InMemory, Resting
  <2> QED
    BY <2>1, <2>2, StartIs
<1> QED
  BY <1>1, <1>2, <1>4 DEF Descended, Merged, Switched

\* Between selections, and after the last, archive and tips stay.
LEMMA DescendedRests ==
  ASSUME Descended, OnDisk', mem'.archive = mem.archive, mem'.tip = mem.tip, trusted' = trusted,
         pc' \notin {"choose", "switch"},
         pc' \in {"top", "measure", "save"} =>
           pc \in {"top", "measure", "save"} /\ mem'.forks = mem.forks /\ heads' = heads
  PROVE  Descended'
<1>1. InMemory'
  BY DEF Descended, InMemory
<1>2. Resting'
  <2> SUFFICES ASSUME pc' \in {"top", "measure", "save"}
               PROVE  /\ Fits(mem.forks, mem.archive)
                      /\ trusted => AtRest(mem.archive, mem.tip, mem.forks)'
    BY DEF Resting
  <2>1. /\ pc \in {"top", "measure", "save"} /\ mem'.forks = mem.forks /\ heads' = heads
    OBVIOUS
  <2>2. /\ Fits(mem.forks, mem.archive)
        /\ trusted => AtRest(mem.archive, mem.tip, mem.forks)
    BY <2>1 DEF Descended, Resting
  <2>3. AtRest(mem.archive, mem.tip, mem.forks) => AtRest(mem.archive, mem.tip, mem.forks)'
    BY <2>1 DEF AtRest, Tipped, Settled, Live
  <2> QED
    BY <2>2, <2>3
<1> QED
  BY <1>1, <1>2 DEF Descended, Merged, Switched

LEMMA DescendedMerge ==
  ASSUME TypeOK, Referenced, Descended, Merge
  PROVE  Descended'
<1> DEFINE a == mem.archive
           t == Admit(a, Dev)
<1>1. a \in Seq(Candidates) /\ Dev \in Live /\ mem.forks \in Forks /\ t \in Seq(Candidates) /\ Extends(a, t)
  <2>1. a \in Seq(Candidates) /\ Dev \in Live /\ mem.forks \in Forks
    BY DevLives DEF TypeOK, Memory
  <2> QED
    BY <2>1, AdmitType, AdmitExtends
<1>2. /\ mem'.archive = t /\ mem'.tip = mem.tip /\ mem'.forks = mem.forks /\ Live' = Live
      /\ \A b \in Live : heads'[b] = heads[b] \/ heads'[b].from = heads[b].state
  BY MergeIs
<1>3. pc = "top" /\ pc' = "choose" /\ disk' = disk /\ trusted' = trusted /\ clean' = (clean /\ heads' = heads)
  BY DEF Merge, Touched, history
<1>4. OnDisk'
  BY <1>3, OnDiskKept DEF Descended
<1>5. Lone(a, mem.tip) /\ Fits(mem.forks, a)
  BY <1>3 DEF Descended, InMemory, Resting
<1>6. Lone(t, mem.tip) /\ Fits(mem.forks, t)
  <2> HIDE DEF a, t
  <2> QED
    BY <1>1, <1>5, GrownLone, GrownFits
<1>7. ASSUME trusted
      PROVE  /\ Derived(t) /\ Tipped(mem.tip, mem.forks)
             /\ \A b \in Live : Settled(a, mem.tip, b)
  <2>1. Derived(a) /\ AtRest(a, mem.tip, mem.forks)
    BY <1>3, <1>7 DEF Descended, InMemory, Resting
  <2>2. Traced(a, Dev)
    BY <1>1, <2>1 DEF AtRest, Settled, Traced
  <2>3. Closed(a, mem.tip)
    BY DEF Referenced
  <2>4. Derived(t)
    BY <1>1, <2>1, <2>2, <2>3, AdmitDerives
  <2> QED
    BY <2>1, <2>4 DEF AtRest
<1> HIDE DEF a, t
<1>8. ASSUME trusted, NEW b \in Live
      PROVE  Settled(mem.archive, mem.tip, b)' \/ Descends(mem.archive, mem.tip[b], heads[b].from)'
  <2>1. mem.tip[b] = None \/ Descends(t, mem.tip[b], heads[b].state)
    BY <1>1, <1>7, <1>8 DEF Settled, Extends
  <2> QED
    BY <1>2, <2>1 DEF Settled
<1>9. Merged'
  <2>1. trusted => Tipped(mem.tip, mem.forks)'
    BY <1>2, <1>7 DEF Tipped
  <2> QED
    BY <1>2, <1>3, <1>6, <1>8, <2>1 DEF Merged
<1>10. InMemory'
  BY <1>2, <1>3, <1>6, <1>7 DEF InMemory
<1> QED
  BY <1>3, <1>4, <1>9, <1>10 DEF Descended, Resting, Switched

LEMMA DescendedChoose ==
  ASSUME TypeOK, Referenced, Descended, Choose
  PROVE  Descended'
<1> DEFINE a == mem.archive
           t == AdmitAll(a)
<1>1. a \in Seq(Candidates) /\ mem.forks \in Forks /\ t \in Seq(Candidates) /\ Extends(a, t)
  BY AdmitAllType, AdmitAllExtends DEF TypeOK, Memory
<1>2. t = AdmitAll(mem.archive)
  OBVIOUS
<1>3. pc = "choose" /\ heads' = heads /\ clean' = clean /\ disk' = disk /\ trusted' = trusted /\ Live' = Live
  BY DEF Choose, ledger, history, Live
<1>4. OnDisk'
  BY <1>3, OnDiskKept DEF Descended
<1>5. Lone(a, mem.tip) /\ Fits(mem.forks, a)
  BY <1>3 DEF Descended, InMemory, Merged
<1>6. ASSUME trusted PROVE Derived(t) /\ Tipped(mem.tip, mem.forks)
  <2>1. Closed(a, mem.tip) /\ Derived(a)
    BY <1>6 DEF Referenced, Descended, InMemory
  <2>2. \A b \in Live : Traced(a, b)
    BY <1>3, <1>6 DEF Descended, Merged, Settled, Traced
  <2>3. Derived(t)
    BY <2>1, <2>2, AdmitAllDerives
  <2> QED
    BY <1>3, <1>6, <2>3 DEF Descended, Merged
<1> HIDE DEF t
<1>7. Lone(t, mem.tip) /\ Fits(mem.forks, t)
  <2> HIDE DEF a
  <2> QED
    BY <1>1, <1>5, GrownLone, GrownFits
<1>8. /\ mem'.archive = t /\ mem'.tip = mem.tip
      /\ \/ /\ Len(t) > 1 /\ pc' = "switch" /\ mem'.forks = <<>>
            /\ work'.prev = mem.forks /\ work'.slot = 1 /\ work'.branch = Dev
         \/ ~(Len(t) > 1) /\ pc' = "measure" /\ mem'.forks = mem.forks
  BY <1>2, ChooseIs
<1>9. InMemory'
  BY <1>3, <1>6, <1>7, <1>8 DEF InMemory
<1>10. CASE pc' = "switch"
  <2>1. mem'.forks = <<>> /\ work'.prev = mem.forks /\ work'.slot = 1 /\ work'.branch = Dev
    BY <1>8, <1>10
  <2>2. ASSUME trusted, NEW b \in Live, mem.tip[b] # None
        PROVE  b \in {Dev, Dev} \cup Range(mem.forks) \cup Range(<<>>)
    BY <1>6, <2>2 DEF Tipped
  <2>3. Range(<<>>) = {}
    BY DEF Range
  <2>4. Switched'
    BY <1>3, <1>7, <1>8, <2>1, <2>2, <2>3 DEF Switched
  <2> QED
    BY <1>4, <1>9, <1>10, <2>4 DEF Descended, Resting, Merged
<1>11. CASE pc' = "measure"
  <2>1. ~(Len(t) > 1) /\ mem'.forks = mem.forks
    BY <1>8, <1>11
  <2>2. \A b \in Branches : mem.tip[b] = None
    BY <1>1, <1>7, <2>1, ArchiveParts DEF Lone
  <2>3. AtRest(mem.archive, mem.tip, mem.forks)'
    BY <1>8, <2>2 DEF AtRest, Tipped, Settled, Live
  <2>4. Resting'
    BY <1>7, <1>8, <2>1, <2>3 DEF Resting
  <2> QED
    BY <1>4, <1>9, <1>11, <2>4 DEF Descended, Merged, Switched
<1> QED
  BY <1>8, <1>10, <1>11

LEMMA DescendedFork ==
  ASSUME TypeOK, Switching, Referenced, Descended, Fork
  PROVE  Descended'
<1> DEFINE f == IslandOf(work.slot - 2)
<1>1. f = IslandOf(work.slot - 2)
  OBVIOUS
<1> HIDE DEF f
<1>2. /\ pc = "switch" /\ work.slot > 1 /\ work.branch = Dev /\ f \in Branches \ {Dev}
      /\ IsInjective(work.prev) => f \notin Range(mem.forks)
  BY <1>1, ForkIs
<1>3. /\ work'.prev = work.prev /\ work'.slot = work.slot /\ work'.branch = f
      /\ Live \subseteq Live' /\ Live' \subseteq Live \cup {f}
      /\ \A c \in Branches \ {f} : heads'[c] = heads[c]
  BY <1>1, ForkIs
<1>4. f \notin Range(mem.forks)
  BY <1>2 DEF Referenced
<1>5. mem' = mem /\ pc' = pc /\ disk' = disk /\ trusted' = trusted /\ clean' = (clean /\ heads' = heads)
  BY DEF Fork, Touched, history
<1>6. OnDisk'
  BY <1>5, OnDiskKept DEF Descended
<1>7. InMemory'
  BY <1>5 DEF Descended, InMemory
<1>8. Switched'
  <2>1. Fits(work.prev, mem.archive)'
    BY <1>2, <1>3, <1>5 DEF Descended, Switched
  <2>2. ASSUME trusted, NEW b \in Live', mem.tip[b] # None
        PROVE  b \in {Dev, f} \cup Range(work.prev) \cup Range(mem.forks)
    BY <1>2, <1>3, <2>2 DEF Descended, Switched
  <2>3. ASSUME trusted PROVE Settled(mem.archive, mem.tip, Dev)'
    <3>1. Settled(mem.archive, mem.tip, Dev)
      BY <1>2, <2>3 DEF Descended, Switched
    <3> QED
      BY <1>2, <1>3, <1>5, <3>1, Basics DEF Settled
  <2>4. ASSUME trusted, NEW b \in Range(mem.forks) PROVE Settled(mem.archive, mem.tip, b)'
    <3>1. Settled(mem.archive, mem.tip, b)
      BY <1>2, <2>4 DEF Descended, Switched
    <3>2. b \in Branches \ {f}
      BY <1>4 DEF Referenced, Live
    <3> QED
      BY <1>3, <1>5, <3>1, <3>2 DEF Settled
  <2> QED
    BY <1>3, <1>5, <2>1, <2>2, <2>3, <2>4 DEF Switched
<1> QED
  BY <1>2, <1>5, <1>6, <1>7, <1>8 DEF Descended, Resting, Merged

\* With the last slot every branch that was forked before has been switched or forked anew.
LEMMA LastSlot ==
  ASSUME NEW prev \in Forks, NEW forks \in Forks, NEW archive \in Seq(Candidates),
         NEW slots, slots = Min({Len(archive), SlotLimit}), Len(archive) > 1,
         Len(forks) = slots - 1, Fits(prev, archive),
         \A i \in DOMAIN forks : IF Islands > 0 THEN i <= Len(prev) => forks[i] = prev[i]
                                 ELSE forks[i] = i
  PROVE  Range(prev) \subseteq Range(forks) /\ Fits(forks, archive)
<1>1. /\ Len(archive) \in Nat /\ SlotLimit \in Nat /\ SlotLimit > 0 /\ Islands \in Nat
      /\ DOMAIN prev = 1..Len(prev) /\ Len(prev) \in Nat
      /\ DOMAIN forks = 1..Len(forks) /\ Len(forks) \in Nat
      /\ \A i \in DOMAIN prev : prev[i] \in Nat /\ prev[i] > 0
  BY ArchiveParts, Basics DEF Forks
<1>2. /\ slots \in Nat /\ slots <= Len(archive) /\ slots <= SlotLimit
      /\ slots = Len(archive) \/ slots = SlotLimit
  <2>1. {Len(archive), SlotLimit} \in SUBSET Nat
    BY <1>1
  <2> QED
    BY <1>1, <2>1, MinIs
<1>3. \A n \in Nat : n < Len(archive) /\ n < SlotLimit <=> n <= slots - 1
  BY <1>1, <1>2
<1>4. Fits(forks, archive)
  <2> SUFFICES ASSUME NEW i \in DOMAIN forks
               PROVE  /\ i < Len(archive) /\ i < SlotLimit
                      /\ Islands = 0 => forks[i] < Len(archive) /\ forks[i] < SlotLimit
    BY DEF Fits
  <2>1. i \in Nat /\ i <= slots - 1
    BY <1>1
  <2>2. i < Len(archive) /\ i < SlotLimit
    BY <1>3, <2>1
  <2>3. ASSUME Islands = 0 PROVE forks[i] = i
    <3>1. ~(Islands > 0)
      BY <2>3
    <3> QED
      BY <3>1
  <2> QED
    BY <2>2, <2>3
<1>5. ASSUME NEW i \in DOMAIN prev PROVE \E j \in DOMAIN forks : forks[j] = prev[i]
  <2>1. i \in Nat /\ i > 0 /\ i <= Len(prev) /\ i < Len(archive) /\ i < SlotLimit
    BY <1>1 DEF Fits
  <2>2. CASE Islands > 0
    <3>1. i <= slots - 1
      BY <1>3, <2>1
    <3>2. i \in DOMAIN forks
      BY <1>1, <2>1, <3>1
    <3> QED
      BY <2>1, <2>2, <3>2
  <2>3. CASE ~(Islands > 0)
    <3> DEFINE p == prev[i]
    <3>1. p \in Nat /\ p > 0 /\ p < Len(archive) /\ p < SlotLimit
      BY <1>1, <2>3 DEF Fits
    <3>2. p <= slots - 1
      BY <1>3, <3>1
    <3>3. p \in DOMAIN forks
      BY <1>1, <3>1, <3>2
    <3>4. forks[p] = p
      BY <2>3, <3>3
    <3> QED
      BY <3>3, <3>4
  <2> QED
    BY <2>2, <2>3
<1>6. ASSUME NEW b \in Range(prev) PROVE b \in Range(forks)
  <2>1. PICK i \in DOMAIN prev : prev[i] = b
    BY DEF Range
  <2>2. PICK j \in DOMAIN forks : forks[j] = prev[i]
    BY <1>5
  <2> QED
    BY <2>1, <2>2 DEF Range
<1> QED
  BY <1>4, <1>6

\* What Switch leaves of the switch under way.
LEMMA SwitchSettles ==
  ASSUME TypeOK, Switching, Referenced, Descended, Switch, trusted
  PROVE  /\ \A b \in Live' : mem'.tip[b] # None => b \in {Dev} \cup Range(work.prev) \cup Range(mem'.forks)
         /\ Settled(mem.archive, mem.tip, Dev)'
         /\ \A b \in Range(mem'.forks) : Settled(mem.archive, mem.tip, b)'
<1>0. PICK b \in Branches : b = work.branch
  BY DEF TypeOK
<1>1. PICK c \in Range(mem.archive) :
         /\ pc = "switch" /\ c \in Candidates /\ (work.slot > 1 => b # Dev)
         /\ Put(b, c.state)
         /\ mem'.archive = mem.archive
         /\ mem'.tip = [mem.tip EXCEPT ![b] = c.id]
         /\ mem'.forks = (IF b = Dev THEN mem.forks ELSE Append(mem.forks, b))
  BY <1>0, SwitchIs
<1>2. b \in Live /\ (b = Dev <=> work.slot = 1) /\ work.slot \in Nat /\ work.slot > 0
  BY <1>0, <1>1, SwitchBranch
<1>3. mem.tip \in [Branches -> Numbers \cup {None}] /\ mem.forks \in Seq(Branches \ {Dev})
  BY DEF TypeOK, Memory, Forks
<1>4. /\ \A d \in Branches : d # b => heads'[d] = heads[d]
      /\ heads'[b].state = c.state /\ Live' = Live
  BY <1>1, <1>2, PutIs DEF Candidates
<1>5. /\ \A d \in Live : mem.tip[d] # None => d \in {Dev, b} \cup Range(work.prev) \cup Range(mem.forks)
      /\ work.slot > 1 => Settled(mem.archive, mem.tip, Dev)
      /\ \A d \in Range(mem.forks) : Settled(mem.archive, mem.tip, d)
  BY <1>0, <1>1 DEF Descended, Switched
<1>6. Settled(mem.archive, mem.tip, b)'
  <2>1. PICK i \in DOMAIN mem.archive : mem.archive[i] = c
    BY DEF Range
  <2>2. Descends(mem.archive, c.id, c.state)
    BY <2>1 DEF Descends
  <2>3. mem'.tip[b] = c.id
    BY <1>1, <1>2, <1>3
  <2>4. Descends(mem.archive, mem.tip[b], heads[b].state)'
    BY <1>1, <1>4, <2>2, <2>3
  <2> QED
    BY <2>4 DEF Settled
<1>7. ASSUME NEW d \in Branches, d # b, Settled(mem.archive, mem.tip, d)
      PROVE  Settled(mem.archive, mem.tip, d)'
  <2>1. mem'.tip[d] = mem.tip[d] /\ heads'[d] = heads[d] /\ mem'.archive = mem.archive
    BY <1>1, <1>2, <1>3, <1>4, <1>7
  <2> QED
    BY <1>7, <2>1 DEF Settled
<1>8. Range(mem'.forks) = Range(mem.forks) \cup (IF b = Dev THEN {} ELSE {b})
  <2>1. CASE b = Dev
    BY <1>1, <2>1
  <2>2. CASE b # Dev
    <3> DEFINE f == mem.forks
    <3>1. mem'.forks = Append(f, b) /\ f \in Seq(Branches) /\ b \in Branches
      BY <1>1, <1>2, <1>3, <2>2
    <3> HIDE DEF f
    <3>2. Range(Append(f, b)) = Range(f) \cup {b}
      <4>1. /\ DOMAIN f = 1..Len(f) /\ Len(f) \in Nat /\ DOMAIN Append(f, b) = 1..(Len(f) + 1)
            /\ Append(f, b)[Len(f) + 1] = b /\ \A i \in DOMAIN f : Append(f, b)[i] = f[i]
        BY <3>1
      <4>2. \A i \in 1..(Len(f) + 1) : i \in DOMAIN f \/ i = Len(f) + 1
        BY <4>1
      <4>3. Len(f) + 1 \in 1..(Len(f) + 1) /\ \A i \in DOMAIN f : i \in 1..(Len(f) + 1)
        BY <4>1
      <4>4. Range(Append(f, b)) \subseteq Range(f) \cup {b}
        BY <4>1, <4>2 DEF Range
      <4>5. Range(f) \cup {b} \subseteq Range(Append(f, b))
        BY <4>1, <4>3 DEF Range
      <4> QED
        BY <4>4, <4>5
    <3> QED
      BY <2>2, <3>1, <3>2 DEF f
  <2> QED
    BY <2>1, <2>2
<1>9. Settled(mem.archive, mem.tip, Dev)'
  <2>1. CASE b = Dev
    BY <1>6, <2>1
  <2>2. CASE b # Dev
    <3>1. work.slot > 1
      BY <1>2, <2>2
    <3> QED
      BY <1>5, <1>7, <2>2, <3>1, Basics
  <2> QED
    BY <2>1, <2>2
<1>10. ASSUME NEW d \in Range(mem'.forks) PROVE Settled(mem.archive, mem.tip, d)'
  <2>1. CASE d = b
    BY <1>6, <2>1
  <2>2. CASE d # b
    <3>1. d \in Range(mem.forks)
      BY <1>8, <2>2
    <3>2. d \in Branches
      BY <3>1 DEF Referenced, Live
    <3> QED
      BY <1>5, <1>7, <2>2, <3>1, <3>2
  <2> QED
    BY <2>1, <2>2
<1>11. ASSUME NEW d \in Live', mem'.tip[d] # None
       PROVE  d \in {Dev} \cup Range(work.prev) \cup Range(mem'.forks)
  <2>1. CASE d = b
    BY <1>8, <2>1
  <2>2. CASE d # b
    <3>1. mem.tip[d] # None /\ d \in Live
      BY <1>1, <1>3, <1>4, <1>11, <2>2 DEF Live
    <3> QED
      BY <1>5, <1>8, <2>2, <3>1
  <2> QED
    BY <2>1, <2>2
<1> QED
  BY <1>9, <1>10, <1>11

LEMMA DescendedSwitch ==
  ASSUME TypeOK, Switching, Referenced, Descended, Switch
  PROVE  Descended'
<1>1. /\ pc = "switch" /\ mem'.archive = mem.archive /\ mem' \in Memory
  BY SwitchIs
<1>2. disk' = disk /\ trusted' = trusted /\ clean' = (clean /\ heads' = heads)
  BY DEF Switch, Touched, history
<1>3. OnDisk'
  BY <1>2, OnDiskKept DEF Descended
<1>4. /\ mem.archive \in Seq(Candidates) /\ work.prev \in Forks /\ mem'.forks \in Forks
      /\ work \in [prev : Forks, slot : Numbers, branch : Branches] /\ Len(mem.archive) > 1
      /\ Fits(work.prev, mem.archive)
  BY <1>1 DEF TypeOK, Memory, Switching, Descended, Switched
<1>5. InMemory'
  <2>1. ~(Len(mem.archive) <= 1)
    BY <1>4, ArchiveParts
  <2> QED
    BY <1>1, <1>2, <2>1 DEF Descended, InMemory, Lone
<1>6. CASE work.slot = Slots
  <2>1. pc' = "measure"
    BY <1>6 DEF Switch
  <2>2. /\ Len(mem'.forks) = work.slot - 1
        /\ \A i \in DOMAIN mem'.forks : HasPlace(mem'.forks[i], i)
    BY SwitchForks
  <2>3. \A i \in DOMAIN mem'.forks : IF Islands > 0 THEN i <= Len(work.prev) => mem'.forks[i] = work.prev[i]
                                     ELSE mem'.forks[i] = i
    BY <2>2 DEF HasPlace
  <2>4. Slots = Min({Len(mem.archive), SlotLimit})
    BY DEF Slots, SlotLimit
  <2>5. Range(work.prev) \subseteq Range(mem'.forks) /\ Fits(mem'.forks, mem.archive)
    BY <1>4, <1>6, <2>2, <2>3, <2>4, LastSlot
  <2>6. ASSUME trusted PROVE AtRest(mem.archive, mem.tip, mem.forks)'
    <3>1. /\ \A b \in Live' : mem'.tip[b] # None => b \in {Dev} \cup Range(work.prev) \cup Range(mem'.forks)
          /\ Settled(mem.archive, mem.tip, Dev)'
          /\ \A b \in Range(mem'.forks) : Settled(mem.archive, mem.tip, b)'
      BY <2>6, SwitchSettles
    <3>2. \A b \in Live' : mem'.tip[b] # None => b = Dev \/ b \in Range(mem'.forks)
      BY <2>5, <3>1
    <3>3. Tipped(mem.tip, mem.forks)'
      BY <3>2 DEF Tipped
    <3>4. ASSUME NEW b \in Live' PROVE Settled(mem.archive, mem.tip, b)'
      <4>1. CASE mem'.tip[b] = None
        BY <4>1 DEF Settled
      <4>2. CASE mem'.tip[b] # None
        BY <3>1, <3>2, <4>2
      <4> QED
        BY <4>1, <4>2
    <3> QED
      BY <3>3, <3>4 DEF AtRest
  <2>7. Resting'
    BY <1>1, <1>2, <2>5, <2>6 DEF Resting
  <2> QED
    BY <1>3, <1>5, <2>1, <2>7 DEF Descended, Merged, Switched
<1>7. CASE work.slot # Slots
  <2>1. pc' = pc /\ work'.prev = work.prev /\ work'.branch = Dev
    BY <1>4, <1>7 DEF Switch
  <2>2. Switched'
    <3>1. Fits(work.prev, mem.archive)'
      BY <1>1, <1>4, <2>1
    <3>2. ASSUME trusted
          PROVE  /\ \A b \in Live' : mem'.tip[b] # None =>
                       b \in {Dev, work'.branch} \cup Range(work'.prev) \cup Range(mem'.forks)
                 /\ Settled(mem.archive, mem.tip, Dev)'
                 /\ \A b \in Range(mem'.forks) : Settled(mem.archive, mem.tip, b)'
      BY <2>1, <3>2, SwitchSettles
    <3> QED
      BY <1>2, <3>1, <3>2 DEF Switched
  <2> QED
    BY <1>1, <1>3, <1>5, <2>1, <2>2 DEF Descended, Resting, Merged
<1> QED
  BY <1>6, <1>7

LEMMA DescendedKept ==
  ASSUME Typed, Referenced, Descended, [Next]_vars
  PROVE  Descended'
<1> USE DEF Typed, ledger, history
<1>1. CASE Start
  BY <1>1, DescendedStart
<1>2. CASE Stop \/ End
  <2>1. /\ mem' = mem /\ disk' = disk /\ trusted' = trusted /\ heads' = heads /\ clean' = clean
        /\ pc' \in {"final", "ended"}
    BY <1>2 DEF Stop, End
  <2>2. OnDisk'
    BY <2>1, OnDiskKept DEF Descended
  <2> QED
    BY <2>1, <2>2, DescendedRests
<1>3. CASE SkipRound \/ Unmeasured
  <2>1. Number < MaxRounds
    BY <1>3 DEF SkipRound, Unmeasured, Switching, InStep
  <2>2. mem'.archive = mem.archive /\ mem'.tip = mem.tip /\ mem'.forks = mem.forks
    BY <1>3, <2>1, NextRoundType DEF SkipRound, Unmeasured
  <2>3. /\ disk' = disk /\ trusted' = trusted /\ heads' = heads /\ clean' = clean
        /\ pc' = "top" /\ pc \in {"top", "measure"}
    BY <1>3 DEF SkipRound, Unmeasured
  <2>4. OnDisk'
    BY <2>3, OnDiskKept DEF Descended
  <2> QED
    BY <2>2, <2>3, <2>4, DescendedRests
<1>4. CASE Merge
  BY <1>4, DescendedMerge
<1>5. CASE Choose
  BY <1>5, DescendedChoose
<1>6. CASE Fork
  BY <1>6, DescendedFork
<1>7. CASE Switch
  BY <1>7, DescendedSwitch
<1>8. CASE Measure
  <2> DEFINE r == heads[Dev].state
  <2>1. r \in Contents /\ mem' = Observe(r)
    BY <1>8, DevState DEF Measure
  <2> HIDE DEF r
  <2>2. mem'.archive = mem.archive /\ mem'.tip = mem.tip /\ mem'.forks = mem.forks
    BY <2>1, ObserveIs
  <2>3. /\ disk' = disk /\ trusted' = trusted /\ heads' = heads /\ clean' = clean
        /\ pc = "measure" /\ pc' = "save"
    BY <1>8 DEF Measure
  <2>4. OnDisk'
    BY <2>3, OnDiskKept DEF Descended
  <2> QED
    BY <2>2, <2>3, <2>4, DescendedRests
<1>9. CASE Save \/ SaveFails
  <2>1. /\ Number < MaxRounds /\ Continue /\ pc = "save" /\ heads' = heads /\ trusted' = trusted
    BY <1>9 DEF Save, SaveFails, Switching, InStep
  <2>2. /\ mem'.archive = mem.archive /\ mem'.tip = mem.tip /\ mem'.forks = mem.forks
        /\ pc' \in {"final", "top"}
    BY <2>1, ContinueKeeps
  <2>3. OnDisk'
    <3>1. CASE Save
      <4>1. disk'.archive = mem.archive /\ disk'.tip = mem.tip /\ disk'.forks = mem.forks
        BY <2>1, <3>1, SaveIs
      <4>2. Lone(mem.archive, mem.tip) /\ Fits(mem.forks, mem.archive)
        BY <2>1 DEF Descended, InMemory, Resting
      <4>3. trusted => Derived(mem.archive)
        BY <2>1 DEF Descended, InMemory
      <4>4. trusted => AtRest(mem.archive, mem.tip, mem.forks)
        BY <2>1 DEF Descended, Resting
      <4>5. AtRest(mem.archive, mem.tip, mem.forks) => AtRest(disk.archive, disk.tip, disk.forks)'
        BY <2>1, <4>1 DEF AtRest, Tipped, Settled, Live
      <4> QED
        BY <2>1, <4>1, <4>2, <4>3, <4>4, <4>5 DEF OnDisk
    <3>2. CASE SaveFails
      BY <3>2, OnDiskKept DEF SaveFails, Descended
    <3> QED
      BY <1>9, <3>1, <3>2
  <2> QED
    BY <2>1, <2>2, <2>3, DescendedRests
<1>10. CASE FinalBest
  <2>1. /\ mem' = mem /\ disk' = disk /\ trusted' = trusted /\ clean' = (clean /\ heads' = heads)
        /\ pc' = "discard"
    BY <1>10 DEF FinalBest, Touched
  <2>2. OnDisk'
    BY <2>1, OnDiskKept DEF Descended
  <2> QED
    BY <2>1, <2>2, DescendedRests
<1>11. CASE Discard
  <2> DEFINE f == Tail(mem.forks)
  <2>1. f = Tail(mem.forks)
    OBVIOUS
  <2> HIDE DEF f
  <2>2. mem'.archive = mem.archive /\ mem'.tip = mem.tip
    BY <1>11, <2>1, DiscardIs
  <2>3. /\ disk' = disk /\ trusted' = trusted /\ clean' = (clean /\ heads' = heads)
        /\ pc' = "discard"
    BY <1>11 DEF Discard, Touched
  <2>4. OnDisk'
    BY <2>3, OnDiskKept DEF Descended
  <2> QED
    BY <2>2, <2>3, <2>4, DescendedRests
<1>12. CASE Dies
  <2>1. /\ mem'.archive = <<>> /\ mem'.tip = Fresh.tip /\ disk' = disk /\ trusted' = trusted
        /\ heads' = heads /\ clean' = clean /\ pc' = "down"
    BY <1>12 DEF Dies, Fresh
  <2>2. OnDisk'
    BY <2>1, OnDiskKept DEF Descended
  <2> QED
    BY <2>1, <2>2, NothingDescends DEF Descended, InMemory, Resting, Merged, Switched
<1>13. CASE UNCHANGED vars
  BY <1>13 DEF vars, Descended, OnDisk, InMemory, Resting, Merged, Switched,
               AtRest, Tipped, Settled, Live
<1> QED
  BY <1>1, <1>2, <1>3, <1>4, <1>5, <1>6, <1>7, <1>8, <1>9, <1>10, <1>11, <1>12, <1>13 DEF Next

\* As long as every resume found the ledger as the checkpoint had left it, the recorded
\* parent of a candidate is the one it was made from.
THEOREM LineageIsDerivationHolds == Spec => []LineageIsDerivation
<1> DEFINE IInv == Typed /\ Referenced /\ Descended
<1>1. Init => IInv
  BY TypedInit, ReferencedInit, DescendedInit
<1>2. IInv /\ [Next]_vars => IInv'
  BY TypedKept, ReferencedKept, DescendedKept
<1>3. IInv => LineageIsDerivation
  BY DEF Descended, InMemory, Derived, LineageIsDerivation, Range
<1> HIDE DEF IInv
<1> QED
  BY <1>1, <1>2, <1>3, PTL DEF Spec
=============================================================================
