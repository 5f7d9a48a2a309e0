-------------------------- MODULE LoopKernelProofs --------------------------
(***************************************************************************)
(* Proofs about LoopKernel, for any workers, rewards, gates, budgets and   *)
(* faults: what a replay of the log rebuilds, and what has happened by the *)
(* time a generation is recorded.                                          *)
(***************************************************************************)
EXTENDS LoopKernel, WellFoundedInduction, FiniteSetTheorems, TLAPS

(***************************************************************************)
(* Induction over the events of a log                                      *)
(***************************************************************************)
Less == {pair \in Nat \X Nat : pair[1] < pair[2]}

LEMMA LessIsWellFounded == IsWellFoundedOn(Less, Nat)
BY NatLessThanWellFounded, Zenon DEF OpToRel, Less

LEMMA Smallest ==
  ASSUME NEW T \in SUBSET Nat, T # {}
  PROVE  \E x \in T : \A y \in T : x <= y
<1>1. PICK x \in T : \A y \in T : ~ (<<y, x>> \in Less)
  BY LessIsWellFounded, WFMin
<1>2. \A y \in T : x <= y
  <2> TAKE y \in T
  <2>1. ~(y < x)
    BY <1>1 DEF Less
  <2> QED
    BY <2>1
<1> QED
  BY <1>2

LEMMA Climb ==
  ASSUME NEW T \in SUBSET Nat, 0 \in T, \A n \in T : n + 1 \in T
  PROVE  T = Nat
<1> SUFFICES ASSUME Nat \ T # {} PROVE FALSE
  OBVIOUS
<1>1. PICK x \in Nat \ T : \A y \in Nat \ T : x <= y
  BY Smallest
<1>2. x # 0 /\ x - 1 \in Nat
  BY <1>1
<1>3. x - 1 \in T
  BY <1>1, <1>2
<1> QED
  BY <1>1, <1>2, <1>3

(***************************************************************************)
(* Replay                                                                  *)
(***************************************************************************)
\* The controller after one more event.
Step(c, e) == IF e.kind = "step" THEN Restored(c, e) ELSE c

\* g holds the controller after each prefix of s.
Replays(s, g) == g = [n \in 0..Len(s) |-> IF n = 0 THEN NewController ELSE Step(g[n - 1], s[n])]

LEMMA ReplaysExist ==
  ASSUME NEW S
  PROVE  \A s \in Seq(S) : \E g : Replays(s, g)
<1> DEFINE T == {n \in Nat : \A s \in Seq(S) : Len(s) = n => \E g : Replays(s, g)}
<1>1. 0 \in T
  <2>1. ASSUME NEW s \in Seq(S), Len(s) = 0 PROVE \E g : Replays(s, g)
    <3> DEFINE g == [n \in 0..Len(s) |-> NewController]
    <3>1. Replays(s, g)
      BY <2>1 DEF Replays
    <3> QED
      BY <3>1
  <2> QED
    BY <2>1
<1>2. ASSUME NEW m \in T PROVE m + 1 \in T
  <2>1. ASSUME NEW s \in Seq(S), Len(s) = m + 1 PROVE \E g : Replays(s, g)
    <3> DEFINE r == SubSeq(s, 1, m)
    <3>1. m \in Nat /\ r \in Seq(S) /\ Len(r) = m /\ \A n \in 1..m : r[n] = s[n]
      BY <2>1
    <3>2. PICK h : Replays(r, h)
      BY <3>1
    <3> DEFINE g == [n \in 0..Len(s) |-> IF n <= m THEN h[n] ELSE Step(h[m], s[n])]
    <3>3. h = [n \in 0..m |-> IF n = 0 THEN NewController ELSE Step(h[n - 1], r[n])]
      BY <3>1, <3>2 DEF Replays
    <3> HIDE DEF r
    <3>4. ASSUME NEW n \in 0..(m + 1)
          PROVE  g[n] = IF n = 0 THEN NewController ELSE Step(g[n - 1], s[n])
      <4>1. CASE n = 0
        BY <2>1, <3>1, <3>3, <4>1
      <4>2. CASE n \in 1..m
        <5>1. n - 1 \in 0..m /\ n - 1 \in 0..Len(s) /\ n \in 0..Len(s) /\ n <= m /\ n - 1 <= m
          BY <2>1, <3>1, <4>2
        <5>2. g[n] = h[n] /\ g[n - 1] = h[n - 1]
          BY <5>1
        <5>3. \A k \in 0..m : h[k] = IF k = 0 THEN NewController ELSE Step(h[k - 1], r[k])
          BY <3>3
        <5>4. n # 0 /\ n \in 0..m /\ r[n] = s[n]
          BY <3>1, <4>2
        <5>5. h[n] = Step(h[n - 1], s[n])
          BY <5>3, <5>4
        <5> QED
          BY <5>2, <5>4, <5>5
      <4>3. CASE n = m + 1
        <5>1. n \in 0..Len(s) /\ ~(n <= m) /\ n - 1 = m /\ m \in 0..Len(s) /\ n # 0 /\ m <= m
          BY <2>1, <3>1, <4>3
        <5>2. g[n] = Step(h[m], s[n]) /\ g[m] = h[m]
          BY <5>1
        <5> QED
          BY <5>1, <5>2
      <4> QED
        BY <3>1, <4>1, <4>2, <4>3
    <3>5. g = [n \in 0..Len(s) |-> g[n]]
      OBVIOUS
    <3> HIDE DEF g
    <3>6. Replays(s, g)
      BY <2>1, <3>4, <3>5 DEF Replays
    <3> QED
      BY <3>6
  <2>2. m + 1 \in Nat
    OBVIOUS
  <2> QED
    BY <2>1, <2>2
<1>3. T = Nat
  <2> HIDE DEF T
  <2>1. T \subseteq Nat
    BY DEF T
  <2> QED
    BY <1>1, <1>2, <2>1, Climb
<1>4. \A s \in Seq(S) : Len(s) \in T
  BY <1>3
<1> QED
  BY <1>4

LEMMA ReplayIs ==
  ASSUME NEW S, NEW s \in Seq(S)
  PROVE  \E g : Replays(s, g) /\ Replay(s) = g[Len(s)]
<1> DEFINE f == CHOOSE g : Replays(s, g)
<1>1. Replays(s, f)
  BY ReplaysExist
<1>2. Replay(s) = f[Len(s)]
  BY DEF Replay, Replays, Step
<1> QED
  BY <1>1, <1>2

\* Two logs that agree on their first events have the same controller after them.
LEMMA ReplaysAgree ==
  ASSUME NEW S, NEW s \in Seq(S), NEW t \in Seq(S), NEW g, NEW h, Replays(s, g), Replays(t, h),
         Len(s) <= Len(t), \A i \in 1..Len(s) : s[i] = t[i]
  PROVE  \A n \in 0..Len(s) : g[n] = h[n]
<1> DEFINE T == {n \in Nat : n <= Len(s) => g[n] = h[n]}
<1>0. Len(s) \in Nat /\ Len(t) \in Nat
  OBVIOUS
<1>1. \A n \in 0..Len(s) : g[n] = IF n = 0 THEN NewController ELSE Step(g[n - 1], s[n])
  BY DEF Replays
<1>2. \A n \in 0..Len(t) : h[n] = IF n = 0 THEN NewController ELSE Step(h[n - 1], t[n])
  BY DEF Replays
<1>3. 0 \in T
  BY <1>0, <1>1, <1>2
<1>4. ASSUME NEW n \in T PROVE n + 1 \in T
  <2>1. ASSUME n + 1 <= Len(s) PROVE g[n + 1] = h[n + 1]
    <3>1. n \in Nat /\ n + 1 \in 0..Len(s) /\ n + 1 \in 0..Len(t) /\ n + 1 \in 1..Len(s) /\ n + 1 # 0
          /\ n <= Len(s) /\ (n + 1) - 1 = n
      BY <1>0, <2>1
    <3>2. g[n] = h[n] /\ s[n + 1] = t[n + 1]
      BY <3>1
    <3>3. g[n + 1] = Step(g[n], s[n + 1]) /\ h[n + 1] = Step(h[n], t[n + 1])
      BY <1>1, <1>2, <3>1
    <3> QED
      BY <3>2, <3>3
  <2> QED
    BY <2>1
<1>5. T = Nat
  <2> HIDE DEF T
  <2>1. T \subseteq Nat
    BY DEF T
  <2> QED
    BY <1>3, <1>4, <2>1, Climb
<1> QED
  BY <1>0, <1>5

\* A replay of one more event is one more restore().
LEMMA ReplayAppend ==
  ASSUME NEW S, NEW s \in Seq(S), NEW e \in S
  PROVE  Replay(Append(s, e)) = Step(Replay(s), e)
<1> DEFINE t == Append(s, e)
<1>1. /\ t \in Seq(S) /\ Len(t) = Len(s) + 1 /\ t[Len(t)] = e /\ Len(s) \in Nat
      /\ \A i \in 1..Len(s) : s[i] = t[i]
  OBVIOUS
<1> HIDE DEF t
<1>2. PICK g : Replays(s, g) /\ Replay(s) = g[Len(s)]
  BY ReplayIs
<1>3. PICK h : Replays(t, h) /\ Replay(t) = h[Len(t)]
  BY <1>1, ReplayIs
<1>4. g[Len(s)] = h[Len(s)]
  <2>1. Len(s) <= Len(t) /\ Len(s) \in 0..Len(s)
    BY <1>1
  <2> QED
    BY <1>1, <1>2, <1>3, <2>1, ReplaysAgree
<1>5. h[Len(t)] = Step(h[Len(s)], e)
  <2>1. Len(t) \in 0..Len(t) /\ Len(t) # 0 /\ Len(t) - 1 = Len(s)
    BY <1>1
  <2>2. \A n \in 0..Len(t) : h[n] = IF n = 0 THEN NewController ELSE Step(h[n - 1], t[n])
    BY <1>3 DEF Replays
  <2> QED
    BY <1>1, <2>1, <2>2
<1> QED
  BY <1>2, <1>3, <1>4, <1>5 DEF t

(***************************************************************************)
(* restore() and observe()                                                 *)
(***************************************************************************)
LEMMA PopBestType ==
  ASSUME NEW c \in Controllers
  PROVE  PopBest(c) \in Controllers
<1> DEFINE rest == IF c.accepted = <<>> THEN <<>> ELSE Front(c.accepted)
           best == IF rest = <<>> THEN None ELSE Last(rest)
<1>1. c.accepted \in Seq(Rewards)
  BY DEF Controllers
<1>2. rest \in Seq(Rewards)
  <2>1. CASE c.accepted = <<>>
    BY <2>1
  <2>2. CASE c.accepted # <<>>
    <3>1. Len(c.accepted) \in Nat /\ Len(c.accepted) - 1 <= Len(c.accepted)
      BY <1>1
    <3>2. SubSeq(c.accepted, 1, Len(c.accepted) - 1) \in Seq(Rewards)
      BY <1>1, <2>2
    <3> QED
      BY <2>2, <3>2 DEF Front
  <2> QED
    BY <2>1, <2>2
<1> HIDE DEF rest
<1>3. best \in Rewards \union {None}
  <2>1. CASE rest # <<>>
    <3>1. Len(rest) \in 1..Len(rest)
      BY <1>2, <2>1
    <3>2. rest[Len(rest)] \in Rewards
      BY <1>2, <3>1
    <3> QED
      BY <2>1, <3>2 DEF Last
  <2> QED
    BY <2>1
<1> HIDE DEF best
<1>4. PopBest(c) = [c EXCEPT !.accepted = rest, !.best = best, !.stagnant = 0]
  BY DEF PopBest, rest, best
<1>5. [c EXCEPT !.accepted = rest, !.best = best, !.stagnant = 0] \in Controllers
  BY <1>2, <1>3 DEF Controllers
<1> QED
  BY <1>4, <1>5

LEMMA ActedType ==
  ASSUME NEW c \in Controllers, NEW action, NEW reward, action = "accept" => reward \in Rewards
  PROVE  Acted(c, action, reward) \in Controllers
<1>1. CASE action = "accept"
  <2> DEFINE longer == Append(c.accepted, reward)
  <2>1. longer \in Seq(Rewards)
    BY <1>1 DEF Controllers
  <2>2. Acted(c, action, reward) = [c EXCEPT !.accepted = longer, !.best = reward, !.stagnant = 0]
    BY <1>1 DEF Acted
  <2> HIDE DEF longer
  <2>3. [c EXCEPT !.accepted = longer, !.best = reward, !.stagnant = 0] \in Controllers
    BY <1>1, <2>1 DEF Controllers
  <2> QED
    BY <2>2, <2>3
<1>2. CASE action = "reject"
  <2> DEFINE more == c.stagnant + 1
  <2>1. more \in Nat
    BY DEF Controllers
  <2>2. Acted(c, action, reward) = [c EXCEPT !.stagnant = more]
    BY <1>2 DEF Acted
  <2> HIDE DEF more
  <2>3. [c EXCEPT !.stagnant = more] \in Controllers
    BY <2>1 DEF Controllers
  <2> QED
    BY <2>2, <2>3
<1>3. CASE action = "rollback"
  BY <1>3, PopBestType DEF Acted
<1>4. CASE action \notin {"accept", "reject", "rollback"}
  BY <1>4 DEF Acted
<1> QED
  BY <1>1, <1>2, <1>3, <1>4

\* The controller with a session counted.
Counted(d, cost, stop) == [d EXCEPT !.cost = d.cost + cost, !.count = d.count + 1, !.stopped = stop]

LEMMA CountedType ==
  ASSUME NEW d \in Controllers, NEW cost \in Nat, NEW stop \in BOOLEAN
  PROVE  Counted(d, cost, stop) \in Controllers
<1> DEFINE spent == d.cost + cost
           sessions == d.count + 1
<1>1. spent \in Nat /\ sessions \in Nat
  BY DEF Controllers
<1> HIDE DEF spent, sessions
<1>2. [d EXCEPT !.cost = spent, !.count = sessions, !.stopped = stop] \in Controllers
  BY <1>1 DEF Controllers
<1> QED
  BY <1>2 DEF Counted, spent, sessions

LEMMA RestoredIs ==
  ASSUME NEW c \in Controllers, NEW e, e.action = "accept" => e.reward \in Rewards
  PROVE  Restored(c, e) = Counted(Acted(c, e.action, e.reward), e.cost, e.stop)
<1> DEFINE d == Acted(c, e.action, e.reward)
<1>1. Restored(c, e) = [d EXCEPT !.cost = @ + e.cost, !.count = @ + 1, !.stopped = e.stop]
  BY Zenon DEF Restored, Acted, RestoredRollback
<1>2. d \in Controllers
  BY ActedType
<1> HIDE DEF d
<1>3. [d EXCEPT !.cost = @ + e.cost, !.count = @ + 1, !.stopped = e.stop] = Counted(d, e.cost, e.stop)
  BY <1>2 DEF Counted, Controllers
<1> QED
  BY <1>1, <1>3 DEF d

LEMMA RestoredType ==
  ASSUME NEW c \in Controllers, NEW e, e.action = "accept" => e.reward \in Rewards,
         e.cost \in Nat, e.stop \in BOOLEAN
  PROVE  Restored(c, e) \in Controllers
<1> DEFINE d == Acted(c, e.action, e.reward)
<1>1. d \in Controllers
  BY ActedType
<1> HIDE DEF d
<1>2. Counted(d, e.cost, e.stop) \in Controllers
  BY <1>1, CountedType
<1> QED
  BY <1>2, RestoredIs DEF d

\* What observe() leaves is the controller with the session counted and the loop ended or not.
LEMMA ObservedIs ==
  ASSUME NEW c \in Controllers, NEW action, NEW obs, action = "accept" => obs.reward \in Rewards,
         obs.cost \in Nat
  PROVE  /\ Observed(c, action, obs).stopped \in BOOLEAN
         /\ Observed(c, action, obs)
              = Counted(Acted(c, action, obs.reward), obs.cost, Observed(c, action, obs).stopped)
<1> DEFINE d == Acted(c, action, obs.reward)
           m == [d EXCEPT !.cost = @ + obs.cost, !.count = @ + 1]
           over == Ends(m, action, obs)
<1>1. d \in Controllers
  BY ActedType
<1>2. over \in BOOLEAN
  BY Zenon DEF Ends
<1>3. Observed(c, action, obs) = [m EXCEPT !.stopped = over]
  BY Zenon DEF Observed
<1> HIDE DEF d, over
<1>4. [m EXCEPT !.stopped = over] = Counted(d, obs.cost, over)
  BY <1>1 DEF Counted, Controllers
<1>5. Counted(d, obs.cost, over).stopped = over
  BY <1>1 DEF Counted, Controllers
<1> QED
  BY <1>2, <1>3, <1>4, <1>5 DEF d

\* restore() of what observe() decided is what observe() left.
LEMMA RestoreIsObserve ==
  ASSUME NEW c \in Controllers, NEW e, NEW obs, e.action = "accept" => obs.reward \in Rewards,
         obs.cost \in Nat, e.reward = obs.reward, e.cost = obs.cost,
         e.stop = Observed(c, e.action, obs).stopped
  PROVE  /\ Restored(c, e) = Observed(c, e.action, obs)
         /\ Observed(c, e.action, obs) \in Controllers
<1>1. Restored(c, e) = Counted(Acted(c, e.action, e.reward), e.cost, e.stop)
  BY RestoredIs
<1>2. /\ Observed(c, e.action, obs).stopped \in BOOLEAN
      /\ Observed(c, e.action, obs)
           = Counted(Acted(c, e.action, obs.reward), obs.cost, Observed(c, e.action, obs).stopped)
  BY ObservedIs
<1>3. Restored(c, e) = Observed(c, e.action, obs)
  BY <1>1, <1>2
<1>4. Restored(c, e) \in Controllers
  BY <1>2, RestoredType
<1> QED
  BY <1>3, <1>4

LEMMA NewControllerType == NewController \in Controllers
<1>1. <<>> \in Seq(Rewards)
  OBVIOUS
<1> QED
  BY <1>1 DEF NewController, Controllers

\* Every accepted step among the events has a score a session may have.
Scored(s) == \A i \in DOMAIN s :
    s[i].kind = "step" /\ s[i].action = "accept" => s[i].reward \in Rewards

LEMMA ReplayType ==
  ASSUME NEW s \in Seq(Logged), Scored(s)
  PROVE  Replay(s) \in Controllers
<1>1. PICK g : Replays(s, g) /\ Replay(s) = g[Len(s)]
  BY ReplayIs
<1> DEFINE T == {n \in Nat : n <= Len(s) => g[n] \in Controllers}
<1>2. \A n \in 0..Len(s) : g[n] = IF n = 0 THEN NewController ELSE Step(g[n - 1], s[n])
  BY <1>1 DEF Replays
<1>3. 0 \in T
  <2>1. Len(s) \in Nat /\ 0 \in 0..Len(s)
    OBVIOUS
  <2> QED
    BY <1>2, <2>1, NewControllerType
<1>4. ASSUME NEW n \in T PROVE n + 1 \in T
  <2>1. ASSUME n + 1 <= Len(s) PROVE g[n + 1] \in Controllers
    <3>1. /\ n \in Nat /\ n + 1 \in 0..Len(s) /\ n + 1 \in DOMAIN s /\ n + 1 # 0
          /\ n <= Len(s) /\ (n + 1) - 1 = n
      BY <2>1
    <3> DEFINE e == s[n + 1]
    <3>2. e \in Logged /\ g[n] \in Controllers
      BY <3>1
    <3>3. g[n + 1] = Step(g[n], e)
      BY <1>2, <3>1
    <3>4. e.kind = "step" /\ e.action = "accept" => e.reward \in Rewards
      BY <3>1 DEF Scored
    <3> HIDE DEF e
    <3>5. e.cost \in Nat /\ e.stop \in BOOLEAN
      BY <3>2 DEF Logged
    <3>6. e.kind = "step" => Restored(g[n], e) \in Controllers
      BY <3>2, <3>4, <3>5, RestoredType
    <3> QED
      BY <3>2, <3>3, <3>6 DEF Step
  <2> QED
    BY <2>1
<1>5. T = Nat
  <2> HIDE DEF T
  <2>1. T \subseteq Nat
    BY DEF T
  <2> QED
    BY <1>3, <1>4, <2>1, Climb
<1>6. Len(s) \in T /\ Len(s) <= Len(s)
  BY <1>5
<1> QED
  BY <1>1, <1>6

(***************************************************************************)
(* The inductive invariant                                                 *)
(***************************************************************************)
\* What a worker read is what the log still begins with.
SnapsAreOld == \A p \in Workers :
    Len(snap[p]) <= Len(log) /\ \A i \in 1..Len(snap[p]) : snap[p][i] = log[i]

\* A verdict on its way to the log: what a restore() of it makes of what the worker had read is
\* what observe() made of it.
VerdictKept == \A p \in Workers :
    pc[p] \in {"effect", "audit", "write", "record"} =>
        /\ hand[p].ctl = Restored(Replay(snap[p]), hand[p])
        /\ hand[p].action = "accept" => hand[p].reward \in Rewards

\* The verdict of generation g is in the decision log, and says act unless it came twice.
RowOf(g, act) == audit[g] # {} /\ (g \notin again => audit[g] = {act})

\* The verdict's callback, if it has one, has returned.
Heard(g, act) == act \in Callbacks => <<g, act>> \in returned

\* How far a worker has come with the generation in its hands.
EffectsInOrder == \A p \in Workers :
    /\ pc[p] \in {"audit", "write", "record"} => Heard(hand[p].gen, hand[p].action)
    /\ pc[p] = "record" => RowOf(hand[p].gen, hand[p].action)

RecordedInRange == \A i \in Recorded : log[i].key.n \in Generations

KInv ==
    /\ TypeOK
    /\ Scored(log)
    /\ SnapsAreOld
    /\ VerdictKept
    /\ EffectsInOrder
    /\ RecordedInRange
    /\ ReplayIsObserve
    /\ EffectsBeforeRecord

LEMMA Basics ==
  /\ MaxGenerations \in Nat /\ MaxGenerations > 0 /\ MaxFaults \in Nat /\ MaxRetries \in Nat
  /\ Rewards \subseteq Nat /\ None \notin Nat /\ None \notin Actions
  /\ GateAnswers \subseteq {"reject", "defer", "rollback", "stop"}
  /\ Generations \subseteq Nat /\ 0 \in Generations
BY KernelAssumption, NoneIsNoAction DEF Generations

LEMMA NothingType == Nothing \in Hands
<1>1. "none" \in Actions /\ FALSE \in BOOLEAN /\ 0 \in Nat
  BY DEF Actions
<1> QED
  BY <1>1, Basics, NewControllerType DEF Nothing, Hands

LEMMA EventType ==
  ASSUME NEW kind \in Kinds, NEW tag \in Kinds, NEW n \in Nat, NEW seen \in Nat, NEW body \in Hands
  PROVE  Event(kind, Key(tag, n), seen, body) \in Logged
<1>1. /\ body.reward \in Nat /\ body.cost \in Nat /\ body.action \in Actions
      /\ body.stop \in BOOLEAN /\ body.ctl \in Controllers
  BY DEF Hands
<1>2. Key(tag, n) \in [tag : Kinds, n : Nat]
  BY DEF Key
<1> QED
  BY <1>1, <1>2 DEF Event, Logged

LEMMA GenerationType ==
  ASSUME NEW s \in Seq(Logged)
  PROVE  Generation(s) \in Nat
<1> DEFINE at == {i \in DOMAIN s : s[i].kind = "step"}
<1>1. IsFiniteSet(1..Len(s)) /\ at \subseteq 1..Len(s)
  <2>1. Len(s) \in Nat /\ DOMAIN s = 1..Len(s)
    OBVIOUS
  <2> QED
    BY <2>1, FS_Interval
<1>2. IsFiniteSet(at)
  BY <1>1, FS_Subset
<1> HIDE DEF at
<1>3. Cardinality(at) \in Nat
  BY <1>2, FS_CardinalityType
<1> QED
  BY <1>3 DEF Generation, at

LEMMA AttemptsType ==
  ASSUME NEW s \in Seq(Logged)
  PROVE  Attempts(s) \in Nat
<1> DEFINE at == {i \in DOMAIN s : s[i].kind = "attempt"}
<1>1. IsFiniteSet(1..Len(s)) /\ at \subseteq 1..Len(s)
  <2>1. Len(s) \in Nat /\ DOMAIN s = 1..Len(s)
    OBVIOUS
  <2> QED
    BY <2>1, FS_Interval
<1>2. IsFiniteSet(at)
  BY <1>1, FS_Subset
<1> HIDE DEF at
<1>3. Cardinality(at) \in Nat
  BY <1>2, FS_CardinalityType
<1> QED
  BY <1>3 DEF Attempts, at

\* What one step of the loop may have written: nothing, an event that records no generation, or
\* the generation in the hands of a worker that has read the whole log.
Writes(e) ==
    e.kind = "step" =>
        \E p \in Workers : /\ pc[p] = "record" /\ snap[p] = log
                           /\ e = Event("step", Key("step", hand[p].gen), Len(log), hand[p])

Grows == log' = log \/ \E e \in Logged : log' = Append(log, e) /\ Writes(e)

LEMMA StoredGrows ==
  ASSUME TypeOK, NEW p \in Workers, NEW kind \in Kinds \ {"step"}, NEW n \in Nat,
         NEW body \in Hands, Stored(p, kind, Key(kind, n), body)
  PROVE  Grows
<1> DEFINE e == Event(kind, Key(kind, n), Len(snap[p]), body)
<1>1. log' = log \/ log' = Append(log, e)
  BY Zenon DEF Stored, Promise!Record
<1>2. e \in Logged
  <2>1. snap[p] \in Seq(Logged)
    BY DEF TypeOK
  <2>2. Len(snap[p]) \in Nat
    BY <2>1
  <2> QED
    BY <2>2, EventType
<1>3. e.kind = kind
  BY DEF Event
<1> HIDE DEF e
<1>4. Writes(e)
  BY <1>3 DEF Writes
<1> QED
  BY <1>1, <1>2, <1>4 DEF Grows

LEMMA StoredStepGrows ==
  ASSUME TypeOK, SnapsAreOld, NEW p \in Workers, pc[p] = "record",
         Stored(p, "step", GenerationKey(hand[p].gen), hand[p])
  PROVE  Grows
<1> DEFINE e == Event("step", Key("step", hand[p].gen), Len(snap[p]), hand[p])
<1>1. log' = log \/ (log' = Append(log, e) /\ Promise!Decided(e))
  BY Zenon DEF Stored, Promise!Record, GenerationKey
<1>2. log \in Seq(Logged) /\ snap[p] \in Seq(Logged) /\ hand[p] \in Hands
  BY DEF TypeOK
<1>3. Len(snap[p]) \in Nat /\ hand[p].gen \in Nat /\ "step" \in Kinds
  <2>1. hand[p].gen \in Generations
    BY <1>2 DEF Hands
  <2>2. hand[p].gen \in Nat
    BY <2>1, Basics
  <2>3. Len(snap[p]) \in Nat /\ "step" \in Kinds
    BY <1>2 DEF Kinds
  <2> QED
    BY <2>2, <2>3
<1>4. e \in Logged
  BY <1>2, <1>3, EventType
<1>5. ASSUME Promise!Decided(e) PROVE Writes(e)
  <2>1. e.kind = "step" /\ e.seen = Len(snap[p])
    BY DEF Event
  <2>2. Len(snap[p]) = Len(log)
    BY <1>5, <2>1 DEF Promise!Decided
  <2>3. \A i \in 1..Len(snap[p]) : snap[p][i] = log[i]
    BY DEF SnapsAreOld
  <2>4. snap[p] = log
    BY <1>2, <2>2, <2>3
  <2> QED
    BY <2>4 DEF Writes
<1> HIDE DEF e
<1> QED
  BY <1>1, <1>4, <1>5 DEF Grows

LEMMA LogNext ==
  ASSUME TypeOK, SnapsAreOld, [Next]_vars
  PROVE  Grows
<1>1. ASSUME NEW p \in Workers, Decide(p) \/ Finishes(p) \/ Effect(p) \/ LooksForRow(p)
                             \/ WritesRow(p) \/ Lost(p)
      PROVE  Grows
  BY <1>1, Zenon DEF Grows, Decide, Finishes, Effect, LooksForRow, WritesRow, Lost
<1>2. ASSUME NEW p \in Workers, NEW kind \in Kinds, NEW n, Refused(p, Key(kind, n)) PROVE Grows
  BY <1>2, Zenon DEF Grows, Refused
<1>3. {"attempt", "failed", "completed", "cancelled"} \subseteq Kinds \ {"step"} /\ "step" \in Kinds
  BY DEF Kinds
<1>4. ASSUME NEW p \in Workers, RecordStep(p) PROVE Grows
  <2>1. pc[p] = "record"
    BY <1>4, Zenon DEF RecordStep
  <2>2. Stored(p, "step", GenerationKey(hand[p].gen), hand[p])
        \/ Refused(p, GenerationKey(hand[p].gen))
    BY <1>4, Zenon DEF RecordStep
  <2> QED
    BY <1>2, <1>3, <2>1, <2>2, StoredStepGrows DEF GenerationKey
<1>5. ASSUME NEW p \in Workers, RecordAttempt(p) PROVE Grows
  <2> DEFINE n == Attempts(snap[p]) + 1
  <2>1. Stored(p, "attempt", Key("attempt", n), Nothing) \/ Refused(p, Key("attempt", n))
    BY <1>5, Zenon DEF RecordAttempt
  <2>2. snap[p] \in Seq(Logged)
    BY DEF TypeOK
  <2>3. n \in Nat
    BY <2>2, AttemptsType
  <2> HIDE DEF n
  <2> QED
    BY <1>2, <1>3, <2>1, <2>3, StoredGrows, NothingType
<1>6. ASSUME NEW p \in Workers, RecordFailed(p) PROVE Grows
  <2>1. Stored(p, "failed", Key("failed", 0), Nothing) \/ Refused(p, Key("failed", 0))
    BY <1>6, Zenon DEF RecordFailed
  <2> QED
    BY <1>2, <1>3, <2>1, StoredGrows, NothingType
<1>7. ASSUME NEW p \in Workers, RecordCompleted(p) PROVE Grows
  <2>1. Stored(p, "completed", Key("completed", 0), Nothing) \/ Refused(p, Key("completed", 0))
    BY <1>7, Zenon DEF RecordCompleted
  <2> QED
    BY <1>2, <1>3, <2>1, StoredGrows, NothingType
<1>8. ASSUME Cancel PROVE Grows
  <2> DEFINE e == Event("cancelled", Key("cancelled", 0), Len(log), Nothing)
  <2>1. log' = Append(log, e)
    BY <1>8, Zenon DEF Cancel, Promise!Record
  <2>2. Len(log) \in Nat
    BY DEF TypeOK
  <2>3. e \in Logged
    BY <1>3, <2>2, EventType, NothingType
  <2>4. e.kind = "cancelled"
    BY DEF Event
  <2> HIDE DEF e
  <2> QED
    BY <2>1, <2>3, <2>4 DEF Grows, Writes
<1>9. ASSUME UNCHANGED vars PROVE Grows
  BY <1>9 DEF Grows, vars
<1> QED
  BY <1>1, <1>4, <1>5, <1>6, <1>7, <1>8, <1>9, Zenon DEF Next, Works

(***************************************************************************)
(* The log                                                                 *)
(***************************************************************************)
LEMMA AppendIs ==
  ASSUME NEW S, NEW s \in Seq(S), NEW e \in S, NEW t, t = Append(s, e)
  PROVE  /\ t \in Seq(S) /\ Len(s) \in Nat /\ Len(t) = Len(s) + 1 /\ t[Len(s) + 1] = e
         /\ DOMAIN s = 1..Len(s) /\ DOMAIN t = 1..(Len(s) + 1)
         /\ \A i \in DOMAIN s : t[i] = s[i] /\ SubSeq(t, 1, i) = SubSeq(s, 1, i)
         /\ SubSeq(t, 1, Len(s) + 1) = t
<1>1. /\ t \in Seq(S) /\ Len(s) \in Nat /\ Len(t) = Len(s) + 1 /\ t[Len(s) + 1] = e
      /\ DOMAIN s = 1..Len(s) /\ DOMAIN t = 1..(Len(s) + 1)
      /\ \A i \in DOMAIN s : t[i] = s[i]
  OBVIOUS
<1>2. ASSUME NEW i \in DOMAIN s PROVE SubSeq(t, 1, i) = SubSeq(s, 1, i)
  <2>1. i \in 1..Len(s) /\ i \in 1..(Len(s) + 1) /\ i \in Nat
    BY <1>1
  <2>2. \A j \in 1..i : t[j] = s[j] /\ j \in DOMAIN s
    BY <1>1, <2>1
  <2>3. /\ SubSeq(t, 1, i) \in Seq(S) /\ Len(SubSeq(t, 1, i)) = i
        /\ SubSeq(s, 1, i) \in Seq(S) /\ Len(SubSeq(s, 1, i)) = i
        /\ \A j \in 1..i : SubSeq(t, 1, i)[j] = t[j] /\ SubSeq(s, 1, i)[j] = s[j]
    BY <1>1, <2>1
  <2>4. \A j \in 1..i : SubSeq(t, 1, i)[j] = SubSeq(s, 1, i)[j]
    BY <2>2, <2>3
  <2> QED
    BY <2>3, <2>4
<1>3. SubSeq(t, 1, Len(s) + 1) = t
  BY <1>1
<1> QED
  BY <1>1, <1>2, <1>3

\* What Writes says of a generation that is recorded now.
LEMMA WritesStep ==
  ASSUME KInv, NEW e \in Logged, Writes(e), e.kind = "step"
  PROVE  /\ e.ctl = Step(Replay(log), e)
         /\ e.action = "accept" => e.reward \in Rewards
         /\ Heard(e.key.n, e.action)
         /\ e.key.n \in Generations
         /\ RowOf(e.key.n, e.action)
<1>1. PICK p \in Workers :
        /\ pc[p] = "record" /\ snap[p] = log
        /\ e = Event("step", Key("step", hand[p].gen), Len(log), hand[p])
  BY DEF Writes
<1>2. /\ e.key.n = hand[p].gen /\ e.action = hand[p].action /\ e.reward = hand[p].reward
      /\ e.cost = hand[p].cost /\ e.stop = hand[p].stop /\ e.ctl = hand[p].ctl
  BY <1>1 DEF Event, Key
<1>3. /\ hand[p].ctl = Restored(Replay(snap[p]), hand[p])
      /\ hand[p].action = "accept" => hand[p].reward \in Rewards
      /\ Heard(hand[p].gen, hand[p].action)
      /\ RowOf(hand[p].gen, hand[p].action)
  BY <1>1 DEF KInv, VerdictKept, EffectsInOrder
<1>4. hand[p] \in Hands
  BY DEF KInv, TypeOK
<1>5. hand[p].gen \in Generations
  BY <1>4 DEF Hands
<1>6. Restored(Replay(log), e) = Restored(Replay(log), hand[p])
  <2>1. Replay(log) \in Controllers
    BY ReplayType DEF KInv, TypeOK
  <2> DEFINE c == Replay(log)
             h == hand[p]
  <2>2. h.action = "accept" => h.reward \in Rewards
    BY <1>3
  <2>3. e.action = "accept" => e.reward \in Rewards
    BY <1>2, <1>3
  <2>4. c \in Controllers /\ e.action = h.action /\ e.reward = h.reward /\ e.cost = h.cost
        /\ e.stop = h.stop
    BY <1>2, <2>1
  <2> HIDE DEF c, h
  <2>5. Restored(c, e) = Counted(Acted(c, e.action, e.reward), e.cost, e.stop)
    BY <2>3, <2>4, RestoredIs
  <2>6. Restored(c, h) = Counted(Acted(c, h.action, h.reward), h.cost, h.stop)
    BY <2>2, <2>4, RestoredIs
  <2>7. Restored(c, e) = Restored(c, h)
    BY <2>4, <2>5, <2>6
  <2> QED
    BY <2>7 DEF c, h
<1>7. Step(Replay(log), e) = Restored(Replay(log), e)
  BY DEF Step
<1>8. e.ctl = Step(Replay(log), e)
  BY <1>1, <1>2, <1>3, <1>6, <1>7, Zenon
<1> QED
  BY <1>2, <1>3, <1>5, <1>8, Zenon

\* Effects are never taken back, and the row of a generation stays until a second one is asked for.
EffectsGrow ==
    /\ returned \subseteq returned' /\ again \subseteq again'
    /\ \A g \in Generations : audit[g] # {} =>
          audit'[g] # {} /\ (g \notin again' => audit'[g] = audit[g])

RowAfter(g, act) == audit'[g] # {} /\ (g \notin again' => audit'[g] = {act})
HeardAfter(g, act) == act \in Callbacks => <<g, act>> \in returned'

LEMMA LogPart ==
  ASSUME KInv, Grows, EffectsGrow
  PROVE  /\ Scored(log)' /\ RecordedInRange' /\ ReplayIsObserve' /\ EffectsBeforeRecord'
         /\ log' \in Seq(Logged)
<1>1. /\ log \in Seq(Logged) /\ Scored(log) /\ RecordedInRange /\ ReplayIsObserve
      /\ EffectsBeforeRecord
  BY DEF KInv, TypeOK
<1>2. ASSUME NEW g \in Generations, NEW act, RowOf(g, act) PROVE RowAfter(g, act)
  BY <1>2 DEF RowOf, RowAfter, EffectsGrow
<1>7. ASSUME NEW g, NEW act, Heard(g, act) PROVE HeardAfter(g, act)
  BY <1>7 DEF Heard, HeardAfter, EffectsGrow
<1>3. \A i \in Recorded : /\ log[i].key.n \in Generations
                          /\ Heard(log[i].key.n, log[i].action)
                          /\ RowOf(log[i].key.n, log[i].action)
  BY <1>1 DEF RecordedInRange, EffectsBeforeRecord, RowOf, Heard
<1>4. CASE log' = log
  <2>1. Recorded' = Recorded
    BY <1>4 DEF Recorded
  <2>2. Scored(log)' /\ RecordedInRange' /\ ReplayIsObserve' /\ log' \in Seq(Logged)
    BY <1>1, <1>4, <2>1 DEF Scored, RecordedInRange, ReplayIsObserve
  <2>3. \A i \in Recorded : /\ HeardAfter(log[i].key.n, log[i].action)
                            /\ RowAfter(log[i].key.n, log[i].action)
    BY <1>2, <1>3, <1>4, <1>7
  <2>4. EffectsBeforeRecord'
    BY <1>4, <2>1, <2>3 DEF EffectsBeforeRecord, RowAfter, HeardAfter
  <2> QED
    BY <2>2, <2>4
<1>5. ASSUME NEW e \in Logged, log' = Append(log, e), Writes(e)
      PROVE  /\ Scored(log)' /\ RecordedInRange' /\ ReplayIsObserve' /\ EffectsBeforeRecord'
             /\ log' \in Seq(Logged)
  <2> DEFINE t == log'
             last == Len(log) + 1
  <2>1. /\ t \in Seq(Logged) /\ Len(log) \in Nat /\ t[last] = e
        /\ DOMAIN log = 1..Len(log) /\ DOMAIN t = 1..last
        /\ \A i \in DOMAIN log : t[i] = log[i] /\ SubSeq(t, 1, i) = SubSeq(log, 1, i)
        /\ SubSeq(t, 1, last) = t
    BY <1>1, <1>5, AppendIs
  <2>2. Replay(t) = Step(Replay(log), e)
    BY <1>1, <1>5, ReplayAppend
  <2>3. /\ last \in DOMAIN t /\ \A i \in DOMAIN t : i \in DOMAIN log \/ i = last
    BY <2>1
  <2>4. e.kind = "step" => /\ e.ctl = Step(Replay(log), e)
                           /\ e.action = "accept" => e.reward \in Rewards
                           /\ Heard(e.key.n, e.action)
                           /\ e.key.n \in Generations
                           /\ RowOf(e.key.n, e.action)
    BY <1>5, WritesStep
  <2>5. Recorded' = {i \in DOMAIN t : t[i].kind = "step"}
    BY DEF Recorded
  <2>6. \A i \in Recorded' : i \in Recorded \/ (i = last /\ e.kind = "step")
    BY <2>1, <2>3, <2>5 DEF Recorded
  <2>7. \A i \in Recorded : i \in DOMAIN log
    BY DEF Recorded
  <2> HIDE DEF last
  <2>8. \A i \in Recorded' : /\ t[i].key.n \in Generations
                             /\ HeardAfter(t[i].key.n, t[i].action)
                             /\ RowAfter(t[i].key.n, t[i].action)
    <3> TAKE i \in Recorded'
    <3>1. CASE i \in Recorded
      <4>1. t[i] = log[i]
        BY <2>1, <2>7, <3>1
      <4>2. /\ log[i].key.n \in Generations
            /\ Heard(log[i].key.n, log[i].action)
            /\ RowOf(log[i].key.n, log[i].action)
        BY <1>3, <3>1
      <4>3. RowAfter(log[i].key.n, log[i].action) /\ HeardAfter(log[i].key.n, log[i].action)
        BY <1>2, <1>7, <4>2
      <4> QED
        BY <4>1, <4>2, <4>3
    <3>2. CASE i = last /\ e.kind = "step"
      <4>1. t[i] = e
        BY <2>1, <3>2
      <4>2. RowAfter(e.key.n, e.action) /\ HeardAfter(e.key.n, e.action)
        BY <1>2, <1>7, <2>4, <3>2
      <4> QED
        BY <2>4, <3>2, <4>1, <4>2
    <3> QED
      BY <2>6, <3>1, <3>2
  <2>9. RecordedInRange' /\ EffectsBeforeRecord'
    BY <2>8 DEF RecordedInRange, EffectsBeforeRecord, RowAfter, HeardAfter
  <2>10. Scored(log)'
    <3>1. \A i \in DOMAIN t :
            t[i].kind = "step" /\ t[i].action = "accept" => t[i].reward \in Rewards
      BY <1>1, <2>1, <2>3, <2>4 DEF Scored
    <3> QED
      BY <3>1 DEF Scored
  <2>11. ReplayIsObserve'
    <3>1. \A i \in Recorded : Replay(SubSeq(t, 1, i)) = t[i].ctl
      BY <1>1, <2>1, <2>7 DEF ReplayIsObserve
    <3>2. e.kind = "step" => Replay(SubSeq(t, 1, last)) = t[last].ctl
      BY <2>1, <2>2, <2>4
    <3> QED
      BY <2>6, <3>1, <3>2 DEF ReplayIsObserve
  <2> QED
    BY <2>1, <2>9, <2>10, <2>11
<1> QED
  BY <1>4, <1>5 DEF Grows

(***************************************************************************)
(* The workers                                                             *)
(***************************************************************************)
Hold == {"effect", "audit", "write", "record"}

Stays(q) == pc'[q] = pc[q] /\ snap'[q] = snap[q] /\ hand'[q] = hand[q]
Leaves(q) == pc'[q] \notin Hold /\ snap'[q] \in {snap[q], log, <<>>}
Takes(q) ==
    /\ pc'[q] = "effect" /\ snap'[q] = log
    /\ hand'[q].ctl = Restored(Replay(log), hand'[q])
    /\ hand'[q].action = "accept" => hand'[q].reward \in Rewards
Acts(q) ==
    /\ pc[q] = "effect" /\ pc'[q] = "audit" /\ snap'[q] = snap[q] /\ hand'[q] = hand[q]
    /\ HeardAfter(hand[q].gen, hand[q].action)
Looks(q) ==
    /\ pc[q] = "audit" /\ pc'[q] = "write" /\ snap'[q] = snap[q] /\ hand'[q] = hand[q]
Notes(q) ==
    /\ pc[q] \in {"audit", "write"} /\ pc'[q] = "record" /\ snap'[q] = snap[q] /\ hand'[q] = hand[q]
    /\ RowAfter(hand[q].gen, hand[q].action)

Moves(q) == Stays(q) \/ Leaves(q) \/ Takes(q) \/ Acts(q) \/ Looks(q) \/ Notes(q)

\* All variables keep their types, if the log does (LogPart).
Typed == TypeOK' \/ log' \notin Seq(Logged)

Good == (\A q \in Workers : Moves(q)) /\ EffectsGrow /\ Typed

LEMMA BackIs ==
  ASSUME TypeOK, NEW p \in Workers, Back(p)
  PROVE  /\ owner' \in Workers \union {None} /\ pc' \in [Workers -> Places]
         /\ snap' \in [Workers -> Seq(Logged)] /\ hand' \in [Workers -> Hands]
         /\ \A q \in Workers : Stays(q) \/ Leaves(q)
<1>1. /\ owner \in Workers \union {None} /\ pc \in [Workers -> Places]
      /\ snap \in [Workers -> Seq(Logged)] /\ hand \in [Workers -> Hands]
  BY DEF TypeOK
<1>2. /\ pc' = [pc EXCEPT ![p] = "idle"] /\ owner' = IF owner = p THEN None ELSE owner
      /\ snap' = [snap EXCEPT ![p] = <<>>] /\ hand' = [hand EXCEPT ![p] = Nothing]
  BY DEF Back
<1>3. "idle" \in Places /\ <<>> \in Seq(Logged) /\ "idle" \notin Hold
  BY DEF Places, Hold
<1>4. /\ owner' \in Workers \union {None} /\ pc' \in [Workers -> Places]
      /\ snap' \in [Workers -> Seq(Logged)]
  BY <1>1, <1>2, <1>3
<1>5. hand' \in [Workers -> Hands]
  BY <1>1, <1>2, NothingType
<1>6. ASSUME NEW q \in Workers, q # p PROVE Stays(q)
  BY <1>1, <1>2, <1>6 DEF Stays
<1>7. Leaves(p)
  BY <1>1, <1>2, <1>3 DEF Leaves
<1> QED
  BY <1>4, <1>5, <1>6, <1>7

LEMMA SameEffects ==
  ASSUME TypeOK, UNCHANGED effects
  PROVE  /\ EffectsGrow
         /\ returned' \subseteq Generations \X Callbacks
         /\ audit' \in [Generations -> SUBSET Actions] /\ again' \subseteq Generations
BY DEF TypeOK, effects, EffectsGrow

LEMMA FaultyType ==
  ASSUME TypeOK, Faulty
  PROVE  faults' \in 0..MaxFaults
BY Basics DEF TypeOK, Faulty

LEMMA GoBackGood ==
  ASSUME TypeOK, NEW p \in Workers, Back(p), UNCHANGED effects, faults' \in 0..MaxFaults
  PROVE  Good
<1>1. EffectsGrow
  BY SameEffects
<1>2. Typed
  BY BackIs, SameEffects DEF Typed, TypeOK
<1>3. \A q \in Workers : Moves(q)
  BY BackIs DEF Moves
<1> QED
  BY <1>1, <1>2, <1>3 DEF Good

LEMMA RecordGood ==
  ASSUME TypeOK, NEW p \in Workers,
         RecordStep(p) \/ RecordAttempt(p) \/ RecordFailed(p) \/ RecordCompleted(p) \/ Lost(p)
  PROVE  Good
<1>1. faults \in 0..MaxFaults
  BY DEF TypeOK
<1>2. CASE RecordStep(p)
  <2>1. Back(p) /\ UNCHANGED effects /\ faults' = faults
    BY <1>2, Zenon DEF RecordStep
  <2> QED
    BY <1>1, <2>1, GoBackGood
<1>3. CASE RecordFailed(p)
  <2>1. Back(p) /\ UNCHANGED effects /\ faults' = faults
    BY <1>3, Zenon DEF RecordFailed
  <2> QED
    BY <1>1, <2>1, GoBackGood
<1>4. CASE RecordCompleted(p)
  <2>1. Back(p) /\ UNCHANGED effects /\ faults' = faults
    BY <1>4, Zenon DEF RecordCompleted
  <2> QED
    BY <1>1, <2>1, GoBackGood
<1>5. CASE Lost(p)
  <2>1. Back(p) /\ UNCHANGED effects /\ Faulty
    BY <1>5, Zenon DEF Lost
  <2> QED
    BY <2>1, GoBackGood, FaultyType
<1>6. CASE RecordAttempt(p)
  <2>1. UNCHANGED effects /\ faults' = faults
    BY <1>6, Zenon DEF RecordAttempt
  <2>2. Back(p) \/ (At(p, "attempt", "fail") /\ UNCHANGED <<owner, snap, hand>>)
    BY <1>6, Zenon DEF RecordAttempt
  <2>3. ASSUME At(p, "attempt", "fail"), UNCHANGED <<owner, snap, hand>> PROVE Good
    <3>1. /\ pc \in [Workers -> Places] /\ pc' = [pc EXCEPT ![p] = "fail"]
          /\ "fail" \in Places /\ "fail" \notin Hold
      BY <2>3 DEF TypeOK, At, Places, Hold
    <3>2. \A q \in Workers : Stays(q) \/ Leaves(q)
      BY <2>3, <3>1 DEF Stays, Leaves
    <3>3. pc' \in [Workers -> Places]
      BY <3>1
    <3>4. Typed
      BY <1>1, <2>1, <2>3, <3>3, SameEffects DEF Typed, TypeOK
    <3> QED
      BY <2>1, <3>2, <3>4, SameEffects DEF Good, Moves
  <2> QED
    BY <1>1, <2>1, <2>2, <2>3, GoBackGood
<1> QED
  BY <1>2, <1>3, <1>4, <1>5, <1>6

LEMMA StartsIs ==
  ASSUME TypeOK, NEW p \in Workers, NEW at \in Places, Starts(p, at)
  PROVE  /\ owner' \in Workers \union {None} /\ pc' \in [Workers -> Places]
         /\ snap' \in [Workers -> Seq(Logged)] /\ faults' \in 0..MaxFaults
         /\ pc'[p] = at /\ snap'[p] = log
         /\ \A q \in Workers : q # p => pc'[q] = pc[q] /\ snap'[q] = snap[q]
<1>1. /\ pc \in [Workers -> Places] /\ snap \in [Workers -> Seq(Logged)] /\ log \in Seq(Logged)
      /\ faults \in 0..MaxFaults
  BY DEF TypeOK
<1>2. /\ pc' = [pc EXCEPT ![p] = at] /\ snap' = [snap EXCEPT ![p] = log] /\ owner' = p
  BY DEF Starts, At
<1>3. faults' = faults \/ Faulty
  BY DEF Starts
<1>4. faults' \in 0..MaxFaults
  BY <1>1, <1>3, FaultyType
<1> QED
  BY <1>1, <1>2, <1>4

LEMMA FinishesGood ==
  ASSUME TypeOK, NEW p \in Workers, Finishes(p)
  PROVE  Good
<1>1. Starts(p, "complete") /\ "complete" \in Places /\ "complete" \notin Hold
  BY DEF Finishes, Places, Hold
<1>2. UNCHANGED effects /\ hand' = hand /\ log' = log
  BY DEF Finishes
<1>3. /\ owner' \in Workers \union {None} /\ pc' \in [Workers -> Places]
      /\ snap' \in [Workers -> Seq(Logged)] /\ faults' \in 0..MaxFaults
      /\ pc'[p] = "complete" /\ snap'[p] = log
      /\ \A q \in Workers : q # p => pc'[q] = pc[q] /\ snap'[q] = snap[q]
  BY <1>1, StartsIs
<1>4. \A q \in Workers : Stays(q) \/ Leaves(q)
  BY <1>1, <1>2, <1>3 DEF Stays, Leaves
<1>5. Typed
  BY <1>2, <1>3, SameEffects DEF Typed, TypeOK
<1> QED
  BY <1>2, <1>4, <1>5, SameEffects DEF Good, Moves

LEMMA RaisesIs ==
  ASSUME TypeOK, NEW p \in Workers, Raises(p), snap' = snap
  PROVE  /\ pc' \in [Workers -> Places] /\ hand' \in [Workers -> Hands] /\ faults' \in 0..MaxFaults
         /\ \A q \in Workers : Stays(q) \/ Leaves(q)
<1>1. pc \in [Workers -> Places] /\ hand \in [Workers -> Hands]
  BY DEF TypeOK
<1>2. pc' = [pc EXCEPT ![p] = "attempt"] /\ hand' = [hand EXCEPT ![p] = Nothing] /\ Faulty
  BY DEF Raises
<1>3. "attempt" \in Places /\ "attempt" \notin Hold
  BY DEF Places, Hold
<1>4. pc' \in [Workers -> Places]
  BY <1>1, <1>2, <1>3
<1>5. hand' \in [Workers -> Hands]
  BY <1>1, <1>2, NothingType
<1>6. ASSUME NEW q \in Workers, q # p PROVE Stays(q)
  BY <1>1, <1>2, <1>6 DEF Stays
<1>7. Leaves(p)
  BY <1>1, <1>2, <1>3 DEF Leaves
<1> QED
  BY <1>2, <1>4, <1>5, <1>6, <1>7, FaultyType

LEMMA EffectGood ==
  ASSUME TypeOK, NEW p \in Workers, Effect(p)
  PROVE  Good
<1> DEFINE g == hand[p].gen
           act == hand[p].action
<1>1. /\ pc[p] = "effect" /\ log' = log /\ owner' = owner /\ snap' = snap
      /\ audit' = audit /\ again' = again
  BY Zenon DEF Effect
<1>2. /\ pc \in [Workers -> Places] /\ hand \in [Workers -> Hands]
      /\ returned \subseteq Generations \X Callbacks /\ faults \in 0..MaxFaults
  BY DEF TypeOK
<1>3. CASE /\ At(p, "effect", "audit")
           /\ returned' = returned \union IF act \in Callbacks THEN {<<g, act>>} ELSE {}
           /\ UNCHANGED <<hand, faults>>
  <2>1. g \in Generations
    BY <1>2 DEF Hands
  <2>2. returned' = returned \union IF act \in Callbacks THEN {<<g, act>>} ELSE {}
    BY <1>3
  <2> HIDE DEF g, act
  <2>3. returned \subseteq returned' /\ returned' \subseteq Generations \X Callbacks
    BY <1>2, <2>1, <2>2
  <2>4. HeardAfter(g, act)
    BY <2>2 DEF HeardAfter
  <2>5. pc' = [pc EXCEPT ![p] = "audit"] /\ "audit" \in Places
    BY <1>3 DEF At, Places
  <2>6. pc' \in [Workers -> Places]
    BY <1>2, <2>5
  <2>7. ASSUME NEW q \in Workers, q # p PROVE Stays(q)
    BY <1>1, <1>2, <1>3, <2>5, <2>7 DEF Stays
  <2>8. Acts(p)
    BY <1>1, <1>2, <1>3, <2>4, <2>5 DEF Acts, g, act
  <2>9. EffectsGrow
    BY <1>1, <2>3 DEF EffectsGrow
  <2>10. Typed
    BY <1>1, <1>3, <2>3, <2>6 DEF Typed, TypeOK
  <2> QED
    BY <2>7, <2>8, <2>9, <2>10 DEF Good, Moves
<1>4. CASE Raises(p) /\ returned' = returned
  <2>1. EffectsGrow
    BY <1>1, <1>4 DEF EffectsGrow
  <2>2. Typed
    BY <1>1, <1>4, RaisesIs DEF Typed, TypeOK
  <2> QED
    BY <1>1, <1>4, <2>1, <2>2, RaisesIs DEF Good, Moves
<1> QED
  BY <1>3, <1>4, Zenon DEF Effect, ApplyRaises

\* A second visit of a generation to the decision log is marked.
LEMMA NotedIs ==
  ASSUME TypeOK, NEW p \in Workers, NotedAgain(p)
  PROVE  /\ again \subseteq again' /\ again' \subseteq Generations
         /\ audit[hand[p].gen] # {} => hand[p].gen \in again'
<1>1. hand \in [Workers -> Hands] /\ again \subseteq Generations
  BY DEF TypeOK
<1> DEFINE g == hand[p].gen
<1>2. g \in Generations
  BY <1>1 DEF Hands
<1>3. again' = again \union IF audit[g] = {} THEN {} ELSE {g}
  BY DEF NotedAgain
<1> HIDE DEF g
<1>4. again \subseteq again' /\ again' \subseteq Generations /\ (audit[g] # {} => g \in again')
  BY <1>1, <1>2, <1>3
<1> QED
  BY <1>4 DEF g

LEMMA LooksGood ==
  ASSUME TypeOK, NEW p \in Workers, LooksForRow(p)
  PROVE  Good
<1>1. /\ pc[p] = "audit" /\ log' = log /\ owner' = owner /\ snap' = snap
      /\ returned' = returned /\ audit' = audit
  BY Zenon DEF LooksForRow
<1>2. pc \in [Workers -> Places] /\ hand \in [Workers -> Hands] /\ again \subseteq Generations
  BY DEF TypeOK
<1>3. CASE /\ At(p, "audit", IF audit[hand[p].gen] = {} THEN "write" ELSE "record")
           /\ NotedAgain(p) /\ UNCHANGED <<hand, faults>>
  <2>1. /\ pc' = [pc EXCEPT ![p] = IF audit[hand[p].gen] = {} THEN "write" ELSE "record"]
        /\ "record" \in Places /\ "write" \in Places
    BY <1>3 DEF At, Places
  <2>2. pc' \in [Workers -> Places] /\ pc'[p] = IF audit[hand[p].gen] = {} THEN "write" ELSE "record"
    BY <1>2, <2>1
  <2>3. /\ again \subseteq again' /\ again' \subseteq Generations
        /\ audit[hand[p].gen] # {} => hand[p].gen \in again'
    BY <1>3, NotedIs
  <2>4. ASSUME NEW q \in Workers, q # p PROVE Stays(q)
    BY <1>1, <1>2, <1>3, <2>1, <2>4 DEF Stays
  <2>5. Looks(p) \/ Notes(p)
    BY <1>1, <1>3, <2>2, <2>3 DEF Looks, Notes, RowAfter
  <2>6. EffectsGrow
    BY <1>1, <2>3 DEF EffectsGrow
  <2>7. Typed
    BY <1>1, <1>3, <2>2, <2>3 DEF Typed, TypeOK
  <2> QED
    BY <2>4, <2>5, <2>6, <2>7 DEF Good, Moves
<1>4. CASE Raises(p) /\ again' = again
  <2>1. EffectsGrow
    BY <1>1, <1>4 DEF EffectsGrow
  <2>2. Typed
    BY <1>1, <1>4, RaisesIs DEF Typed, TypeOK
  <2> QED
    BY <1>1, <1>4, <2>1, <2>2, RaisesIs DEF Good, Moves
<1> QED
  BY <1>3, <1>4, Zenon DEF LooksForRow

LEMMA WritesGood ==
  ASSUME TypeOK, NEW p \in Workers, WritesRow(p)
  PROVE  Good
<1> DEFINE g == hand[p].gen
           act == hand[p].action
<1>1. /\ pc[p] = "write" /\ log' = log /\ owner' = owner /\ snap' = snap
      /\ returned' = returned
      /\ audit' = [audit EXCEPT ![g] = @ \union {act}] /\ NotedAgain(p)
  BY Zenon DEF WritesRow
<1>2. /\ pc \in [Workers -> Places] /\ hand \in [Workers -> Hands]
      /\ audit \in [Generations -> SUBSET Actions]
  BY DEF TypeOK
<1>3. g \in Generations /\ act \in Actions
  BY <1>2 DEF Hands
<1>4. again \subseteq again' /\ again' \subseteq Generations /\ (audit[g] # {} => g \in again')
  BY <1>1, NotedIs
<1>5. audit' = [audit EXCEPT ![g] = @ \union {act}]
  BY <1>1
<1> HIDE DEF g, act
<1>6. /\ audit' \in [Generations -> SUBSET Actions] /\ audit'[g] = audit[g] \union {act}
      /\ \A h \in Generations : h # g => audit'[h] = audit[h]
  BY <1>2, <1>3, <1>5
<1>7. EffectsGrow
  BY <1>1, <1>3, <1>4, <1>6 DEF EffectsGrow
<1>8. RowAfter(g, act)
  BY <1>4, <1>6 DEF RowAfter
<1>9. CASE At(p, "write", "record") /\ UNCHANGED <<hand, faults>>
  <2>1. pc' = [pc EXCEPT ![p] = "record"] /\ "record" \in Places
    BY <1>9 DEF At, Places
  <2>2. pc' \in [Workers -> Places]
    BY <1>2, <2>1
  <2>3. ASSUME NEW q \in Workers, q # p PROVE Stays(q)
    BY <1>1, <1>2, <1>9, <2>1, <2>3 DEF Stays
  <2>4. Notes(p)
    BY <1>1, <1>2, <1>8, <1>9, <2>1 DEF Notes, g, act
  <2>5. Typed
    BY <1>1, <1>4, <1>6, <1>9, <2>2 DEF Typed, TypeOK
  <2> QED
    BY <1>7, <2>3, <2>4, <2>5 DEF Good, Moves
<1>10. CASE Raises(p)
  <2>1. Typed
    BY <1>1, <1>4, <1>6, <1>10, RaisesIs DEF Typed, TypeOK
  <2> QED
    BY <1>1, <1>7, <1>10, <2>1, RaisesIs DEF Good, Moves
<1> QED
  BY <1>9, <1>10, Zenon DEF WritesRow

LEMMA DecideGood ==
  ASSUME TypeOK, Scored(log), NEW p \in Workers, Decide(p)
  PROVE  Good
<1> DEFINE g == Generation(log)
           c == Replay(log)
<1>1. Starts(p, "effect") /\ ~Finished(log) /\ UNCHANGED <<log, effects>>
  BY Zenon DEF Decide
<1> DEFINE Chosen(obs, action) ==
        hand' = [hand EXCEPT ![p] =
            [gen |-> g, reward |-> obs.reward, cost |-> obs.cost, action |-> action,
             stop |-> Observed(c, action, obs).stopped, ctl |-> Observed(c, action, obs)]]
<1>0. \E obs \in Observations : \E action \in Verdicts(c, obs) : Chosen(obs, action)
  BY Zenon DEF Decide
<1>a. PICK obs \in Observations : \E action \in Verdicts(c, obs) : Chosen(obs, action)
  BY <1>0
<1>2. PICK action \in Verdicts(c, obs) : Chosen(obs, action)
  BY <1>a
<1>3. log \in Seq(Logged) /\ hand \in [Workers -> Hands]
  BY DEF TypeOK
<1>4. c \in Controllers
  BY <1>3, ReplayType
<1>5. g \in Generations
  <2>1. g \in Nat
    BY <1>3, GenerationType
  <2>2. ~(g >= MaxGenerations)
    BY <1>1 DEF Finished
  <2> HIDE DEF g
  <2> QED
    BY <2>1, <2>2, Basics DEF Generations
<1> HIDE DEF g, c
<1>6. obs.cost \in Nat /\ obs.reward \in Nat /\ (~obs.error => obs.reward \in Rewards)
  <2>2. CASE \E r \in Rewards : obs = [reward |-> r, cost |-> 1, error |-> FALSE]
    BY <2>2, Basics
  <2>3. CASE obs = [reward |-> 0, cost |-> 0, error |-> TRUE]
    BY <2>3
  <2> QED
    BY <2>2, <2>3 DEF Observations
<1>7. action \in Actions /\ (action = "accept" => obs.reward \in Rewards)
  <2>1. CASE obs.error
    BY <2>1 DEF Verdicts, Actions
  <2>2. CASE ~obs.error
    <3>1. action \in GateAnswers \/ action \in {"accept", "reject"}
      BY <2>2 DEF Verdicts, Threshold
    <3> QED
      BY <1>6, <2>2, <3>1, Basics DEF Actions
  <2> QED
    BY <2>1, <2>2
<1> DEFINE seen == Observed(c, action, obs)
           over == seen.stopped
           h == [gen |-> g, reward |-> obs.reward, cost |-> obs.cost, action |-> action,
                 stop |-> over, ctl |-> seen]
<1>8. /\ h.gen = g /\ h.action = action /\ h.reward = obs.reward /\ h.cost = obs.cost
      /\ h.stop = over /\ h.ctl = seen
  OBVIOUS
<1>9. hand' = [hand EXCEPT ![p] = h]
  BY <1>2
<1>10. over \in BOOLEAN
  BY <1>4, <1>6, <1>7, ObservedIs
<1>11. h = [gen |-> g, reward |-> obs.reward, cost |-> obs.cost, action |-> action,
            stop |-> over, ctl |-> seen]
  OBVIOUS
<1>12. seen = Observed(c, action, obs) /\ over = seen.stopped
  OBVIOUS
<1> HIDE DEF seen, over, h
<1>13. Restored(c, h) = seen /\ seen \in Controllers
  <2>1. h.action = "accept" => obs.reward \in Rewards
    BY <1>7, <1>8
  <2>2. h.stop = Observed(c, h.action, obs).stopped /\ Observed(c, h.action, obs) = seen
    BY <1>8, <1>12
  <2>3. Restored(c, h) = Observed(c, h.action, obs) /\ Observed(c, h.action, obs) \in Controllers
    BY <1>4, <1>6, <1>8, <2>1, <2>2, RestoreIsObserve
  <2> QED
    BY <2>2, <2>3
<1>14. h \in Hands
  BY <1>5, <1>6, <1>7, <1>10, <1>11, <1>13 DEF Hands
<1>15. hand' \in [Workers -> Hands] /\ hand'[p] = h /\ \A q \in Workers : q # p => hand'[q] = hand[q]
  BY <1>3, <1>9, <1>14
<1>17. "effect" \in Places
  BY DEF Places
<1>18. /\ owner' \in Workers \union {None} /\ pc' \in [Workers -> Places]
       /\ snap' \in [Workers -> Seq(Logged)] /\ faults' \in 0..MaxFaults
       /\ pc'[p] = "effect" /\ snap'[p] = log
       /\ \A q \in Workers : q # p => pc'[q] = pc[q] /\ snap'[q] = snap[q]
  BY <1>1, <1>17, StartsIs
<1>19. ASSUME NEW q \in Workers, q # p PROVE Stays(q)
  BY <1>15, <1>18, <1>19 DEF Stays
<1>20. Takes(p)
  <2>1. h.ctl = Restored(Replay(log), h) /\ (h.action = "accept" => h.reward \in Rewards)
    BY <1>7, <1>8, <1>13 DEF c
  <2> QED
    BY <1>15, <1>18, <2>1, Zenon DEF Takes
<1>21. EffectsGrow
  BY <1>1, SameEffects
<1>22. Typed
  BY <1>1, <1>3, <1>15, <1>18, SameEffects DEF Typed, TypeOK
<1> QED
  BY <1>19, <1>20, <1>21, <1>22 DEF Good, Moves

LEMMA GoodNext ==
  ASSUME KInv, [Next]_vars
  PROVE  Good
<1>1. TypeOK /\ Scored(log)
  BY DEF KInv
<1>2. ASSUME UNCHANGED <<owner, pc, snap, hand, effects, faults>> PROVE Good
  <2>1. \A q \in Workers : Moves(q)
    BY <1>2 DEF Moves, Stays
  <2>2. Typed
    BY <1>1, <1>2, SameEffects DEF Typed, TypeOK
  <2> QED
    BY <1>1, <1>2, <2>1, <2>2, SameEffects DEF Good
<1>3. Cancel \/ UNCHANGED vars => UNCHANGED <<owner, pc, snap, hand, effects, faults>>
  BY DEF Cancel, vars, effects
<1> QED
  BY <1>1, <1>2, <1>3, DecideGood, FinishesGood, EffectGood, LooksGood, WritesGood, RecordGood, Zenon
     DEF Next, Works

LEMMA WorkersPart ==
  ASSUME KInv, Grows, Good
  PROVE  SnapsAreOld' /\ VerdictKept' /\ EffectsInOrder'
<1>1. /\ log \in Seq(Logged) /\ snap \in [Workers -> Seq(Logged)] /\ hand \in [Workers -> Hands]
      /\ SnapsAreOld /\ VerdictKept /\ EffectsInOrder
  BY DEF KInv, TypeOK
<1>2. Len(log) \in Nat /\ Len(log') \in Nat /\ Len(log) <= Len(log')
      /\ \A i \in 1..Len(log) : log'[i] = log[i]
  <2>1. CASE log' = log
    BY <1>1, <2>1
  <2>2. ASSUME NEW e \in Logged, log' = Append(log, e)
        PROVE  /\ Len(log) \in Nat /\ Len(log') \in Nat /\ Len(log) <= Len(log')
               /\ \A i \in 1..Len(log) : log'[i] = log[i]
    <3>1. /\ log' \in Seq(Logged) /\ Len(log) \in Nat /\ Len(log') = Len(log) + 1
          /\ DOMAIN log = 1..Len(log)
          /\ \A i \in DOMAIN log : log'[i] = log[i]
      BY <1>1, <2>2, AppendIs
    <3> QED
      BY <3>1
  <2> QED
    BY <2>1, <2>2 DEF Grows
<1>3. ASSUME NEW q \in Workers
      PROVE  Len(snap'[q]) <= Len(log') /\ \A i \in 1..Len(snap'[q]) : snap'[q][i] = log'[i]
  <2>1. snap'[q] \in {snap[q], log, <<>>}
    BY DEF Good, Moves, Stays, Leaves, Takes, Acts, Looks, Notes
  <2>2. CASE snap'[q] = snap[q]
    <3> DEFINE r == snap[q]
    <3>1. r \in Seq(Logged) /\ Len(r) <= Len(log) /\ \A i \in 1..Len(r) : r[i] = log[i]
      BY <1>1 DEF SnapsAreOld
    <3> HIDE DEF r
    <3>2. Len(r) <= Len(log') /\ \A i \in 1..Len(r) : r[i] = log'[i]
      BY <1>2, <3>1
    <3> QED
      BY <2>2, <3>2 DEF r
  <2>3. CASE snap'[q] = log
    BY <1>2, <2>3
  <2>4. CASE snap'[q] = <<>>
    BY <1>2, <2>4
  <2> QED
    BY <2>1, <2>2, <2>3, <2>4
<1>4. EffectsGrow /\ \A q \in Workers : hand[q].gen \in Generations /\ Moves(q)
  BY <1>1 DEF Good, Hands
<1>5. ASSUME NEW q \in Workers, pc'[q] \in Hold
      PROVE  /\ hand'[q].ctl = Restored(Replay(snap'[q]), hand'[q])
             /\ hand'[q].action = "accept" => hand'[q].reward \in Rewards
  <2>1. CASE pc[q] \in Hold /\ snap'[q] = snap[q] /\ hand'[q] = hand[q]
    BY <1>1, <2>1 DEF VerdictKept, Hold
  <2>2. CASE Takes(q)
    BY <2>2, Zenon DEF Takes
  <2>3. CASE Stays(q) \/ Acts(q) \/ Looks(q) \/ Notes(q)
    BY <1>5, <2>1, <2>3 DEF Stays, Acts, Looks, Notes, Hold
  <2>4. CASE Leaves(q)
    BY <1>5, <2>4 DEF Leaves
  <2> QED
    BY <1>4, <2>2, <2>3, <2>4 DEF Moves
<1>6. ASSUME NEW q \in Workers, pc'[q] \in {"audit", "write", "record"}
      PROVE  HeardAfter(hand'[q].gen, hand'[q].action)
  <2>1. CASE Stays(q) \/ Looks(q) \/ Notes(q)
    <3>1. pc[q] \in {"audit", "write", "record"} /\ hand'[q] = hand[q]
      BY <1>6, <2>1 DEF Stays, Looks, Notes
    <3>2. Heard(hand[q].gen, hand[q].action)
      BY <1>1, <3>1 DEF EffectsInOrder
    <3> QED
      BY <1>4, <3>1, <3>2 DEF Heard, HeardAfter, EffectsGrow
  <2>2. CASE Acts(q)
    BY <1>6, <2>2 DEF Acts
  <2>3. CASE Takes(q) \/ Leaves(q)
    BY <1>6, <2>3 DEF Takes, Leaves, Hold
  <2> QED
    BY <1>4, <2>1, <2>2, <2>3 DEF Moves
<1>7. ASSUME NEW q \in Workers, pc'[q] = "record"
      PROVE  RowAfter(hand'[q].gen, hand'[q].action)
  <2>1. CASE Stays(q)
    <3>1. pc[q] = "record" /\ hand'[q] = hand[q]
      BY <1>7, <2>1 DEF Stays
    <3>2. RowOf(hand[q].gen, hand[q].action) /\ hand[q].gen \in Generations
      BY <1>1, <1>4, <3>1 DEF EffectsInOrder
    <3> QED
      BY <1>4, <3>1, <3>2 DEF RowOf, RowAfter, EffectsGrow
  <2>2. CASE Notes(q)
    BY <2>2, Zenon DEF Notes
  <2>3. CASE Takes(q) \/ Leaves(q) \/ Acts(q) \/ Looks(q)
    BY <1>7, <2>3 DEF Takes, Leaves, Acts, Looks, Hold
  <2> QED
    BY <1>4, <2>1, <2>2, <2>3 DEF Moves
<1>8. SnapsAreOld'
  BY <1>3 DEF SnapsAreOld
<1>9. VerdictKept'
  BY <1>5, Zenon DEF VerdictKept, Hold
<1>10. EffectsInOrder'
  BY <1>6, <1>7, Zenon DEF EffectsInOrder, RowOf, RowAfter, Heard, HeardAfter
<1> QED
  BY <1>8, <1>9, <1>10

LEMMA KInvInit == Init => KInv
<1> SUFFICES ASSUME Init PROVE KInv
  OBVIOUS
<1>1. /\ log = <<>> /\ owner = None /\ pc = [p \in Workers |-> "idle"]
      /\ snap = [p \in Workers |-> <<>>] /\ hand = [p \in Workers |-> Nothing]
      /\ returned = {} /\ audit = [g \in Generations |-> {}] /\ again = {} /\ faults = 0
  BY DEF Init
<1>2. "idle" \in Places /\ <<>> \in Seq(Logged) /\ 0 \in 0..MaxFaults
  BY Basics DEF Places
<1>3. TypeOK
  BY <1>1, <1>2, NothingType DEF TypeOK
<1>4. DOMAIN log = {} /\ Len(log) = 0
  BY <1>1
<1>5. Recorded = {}
  BY <1>4 DEF Recorded
<1>6. Scored(log) /\ RecordedInRange /\ ReplayIsObserve /\ EffectsBeforeRecord
  BY <1>4, <1>5 DEF Scored, RecordedInRange, ReplayIsObserve, EffectsBeforeRecord
<1>7. SnapsAreOld
  <2>1. \A p \in Workers : snap[p] = <<>> /\ Len(snap[p]) = 0
    BY <1>1
  <2> QED
    BY <1>4, <2>1 DEF SnapsAreOld
<1>8. VerdictKept /\ EffectsInOrder
  BY <1>1 DEF VerdictKept, EffectsInOrder
<1> QED
  BY <1>3, <1>6, <1>7, <1>8 DEF KInv

LEMMA KInvNext == KInv /\ [Next]_vars => KInv'
<1> SUFFICES ASSUME KInv, [Next]_vars PROVE KInv'
  OBVIOUS
<1>1. Grows
  BY LogNext DEF KInv
<1>2. Good
  BY GoodNext
<1>3. /\ Scored(log)' /\ RecordedInRange' /\ ReplayIsObserve' /\ EffectsBeforeRecord'
      /\ log' \in Seq(Logged)
  BY <1>1, <1>2, LogPart DEF Good
<1>4. TypeOK'
  BY <1>2, <1>3 DEF Good, Typed
<1> QED
  BY <1>1, <1>2, <1>3, <1>4, WorkersPart DEF KInv

LEMMA Inductive == Spec => []KInv
<1>1. Init => KInv
  BY KInvInit
<1>2. KInv /\ [Next]_vars => KInv'
  BY KInvNext
<1> QED
  BY <1>1, <1>2, PTL DEF Spec

\* Types: in particular what a worker is told by a replay is a controller, whatever was lost.
THEOREM LoopTypeCorrect == Spec => []TypeOK
<1>1. KInv => TypeOK
  BY DEF KInv
<1> QED
  BY <1>1, Inductive, PTL

\* A replay of the log up to a recorded generation is the controller that decided it
\* (RSIController.restore against RSIController.observe, LoopKernel._replay).
THEOREM ReplayIsObserveHolds == Spec => []ReplayIsObserve
<1>1. KInv => ReplayIsObserve
  BY DEF KInv
<1> QED
  BY <1>1, Inductive, PTL

\* Nothing is recorded whose effects were skipped: an accepted generation has been applied, one rolled
\* back has been rolled back, and a recorded one has its row in the decision log, whatever raised, died
\* or lost its lease in between (LoopKernel._step, _record_decision).
THEOREM EffectsBeforeRecordHolds == Spec => []EffectsBeforeRecord
<1>1. KInv => EffectsBeforeRecord
  BY DEF KInv
<1> QED
  BY <1>1, Inductive, PTL
=============================================================================
