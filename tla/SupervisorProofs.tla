-------------------------- MODULE SupervisorProofs --------------------------
(***************************************************************************)
(* Proofs about Supervisor: for any number of workers, any calls with any  *)
(* leases and any number of deaths, whatever is lost, late or overdue.     *)
(***************************************************************************)
EXTENDS Supervisor, FiniteSetTheorems, TLAPS

\* The places of a lease among those that are waiting to be sent: it may have several.
Places(l, s) == {i \in DOMAIN s : s[i] = l}

\* What is waited for belongs to the call under way and has not been answered.
PendingIsOpen ==
  /\ \A l \in pending : /\ call \in DOMAIN Batches /\ l \in Range(Batches[call])
                        /\ answers[l] = 0
  /\ \A l \in Leases : answers[l] # 0 =>
        \E i \in DOMAIN Batches : i <= call /\ l \in Range(Batches[i])

\* Every put, made or still to be made, is the first one or has an attempt of its own; a lease is
\* given up rather than sent once more than MaxAgain allows.
PutsCounted ==
  \A l \in Leases :
     /\ sent[l] + Cardinality(Places(l, toSend)) <= attempts[l] + 1
     /\ sent[l] + Cardinality(Places(l, toSend)) <= MaxAgain + 1

\* Between two calls nothing of map_rollouts is left.
IdleIsEmpty ==
  pc \in {"idle", "join", "closed"} =>
     /\ pending = {} /\ toSend = <<>>
     /\ \A l \in Leases : sent[l] = 0 /\ attempts[l] = 0

SupInv ==
  /\ TypeOK /\ PendingIsOpen /\ PutsCounted /\ IdleIsEmpty
  /\ NothingStranded /\ AnsweredOnce

(***************************************************************************)
(* Sequences that order a set                                              *)
(***************************************************************************)
LEMMA SeqRangeFinite ==
  ASSUME NEW S, NEW s \in Seq(S)
  PROVE  IsFiniteSet(Range(s))
<1>1. s \in Surjection(1..Len(s), Range(s))
  BY DEF Surjection, Range
<1>2. IsFiniteSet(1..Len(s))
  BY FS_Interval
<1> QED
  BY <1>1, <1>2, FS_Surjection

LEMMA OrderIsSeq ==
  ASSUME NEW S, IsFiniteSet(S), NEW r \in SetToSeqs(S)
  PROVE  /\ r \in Seq(S) /\ r \in [1..Cardinality(S) -> S]
         /\ \A i, j \in DOMAIN r : i # j => r[i] # r[j]
<1>1. Cardinality(S) \in Nat
  BY FS_CardinalityType
<1> QED
  BY <1>1 DEF SetToSeqs

\* It leaves nothing out: an injection into a set of its own size.
LEMMA OrderIsOnto ==
  ASSUME NEW S, IsFiniteSet(S), NEW r \in SetToSeqs(S)
  PROVE  Range(r) = S
<1> DEFINE n == Cardinality(S)
<1>1. n \in Nat /\ r \in [1..n -> S] /\ \A i, j \in 1..n : i # j => r[i] # r[j]
  BY FS_CardinalityType DEF SetToSeqs
<1>2. r \in Injection(1..n, S)
  BY <1>1 DEF Injection, IsInjective
<1>3. Cardinality(1..n) = n
  BY <1>1, FS_Interval
<1>4. r \in Surjection(1..n, S)
  BY <1>2, <1>3, FS_Injection
<1> QED
  BY <1>1, <1>4 DEF Surjection, Range

LEMMA SubsequenceType ==
  ASSUME NEW S, results \in Seq(S), NEW kept \in SUBSET DOMAIN results, NEW r \in Subsequence(kept)
  PROVE  r \in Seq(S)
<1>1. IsFiniteSet(kept)
  <2>1. DOMAIN results = 1..Len(results)
    OBVIOUS
  <2> QED
    BY <2>1, FS_Interval, FS_Subset
<1>2. PICK p \in SetToSeqs(kept) : r = [i \in DOMAIN p |-> results[p[i]]]
  BY DEF Subsequence
<1>3. p \in [1..Cardinality(kept) -> kept] /\ Cardinality(kept) \in Nat
  BY <1>1, OrderIsSeq, FS_CardinalityType
<1>4. \A i \in 1..Cardinality(kept) : results[p[i]] \in S
  BY <1>3
<1> QED
  BY <1>2, <1>3, <1>4

(***************************************************************************)
(* How often a lease is waiting to be sent                                 *)
(***************************************************************************)
LEMMA PlacesFinite ==
  ASSUME NEW S, NEW s \in Seq(S), NEW l
  PROVE  IsFiniteSet(Places(l, s)) /\ Cardinality(Places(l, s)) \in Nat
<1>1. Places(l, s) \subseteq 1..Len(s)
  BY DEF Places
<1>2. IsFiniteSet(1..Len(s))
  BY FS_Interval
<1> QED
  BY <1>1, <1>2, FS_Subset, FS_CardinalityType

LEMMA PlacesEmpty ==
  ASSUME NEW l
  PROVE  Cardinality(Places(l, <<>>)) = 0
<1>1. Places(l, <<>>) = {}
  BY DEF Places
<1> QED
  BY <1>1, FS_EmptySet

\* A sequence without repetitions has a lease once at most.
LEMMA PlacesOnce ==
  ASSUME NEW S, NEW s \in Seq(S), \A i, j \in DOMAIN s : i # j => s[i] # s[j], NEW l
  PROVE  Cardinality(Places(l, s)) <= 1
<1>1. CASE Places(l, s) = {}
  BY <1>1, FS_EmptySet
<1>2. CASE Places(l, s) # {}
  <2>1. PICK i \in Places(l, s) : TRUE
    BY <1>2
  <2>2. Places(l, s) = {i}
    BY <2>1 DEF Places
  <2>3. Cardinality({i}) = 1
    BY FS_Singleton
  <2> QED
    BY <2>2, <2>3
<1> QED
  BY <1>1, <1>2

\* The head that is sent is one of its places.
LEMMA PlacesTail ==
  ASSUME NEW S, NEW s \in Seq(S), s # <<>>, NEW l
  PROVE  /\ l = Head(s) => Cardinality(Places(l, Tail(s))) + 1 <= Cardinality(Places(l, s))
         /\ Cardinality(Places(l, Tail(s))) <= Cardinality(Places(l, s))
<1> DEFINE P == Places(l, s)
           T == Places(l, Tail(s))
           f == [i \in T |-> i + 1]
<1>1. IsFiniteSet(P) /\ IsFiniteSet(T) /\ Cardinality(P) \in Nat /\ Cardinality(T) \in Nat
  <2>1. Tail(s) \in Seq(S)
    OBVIOUS
  <2> QED
    BY <2>1, PlacesFinite
<1>2. f \in Injection(T, P \ {1})
  <2>1. \A i \in T : i \in Nat /\ i >= 1 /\ i + 1 \in P
    BY DEF Places
  <2>2. f \in [T -> P \ {1}]
    BY <2>1
  <2> HIDE DEF T, P
  <2>3. \A i, j \in T : f[i] = f[j] => i = j
    BY <2>1
  <2> QED
    BY <2>2, <2>3 DEF Injection, IsInjective
<1>3. IsFiniteSet(P \ {1}) /\ Cardinality(P \ {1}) = IF 1 \in P THEN Cardinality(P) - 1 ELSE Cardinality(P)
  BY <1>1, FS_RemoveElement
<1>4. Cardinality(T) <= Cardinality(P \ {1})
  BY <1>2, <1>3, FS_Injection
<1>5. l = Head(s) => 1 \in P
  BY DEF Places
<1> QED
  BY <1>1, <1>3, <1>4, <1>5

LEMMA PlacesConcat ==
  ASSUME NEW S, NEW s \in Seq(S), NEW r \in Seq(S), NEW l
  PROVE  Cardinality(Places(l, s \o r)) <= Cardinality(Places(l, s)) + Cardinality(Places(l, r))
<1> DEFINE P == Places(l, s)
           R == Places(l, r)
           U == {i \in 1..(Len(s) + Len(r)) : i > Len(s) /\ r[i - Len(s)] = l}
           f == [i \in U |-> i - Len(s)]
<1>1. IsFiniteSet(P) /\ IsFiniteSet(R) /\ Cardinality(P) \in Nat /\ Cardinality(R) \in Nat
  BY PlacesFinite
<1>2. Places(l, s \o r) \subseteq P \union U
  BY DEF Places
<1>3. f \in Injection(U, R)
  <2>1. \A i \in U : i \in Int /\ i - Len(s) \in R
    BY DEF Places
  <2>2. f \in [U -> R]
    BY <2>1
  <2> HIDE DEF U, R
  <2>3. \A i, j \in U : f[i] = f[j] => i = j
    BY <2>1
  <2> QED
    BY <2>2, <2>3 DEF Injection, IsInjective
<1>4. IsFiniteSet(U) /\ Cardinality(U) <= Cardinality(R)
  BY <1>1, <1>3, FS_Injection
<1>5. IsFiniteSet(P \union U) /\ Cardinality(P \union U) <= Cardinality(P) + Cardinality(U)
  <2>1. Cardinality(P \union U) = Cardinality(P) + Cardinality(U) - Cardinality(P \intersect U)
    BY <1>1, <1>4, FS_Union
  <2>2. IsFiniteSet(P \union U) /\ IsFiniteSet(P \intersect U)
    BY <1>1, <1>4, FS_Union, FS_Intersection
  <2> HIDE DEF U, P
  <2> QED
    BY <1>1, <1>4, <2>1, <2>2, FS_CardinalityType
<1>6. Cardinality(Places(l, s \o r)) <= Cardinality(P \union U)
  BY <1>2, <1>5, FS_Subset
<1>7. /\ Cardinality(U) \in Nat /\ Cardinality(P \union U) \in Nat
      /\ Cardinality(Places(l, s \o r)) \in Nat
  BY <1>2, <1>4, <1>5, FS_Subset, FS_CardinalityType
<1> HIDE DEF U
<1> QED
  BY <1>1, <1>4, <1>5, <1>6, <1>7

(***************************************************************************)
(* The invariant                                                           *)
(***************************************************************************)
LEMMA RoomType == Room \in Nat
BY SupervisorAssumption, FS_CardinalityType DEF Room

LEMMA InitInv == Init => SupInv
<1> SUFFICES ASSUME Init PROVE SupInv
  OBVIOUS
<1> USE SupervisorAssumption DEF Init
<1>1. TypeOK
  BY RoomType DEF TypeOK, Gone
<1>2. PendingIsOpen /\ IdleIsEmpty /\ NothingStranded /\ AnsweredOnce
  BY DEF PendingIsOpen, IdleIsEmpty, NothingStranded, AnsweredOnce
<1>3. PutsCounted
  BY PlacesEmpty DEF PutsCounted
<1> QED
  BY <1>1, <1>2, <1>3 DEF SupInv

\* What the worker processes do is not seen by map_rollouts until it reads their messages.
LEMMA ProcsKeep ==
  ASSUME SupInv, TypeOK', UNCHANGED <<call, pc, locals, past>>
  PROVE  SupInv'
BY DEF SupInv, locals, past, PendingIsOpen, PutsCounted, IdleIsEmpty, NothingStranded, AnsweredOnce

Workers == [st : {"running"}, lease : Leases] \union {Idle, Dead, Gone}

LEMMA TakeKeeps ==
  ASSUME SupInv, NEW w \in Wids, Take(w)
  PROVE  SupInv'
<1>1. /\ tasks \in Seq(Leases \union {Stop}) /\ tasks # <<>> /\ Len(tasks) <= Room
      /\ results \in Seq(Msgs) /\ worker \in [Wids -> Workers]
  BY DEF Take, SupInv, TypeOK, Workers
<1>2. Head(tasks) \in Leases \union {Stop} /\ Tail(tasks) \in Seq(Leases \union {Stop})
      /\ Len(Tail(tasks)) <= Room
  BY <1>1, RoomType
<1>3. \E v \in Workers, m \in Msgs :
        worker' = [worker EXCEPT ![w] = v] /\ results' = Append(results, m)
  <2>1. CASE Head(tasks) = Stop
    <3>1. Message("BYE", w, None) \in Msgs /\ Gone \in Workers
      BY DEF Message, Msgs, Workers
    <3> QED
      BY <2>1, <3>1 DEF Take
  <2>2. CASE Head(tasks) # Stop
    <3>1. /\ Message("START", w, Head(tasks)) \in Msgs
          /\ [st |-> "running", lease |-> Head(tasks)] \in Workers
      BY <1>2, <2>2 DEF Message, Msgs, Workers
    <3> QED
      BY <2>2, <3>1 DEF Take
  <2> QED
    BY <2>1, <2>2
<1>4. worker' \in [Wids -> Workers] /\ results' \in Seq(Msgs)
  BY <1>1, <1>3
<1>5. TypeOK'
  BY <1>2, <1>4 DEF Take, SupInv, TypeOK, Workers, pool, locals, past
<1> QED
  BY <1>5, ProcsKeep DEF Take

LEMMA ReportKeeps ==
  ASSUME SupInv, NEW w \in Wids, Report(w)
  PROVE  SupInv'
<1>1. worker \in [Wids -> Workers] /\ results \in Seq(Msgs) /\ Idle \in Workers
  BY DEF SupInv, TypeOK, Workers
<1>2. worker[w].lease \in Leases
  BY <1>1 DEF Report, Workers, Idle, Dead, Gone
<1>3. Message("DONE", w, worker[w].lease) \in Msgs
  BY <1>2 DEF Message, Msgs
<1>4. worker' \in [Wids -> Workers] /\ results' \in Seq(Msgs)
  BY <1>1, <1>3 DEF Report
<1>5. TypeOK'
  BY <1>4 DEF Report, SupInv, TypeOK, Workers, pool, locals, past
<1> QED
  BY <1>5, ProcsKeep DEF Report

LEMMA DiesKeeps ==
  ASSUME SupInv, NEW w \in Wids, Dies(w)
  PROVE  SupInv'
<1>1. PICK written \in 0..Len(results) :
        results' \in Subsequence({i \in DOMAIN results : i <= written \/ results[i].wid # w})
  BY DEF Dies
<1>2. results \in Seq(Msgs)
  BY DEF SupInv, TypeOK
<1>3. results' \in Seq(Msgs)
  BY <1>1, <1>2, SubsequenceType
<1>4. worker' \in [Wids -> [st : {"running"}, lease : Leases] \union {Idle, Dead, Gone}]
  BY DEF SupInv, TypeOK, Dies
<1>5. deaths' \in 0..MaxDeaths
  BY SupervisorAssumption DEF SupInv, TypeOK, Dies
<1> QED
  BY <1>3, <1>4, <1>5, ProcsKeep DEF Dies, SupInv, TypeOK, pool, locals, past

LEMMA CallKeeps ==
  ASSUME SupInv, Call
  PROVE  SupInv'
<1> DEFINE batch == Batches[call + 1]
<1>1. /\ call + 1 \in DOMAIN Batches /\ call \in Nat /\ batch \in Seq(Leases)
      /\ \A i, j \in DOMAIN batch : i # j => batch[i] # batch[j]
  <2>1. call + 1 \in DOMAIN Batches /\ call \in Nat
    BY SupervisorAssumption DEF Call, SupInv, TypeOK
  <2> QED
    BY <2>1, SupervisorAssumption DEF IsInjective
<1>2. toSend' = batch /\ pending' = Range(batch) /\ Range(batch) \subseteq Leases
  BY <1>1 DEF Call, Range
<1>3. TypeOK'
  <2>1. worker' \in [Wids -> [st : {"running"}, lease : Leases] \union {Idle, Dead, Gone}]
    BY DEF Call, SupInv, TypeOK
  <2>2. restarts' \in [Wids -> Nat] /\ slots' \subseteq Wids /\ call' \in 0..Len(Batches)
    BY SupervisorAssumption DEF Call, SupInv, TypeOK
  <2> QED
    BY <1>1, <1>2, <2>1, <2>2 DEF Call, SupInv, TypeOK, queues, past
<1>4. PendingIsOpen'
  <2>1. ASSUME NEW l \in pending' PROVE answers[l] = 0
    <3>1. l \in Range(Batches[call + 1]) /\ l \in Leases
      BY <1>2, <2>1
    <3>2. SUFFICES ASSUME answers[l] # 0 PROVE FALSE
      OBVIOUS
    <3>3. PICK i \in DOMAIN Batches : i <= call /\ l \in Range(Batches[i])
      BY <3>1, <3>2 DEF SupInv, PendingIsOpen
    <3>4. i # call + 1
      BY <1>1, <3>3, SupervisorAssumption
    <3> QED
      BY <1>1, <3>1, <3>3, <3>4, DistinctLeases
  <2>2. ASSUME NEW l \in Leases, answers[l] # 0
        PROVE  \E i \in DOMAIN Batches : i <= call + 1 /\ l \in Range(Batches[i])
    <3>1. PICK i \in DOMAIN Batches : i <= call /\ l \in Range(Batches[i])
      BY <2>2 DEF SupInv, PendingIsOpen
    <3> QED
      BY <1>1, <3>1, SupervisorAssumption
  <2> QED
    BY <1>1, <1>2, <2>1, <2>2 DEF Call, past, PendingIsOpen
<1>5. PutsCounted'
  <2> SUFFICES ASSUME NEW l \in Leases
               PROVE  /\ sent'[l] + Cardinality(Places(l, toSend')) <= attempts'[l] + 1
                      /\ sent'[l] + Cardinality(Places(l, toSend')) <= MaxAgain + 1
    BY DEF PutsCounted
  <2>1. sent'[l] = 0 /\ attempts'[l] = 0
    BY DEF Call, past, SupInv, IdleIsEmpty
  <2>2. Cardinality(Places(l, toSend')) <= 1 /\ Cardinality(Places(l, toSend')) \in Nat
    BY <1>1, <1>2, PlacesOnce, PlacesFinite
  <2> QED
    BY <2>1, <2>2, SupervisorAssumption
<1>6. IdleIsEmpty' /\ AnsweredOnce' /\ NothingStranded'
  BY <1>2 DEF Call, past, SupInv, IdleIsEmpty, AnsweredOnce, NothingStranded
<1> QED
  BY <1>3, <1>4, <1>5, <1>6 DEF SupInv

LEMMA ReturnKeeps ==
  ASSUME SupInv, Return
  PROVE  SupInv'
<1> USE DEF Return, SupInv, procs, queues, pool
<1>1. TypeOK'
  BY DEF TypeOK
<1>2. PutsCounted'
  BY PlacesEmpty, SupervisorAssumption DEF PutsCounted
<1>3. PendingIsOpen' /\ IdleIsEmpty' /\ NothingStranded' /\ AnsweredOnce'
  BY DEF PendingIsOpen, IdleIsEmpty, NothingStranded, AnsweredOnce
<1> QED
  BY <1>1, <1>2, <1>3

LEMMA SendKeeps ==
  ASSUME SupInv, Send
  PROVE  SupInv'
<1> DEFINE l == Head(toSend)
<1>1. /\ pc = "loop" /\ toSend # <<>> /\ toSend \in Seq(Leases) /\ Len(tasks) < Room
      /\ tasks' = Append(tasks, l) /\ inflight' = inflight \union {l}
      /\ sent' = [sent EXCEPT ![l] = @ + 1] /\ toSend' = Tail(toSend)
      /\ UNCHANGED <<procs, results, pool, call, pc, pending, owner, attempts, answers>>
  BY DEF Send, Sends, SupInv, TypeOK
<1>2. l \in Leases /\ Tail(toSend) \in Seq(Leases)
  BY <1>1
<1>3. TypeOK'
  <2>1. tasks' \in Seq(Leases \union {Stop}) /\ Len(tasks') <= Room
    BY <1>1, <1>2, RoomType DEF SupInv, TypeOK
  <2>2. inflight \in SUBSET Leases /\ sent \in [Leases -> Nat]
    BY DEF SupInv, TypeOK
  <2>3. inflight' \in SUBSET Leases /\ toSend' \in Seq(Leases)
    BY <1>1, <1>2, <2>2
  <2>4. sent' \in [Leases -> Nat]
    BY <1>1, <1>2, <2>2
  <2> QED
    BY <1>1, <2>1, <2>3, <2>4 DEF SupInv, TypeOK, procs, pool
<1>4. PutsCounted'
  <2> SUFFICES ASSUME NEW k \in Leases
               PROVE  /\ sent'[k] + Cardinality(Places(k, toSend')) <= attempts'[k] + 1
                      /\ sent'[k] + Cardinality(Places(k, toSend')) <= MaxAgain + 1
    BY DEF PutsCounted
  <2> DEFINE had == Cardinality(Places(k, toSend))
             has == Cardinality(Places(k, Tail(toSend)))
  <2>1. had \in Nat /\ has \in Nat
    BY <1>1, <1>2, PlacesFinite
  <2>2. has <= had /\ (k = l => has + 1 <= had)
    BY <1>1, PlacesTail
  <2>3. sent[k] \in Nat /\ attempts[k] \in Nat /\ MaxAgain \in Nat /\ attempts'[k] = attempts[k]
    BY <1>1, SupervisorAssumption DEF SupInv, TypeOK
  <2>4. sent'[k] = IF k = l THEN sent[k] + 1 ELSE sent[k]
    BY <1>1 DEF SupInv, TypeOK
  <2>5. sent[k] + had <= attempts[k] + 1 /\ sent[k] + had <= MaxAgain + 1
    BY DEF SupInv, PutsCounted
  <2> HIDE DEF l, had, has
  <2>6. sent'[k] + has <= attempts[k] + 1 /\ sent'[k] + has <= MaxAgain + 1
    BY <2>1, <2>2, <2>3, <2>4, <2>5
  <2> QED
    BY <1>1, <2>3, <2>6 DEF has
<1>5. NothingStranded'
  <2>1. \A k \in Range(toSend) : k = l \/ k \in Range(Tail(toSend))
    <3> SUFFICES ASSUME NEW i \in DOMAIN toSend, i # 1 PROVE toSend[i] \in Range(Tail(toSend))
      BY <1>1 DEF Range
    <3>1. i - 1 \in DOMAIN Tail(toSend) /\ Tail(toSend)[i - 1] = toSend[i]
      BY <1>1
    <3> QED
      BY <3>1 DEF Range
  <2> QED
    BY <1>1, <2>1 DEF SupInv, NothingStranded
<1>6. PendingIsOpen' /\ IdleIsEmpty' /\ AnsweredOnce'
  BY <1>1 DEF SupInv, PendingIsOpen, IdleIsEmpty, AnsweredOnce
<1> QED
  BY <1>3, <1>4, <1>5, <1>6 DEF SupInv

LEMMA ReceiveKeeps ==
  ASSUME SupInv, Receive
  PROVE  SupInv'
<1> DEFINE m == Head(results)
<1>1. /\ pc = "loop" /\ results \in Seq(Msgs) /\ results # <<>> /\ results' = Tail(results)
      /\ Started(m) \/ Finished(m) \/ UNCHANGED <<owner, inflight, pending, answers>>
      /\ UNCHANGED <<procs, tasks, pool, call, pc, attempts, toSend, sent>>
  BY DEF Receive, Waits, SupInv, TypeOK
<1>2. m \in Msgs /\ Tail(results) \in Seq(Msgs)
  BY <1>1
<1>3. /\ owner \in [Leases -> Wids \union {None}] /\ pending \in SUBSET Leases
      /\ inflight \in SUBSET Leases /\ answers \in [Leases -> Nat]
  BY DEF SupInv, TypeOK
<1>4. TypeOK'
  <2>1. /\ owner' \in [Leases -> Wids \union {None}] /\ pending' \in SUBSET Leases
        /\ inflight' \in SUBSET Leases /\ answers' \in [Leases -> Nat]
    <3>1. CASE Started(m)
      <4>1. m.lease \in Leases /\ m.wid \in Wids
        BY <1>2, <3>1 DEF Started, Msgs
      <4> QED
        BY <1>3, <3>1, <4>1 DEF Started
    <3>2. CASE Finished(m)
      <4>1. answers' \in [Leases -> Nat]
        BY <1>3, <3>2 DEF Finished, Yield
      <4> QED
        BY <1>3, <3>2, <4>1 DEF Finished, Settled
    <3>3. CASE UNCHANGED <<owner, inflight, pending, answers>>
      BY <1>3, <3>3
    <3> QED
      BY <1>1, <3>1, <3>2, <3>3
  <2> QED
    BY <1>1, <1>2, <2>1 DEF SupInv, TypeOK, procs, pool
<1>5. /\ pending' \subseteq pending /\ \A l \in pending' \intersect inflight : l \in inflight'
      /\ \A l \in Leases : \/ answers'[l] = answers[l]
                           \/ l \in pending \ pending' /\ answers'[l] = answers[l] + 1
  <2>1. CASE Started(m)
    BY <2>1 DEF Started
  <2>2. CASE Finished(m)
    <3>1. pending' = pending \ {m.lease} /\ inflight' = inflight \ {m.lease}
      BY <2>2 DEF Finished, Settled
    <3>2. CASE m.lease \in pending
      BY <1>3, <2>2, <3>1, <3>2 DEF Finished, Yield
    <3>3. CASE m.lease \notin pending
      BY <2>2, <3>1, <3>3 DEF Finished, Yield
    <3> QED
      BY <3>2, <3>3
  <2>3. CASE UNCHANGED <<owner, inflight, pending, answers>>
    BY <2>3
  <2> QED
    BY <1>1, <2>1, <2>2, <2>3
<1>6. NothingStranded'
  BY <1>1, <1>5 DEF SupInv, NothingStranded
<1>7. PendingIsOpen' /\ AnsweredOnce'
  BY <1>1, <1>5 DEF SupInv, TypeOK, PendingIsOpen, AnsweredOnce
<1>8. IdleIsEmpty' /\ PutsCounted'
  BY <1>1 DEF SupInv, IdleIsEmpty, PutsCounted
<1> QED
  BY <1>4, <1>6, <1>7, <1>8 DEF SupInv

LEMMA PendingFinite ==
  ASSUME SupInv
  PROVE  IsFiniteSet(pending)
<1>1. CASE pending = {}
  BY <1>1, FS_EmptySet
<1>2. CASE pending # {}
  <2>1. call \in DOMAIN Batches /\ pending \subseteq Range(Batches[call])
    BY <1>2 DEF SupInv, PendingIsOpen
  <2>2. Batches[call] \in Seq(Leases)
    BY <2>1, SupervisorAssumption
  <2> QED
    BY <2>1, <2>2, SeqRangeFinite, FS_Subset
<1> QED
  BY <1>1, <1>2

LEMMA RespawnType ==
  ASSUME TypeOK, Respawn
  PROVE  /\ slots' \subseteq Wids /\ restarts' \in [Wids -> Nat] /\ worker' \in [Wids -> Workers]
<1>1. slots \subseteq Wids /\ restarts \in [Wids -> Nat] /\ worker \in [Wids -> Workers]
  BY DEF TypeOK, Workers
<1>2. PICK gone :
        /\ slots' = slots \ gone
        /\ restarts' = [w \in Wids |-> IF w \in DeadSlots \ gone THEN restarts[w] + 1
                                       ELSE restarts[w]]
        /\ worker' = [w \in Wids |-> CASE w \in gone -> Gone
                                       [] w \in DeadSlots \ gone -> Idle
                                       [] OTHER -> worker[w]]
  BY DEF Respawn
<1>3. Gone \in Workers /\ Idle \in Workers
  BY DEF Workers
<1> HIDE DEF Workers
<1> QED
  BY <1>1, <1>2, <1>3

LEMMA ReclaimKeeps ==
  ASSUME SupInv, NEW overdue \in SUBSET inflight, Reclaim(overdue)
  PROVE  SupInv'
<1> DEFINE again   == Lost(overdue) \intersect pending
           givenUp == {l \in again : Exhausted(l)}
           S       == again \ givenUp
<1>1. PICK r \in SetToSeqs(S) :
        /\ toSend' = toSend \o r
        /\ inflight' = inflight \ Lost(overdue)
        /\ attempts' = [l \in Leases |-> attempts[l] + (IF l \in again THEN 1 ELSE 0)]
        /\ pending' = pending \ givenUp
        /\ answers' = [l \in Leases |-> answers[l] + (IF l \in givenUp THEN 1 ELSE 0)]
  BY DEF Reclaim
<1>2. /\ pc = "reclaim" /\ pc' = "loop" /\ Respawn
      /\ UNCHANGED <<deaths, queues, call, owner, sent>>
  BY DEF Reclaim
<1>3. /\ pending \in SUBSET Leases /\ inflight \in SUBSET Leases /\ toSend \in Seq(Leases)
      /\ attempts \in [Leases -> Nat] /\ answers \in [Leases -> Nat] /\ sent \in [Leases -> Nat]
  BY DEF SupInv, TypeOK
<1>4. S \subseteq Leases /\ S \subseteq pending /\ givenUp \subseteq pending /\ IsFiniteSet(S)
  BY <1>3, PendingFinite, FS_Subset
<1> HIDE DEF S
<1>5. /\ r \in Seq(Leases) /\ Range(r) = S
      /\ \A i, j \in DOMAIN r : i # j => r[i] # r[j]
  <2>1. r \in Seq(S) /\ Range(r) = S /\ \A i, j \in DOMAIN r : i # j => r[i] # r[j]
    BY <1>4, OrderIsSeq, OrderIsOnto
  <2> QED
    BY <1>4, <2>1
<1>6. TypeOK'
  <2>1. slots' \subseteq Wids /\ restarts' \in [Wids -> Nat] /\ worker' \in [Wids -> Workers]
    BY <1>2, RespawnType DEF SupInv
  <2>2. /\ pending' \in SUBSET Leases /\ inflight' \in SUBSET Leases /\ toSend' \in Seq(Leases)
        /\ attempts' \in [Leases -> Nat] /\ answers' \in [Leases -> Nat]
    BY <1>1, <1>3, <1>5
  <2> QED
    BY <1>2, <2>1, <2>2 DEF SupInv, TypeOK, Workers, queues
<1>7. PutsCounted'
  <2> SUFFICES ASSUME NEW l \in Leases
               PROVE  /\ sent'[l] + Cardinality(Places(l, toSend')) <= attempts'[l] + 1
                      /\ sent'[l] + Cardinality(Places(l, toSend')) <= MaxAgain + 1
    BY DEF PutsCounted
  <2> DEFINE had  == Cardinality(Places(l, toSend))
             more == Cardinality(Places(l, r))
             has  == Cardinality(Places(l, toSend \o r))
  <2>1. had \in Nat /\ more \in Nat /\ has \in Nat
    <3>1. toSend \o r \in Seq(Leases)
      BY <1>3, <1>5
    <3> QED
      BY <1>3, <1>5, <3>1, PlacesFinite
  <2>2. has <= had + more /\ more <= 1
    BY <1>3, <1>5, PlacesConcat, PlacesOnce
  <2>3. l \notin S => more = 0
    <3> SUFFICES ASSUME l \notin S PROVE more = 0
      OBVIOUS
    <3>1. Places(l, r) = {}
      BY <1>5 DEF Places, Range
    <3> QED
      BY <3>1, FS_EmptySet
  <2>4. sent[l] + had <= attempts[l] + 1 /\ sent[l] + had <= MaxAgain + 1
    BY DEF SupInv, PutsCounted
  <2>5. sent[l] \in Nat /\ attempts[l] \in Nat /\ MaxAgain \in Nat /\ sent'[l] = sent[l]
    BY <1>2, <1>3, SupervisorAssumption
  <2>6. /\ attempts'[l] \in {attempts[l], attempts[l] + 1}
        /\ l \in S => attempts'[l] = attempts[l] + 1 /\ attempts[l] + 1 <= MaxAgain
    BY <1>1, <1>3, <2>5 DEF S, Exhausted
  <2> HIDE DEF had, more, has
  <2>7. sent[l] + has <= attempts'[l] + 1 /\ sent[l] + has <= MaxAgain + 1
    BY <2>1, <2>2, <2>3, <2>4, <2>5, <2>6
  <2> QED
    BY <1>1, <2>5, <2>7 DEF has
<1>8. NothingStranded'
  <2> SUFFICES ASSUME NEW l \in pending' PROVE l \in inflight' \union Range(toSend')
    BY DEF NothingStranded
  <2>1. l \in pending /\ l \notin givenUp
    BY <1>1
  <2>2. CASE l \in Lost(overdue)
    <3>1. l \in Range(r)
      BY <1>5, <2>1, <2>2 DEF S
    <3>2. PICK i \in DOMAIN r : r[i] = l
      BY <3>1 DEF Range
    <3>3. Len(toSend) + i \in DOMAIN (toSend \o r) /\ (toSend \o r)[Len(toSend) + i] = l
      BY <1>3, <1>5, <3>2
    <3> QED
      BY <1>1, <3>3 DEF Range
  <2>3. CASE l \in inflight /\ l \notin Lost(overdue)
    BY <1>1, <2>3
  <2>4. CASE l \in Range(toSend)
    <3>1. PICK i \in DOMAIN toSend : toSend[i] = l
      BY <2>4 DEF Range
    <3>2. i \in DOMAIN (toSend \o r) /\ (toSend \o r)[i] = l
      BY <1>3, <1>5, <3>1
    <3> QED
      BY <1>1, <3>2 DEF Range
  <2> QED
    BY <2>1, <2>2, <2>3, <2>4 DEF SupInv, NothingStranded
<1>9. PendingIsOpen' /\ AnsweredOnce'
  <2>1. \A l \in pending : /\ call \in DOMAIN Batches /\ l \in Range(Batches[call])
                           /\ answers[l] = 0
    BY DEF SupInv, PendingIsOpen
  <2>2. \A l \in Leases : answers'[l] = IF l \in givenUp THEN answers[l] + 1 ELSE answers[l]
    BY <1>1, <1>3
  <2>3. pending' = pending \ givenUp /\ givenUp \subseteq pending /\ pending \subseteq Leases
    BY <1>1, <1>3
  <2>4. \A l \in Leases : answers[l] # 0 => \E i \in DOMAIN Batches : i <= call /\ l \in Range(Batches[i])
    BY DEF SupInv, PendingIsOpen
  <2>5. call \in Nat /\ call' = call
    BY <1>2, SupervisorAssumption DEF SupInv, TypeOK
  <2> HIDE DEF givenUp, again
  <2>6. \A l \in Leases : answers'[l] # 0 => \E i \in DOMAIN Batches : i <= call /\ l \in Range(Batches[i])
    BY <2>1, <2>2, <2>3, <2>4, <2>5
  <2>7. PendingIsOpen'
    BY <2>1, <2>2, <2>3, <2>5, <2>6 DEF PendingIsOpen
  <2>8. AnsweredOnce'
    BY <2>1, <2>2, <2>3 DEF SupInv, AnsweredOnce
  <2> QED
    BY <2>7, <2>8
<1>10. IdleIsEmpty'
  BY <1>2 DEF IdleIsEmpty
<1> QED
  BY <1>6, <1>7, <1>8, <1>9, <1>10 DEF SupInv

LEMMA ShutdownKeeps ==
  ASSUME SupInv, Shutdown
  PROVE  SupInv'
<1> DEFINE n == StopsPut
           stops == [i \in 1..n |-> Stop]
<1>1. tasks \in Seq(Leases \union {Stop}) /\ Len(tasks) <= Room /\ slots \subseteq Wids
  BY DEF SupInv, TypeOK
<1>2. n \in Nat /\ n <= Room - Len(tasks)
  <2> DEFINE a == Cardinality(slots)
             b == Room - Len(tasks)
  <2>1. a \in Nat /\ b \in Nat
    BY <1>1, RoomType, SupervisorAssumption, FS_Subset, FS_CardinalityType
  <2>2. \E x \in {a, b} : \A y \in {a, b} : x <= y
    BY <2>1
  <2>3. Min({a, b}) \in {a, b} /\ Min({a, b}) <= b
    BY <2>2 DEF Min
  <2> QED
    BY <2>1, <2>3 DEF StopsPut
<1>3. stops \in Seq(Leases \union {Stop}) /\ Len(stops) = n
  BY <1>2
<1>4. tasks' = tasks \o stops
  BY DEF Shutdown
<1> HIDE DEF n, stops
<1>5. tasks' \in Seq(Leases \union {Stop}) /\ Len(tasks') <= Room
  BY <1>1, <1>2, <1>3, <1>4, RoomType
<1>6. TypeOK'
  <2>1. results' \in Seq(Msgs) /\ pc' = "join"
    BY DEF Shutdown
  <2> QED
    BY <1>5, <2>1 DEF Shutdown, SupInv, TypeOK, procs, pool, locals, past
<1>7. PendingIsOpen' /\ PutsCounted' /\ IdleIsEmpty' /\ NothingStranded' /\ AnsweredOnce'
  BY DEF Shutdown, SupInv, locals, past, PendingIsOpen, PutsCounted, IdleIsEmpty, NothingStranded,
         AnsweredOnce
<1> QED
  BY <1>6, <1>7 DEF SupInv

\* The steps that only take the supervisor to another place.
LEMMA MovesKeep ==
  ASSUME SupInv, NothingCame \/ Join
  PROVE  SupInv'
<1>1. TypeOK'
  <2>1. CASE NothingCame
    BY <2>1 DEF NothingCame, SupInv, TypeOK, procs, queues, pool, locals, past
  <2>2. CASE Join
    <3>1. worker' \in [Wids -> Workers]
      BY <2>2 DEF Join, SupInv, TypeOK, Workers
    <3> QED
      BY <2>2, <3>1 DEF Join, SupInv, TypeOK, Workers, queues, locals, past
  <2> QED
    BY <2>1, <2>2
<1>2. PendingIsOpen' /\ PutsCounted' /\ IdleIsEmpty' /\ NothingStranded' /\ AnsweredOnce'
  BY DEF NothingCame, Waits, Join, SupInv, locals, past, PendingIsOpen, PutsCounted, IdleIsEmpty,
         NothingStranded, AnsweredOnce
<1> QED
  BY <1>1, <1>2 DEF SupInv

LEMMA NextKeeps == SupInv /\ [Next]_vars => SupInv'
<1> SUFFICES ASSUME SupInv, [Next]_vars PROVE SupInv'
  OBVIOUS
<1>1. CASE UNCHANGED vars
  <2>1. UNCHANGED <<call, pc, locals, past>> /\ TypeOK'
    BY <1>1 DEF vars, procs, queues, pool, locals, past, SupInv, TypeOK
  <2> QED
    BY <2>1, ProcsKeep
<1>2. CASE SupervisorStep
  BY <1>2, CallKeeps, ReturnKeeps, SendKeeps, ReceiveKeeps, MovesKeep, ShutdownKeeps, ReclaimKeeps
     DEF SupervisorStep
<1>3. CASE \E w \in Wids : Take(w) \/ Report(w) \/ Dies(w)
  BY <1>3, TakeKeeps, ReportKeeps, DiesKeeps
<1> QED
  BY <1>1, <1>2, <1>3 DEF Next, Closed

LEMMA SupervisorInvariant == Spec => []SupInv
BY InitInv, NextKeeps, PTL DEF Spec

\* Types: what is on the bounded queue fits, also when shutdown asks the workers to stop.
THEOREM SupTypeCorrect == Spec => []TypeOK
BY SupervisorInvariant, PTL DEF SupInv

\* No lease that waits for an answer is forgotten: it is in flight or about to be sent, whatever
\* dies, hangs or reports late (map_rollouts, _reclaim).
THEOREM NothingStrandedHolds == Spec => []NothingStranded
BY SupervisorInvariant, PTL DEF SupInv

\* A lease is answered once over all calls: late and double reports are dropped (map_rollouts).
THEOREM AnsweredOnceHolds == Spec => []AnsweredOnce
BY SupervisorInvariant, PTL DEF SupInv

\* No lease is put on the queue more often than once and MaxAgain times again, although it may wait
\* there more than once at a time (_reclaim).
THEOREM PoisonBoundedHolds == Spec => []PoisonBounded
<1>1. SupInv => PoisonBounded
  <2> SUFFICES ASSUME SupInv, NEW l \in Leases PROVE sent[l] <= MaxAgain + 1
    BY DEF PoisonBounded
  <2>1. Cardinality(Places(l, toSend)) \in Nat /\ sent[l] \in Nat
    BY PlacesFinite DEF SupInv, TypeOK
  <2>2. sent[l] + Cardinality(Places(l, toSend)) <= MaxAgain + 1
    BY DEF SupInv, PutsCounted
  <2> QED
    BY <2>1, <2>2, SupervisorAssumption
<1> QED
  BY <1>1, SupervisorInvariant, PTL
=============================================================================
