---------------------------- MODULE LedgerProofs ----------------------------
(***************************************************************************)
(* Proofs about Ledger, for any threads, artifacts and live heads.  What   *)
(* holds depends on who shares the repository and on what can fail, and    *)
(* the theorems say so:                                                    *)
(*   - one instance, whose git commands succeed: it reads the branch it    *)
(*     asks for, loses no update, and implements VersionedStore;           *)
(*   - any instances and any faults, on the dev branch alone: no update    *)
(*     that was acknowledged is lost.                                      *)
(***************************************************************************)
EXTENDS Ledger, TLAPS

\* One process opens the repository; a file may fail to be written, and is rolled back.
OneInstance == \A i, j \in Instances : i = j
OnlyWritesFail == Faults \subseteq {"write"}

(***************************************************************************)
(* The sections: which branches a method visits, and when it writes        *)
(***************************************************************************)
Writing == {"write", "add", "commit", "rev"}

Itinerary ==
  /\ cs.by = None => cs = Free
  /\ cs.at = "checkout" => cs.todo # <<>>
  /\ cs.by # None =>
       \/ cs.op = "snapshot" /\ Len(cs.todo) = 1 /\ cs.at \notin Writing
       \/ /\ cs.op = "commit" /\ cs.todo = <<seen[cs.by].branch>>
          /\ seen[cs.by].branch \notin {None, "stable"}
       \/ /\ cs.op = "register" /\ cs.todo \in {<<"stable", "dev">>, <<"dev">>}
          /\ \E a \in Artifacts : cs.ids = {a}
       \/ /\ cs.op = "promote" /\ \E a \in Artifacts : cs.ids = {a}
          /\ \/ cs.todo = <<"dev", "stable">> /\ cs.at \notin Writing
             \/ cs.todo = <<"stable">>
       \/ /\ cs.op = "fork" /\ Len(cs.todo) = 1 /\ cs.at \notin Writing
          /\ cs.name \in Heads
       \/ /\ cs.op = "discard" /\ cs.todo \in {<<"dev">>, <<>>} /\ cs.at \notin Writing
          /\ cs.name \in Heads

TypeInv == TypeOK /\ Itinerary

(***************************************************************************)
(* One instance                                                            *)
(***************************************************************************)
\* Between the writes of a method the index and the tree are the tip of HEAD, so that a checkout
\* leaves the branch it asked for; a cache that is set is right.
CacheRight == \A i \in Instances : cached[i] \in {None, head}

TreeFollows ==
  /\ cs.at # "commit" => index = tip[head]
  /\ cs.at \in {"checkout", "body", "rev"} => tree = tip[head]
  /\ cs.at = "write" =>
       /\ cs.before = tip[head] /\ tree.vv = tip[head].vv
       /\ \A a \in Artifacts : tree.art[a] \in {tip[head].art[a], cs.want.art[a]}
       /\ \A a \in Artifacts \ cs.ids : cs.want.art[a] = tip[head].art[a]
  /\ cs.at \in {"add", "commit"} => tree = cs.want
  /\ cs.at = "commit" => index = cs.want

HeadIsTarget == Visiting => head = Target

OneInv == TypeInv /\ CacheRight /\ TreeFollows /\ HeadIsTarget

\* The files of a tree carry the versions of its vector; version 0 holds nothing.
Consistent(t) ==
  \A a \in Artifacts : t.vv[a] = t.art[a].version /\ (t.vv[a] = 0 => t.art[a].state = {})

\* The branches that are always there, and the one HEAD names, are.
Alive ==
  /\ \A b \in {"dev", "stable", head} : tip[b] # None
  /\ \A b \in Branches : tip[b] # None => Consistent(tip[b])

\* dev only grows: a snapshot of it is older, or is what dev holds.
SeenIsOld ==
  \A w \in Writers, a \in Artifacts : seen[w].branch = "dev" =>
     /\ seen[w].tree.vv[a] <= tip["dev"].vv[a]
     /\ seen[w].tree.vv[a] = tip["dev"].vv[a] => seen[w].tree.art[a] = tip["dev"].art[a]

\* What a method is about to commit is what it promised, against the tip it is going to replace.
WantsCommit ==
  \A a \in Artifacts :
     /\ cs.want.vv[a] = cs.want.art[a].version
     /\ a \notin cs.ids => cs.want.art[a] = tip[head].art[a]
     /\ a \in cs.ids =>
          /\ cs.want.art[a].version = tip[head].vv[a] + 1
          /\ writes \in cs.want.art[a].state
          /\ head = "dev" => tip["dev"].art[a].state \subseteq cs.want.art[a].state

WantsRegister ==
  \A a \in cs.ids : tip[head].vv[a] = 0 /\ cs.want = Put(tip[head], a, 1, {})

WantsPromote ==
  \A a \in cs.ids :
     /\ tip["dev"].vv[a] > 0
     /\ cs.want = Put(tip[head], a, tip[head].vv[a] + 1, tip["dev"].art[a].state)

Wanted ==
  cs.at \in {"write", "add", "commit"} =>
     /\ cs.op = "commit" => WantsCommit
     /\ cs.op = "register" => WantsRegister
     /\ cs.op = "promote" => WantsPromote

\* promote_to_stable() has copied dev by the time it goes to stable.
Copied ==
  cs.op = "promote" /\ cs.todo = <<"stable">> /\ cs.at \in {"checkout", "body"} =>
     cs.want = tip["dev"] /\ \A a \in cs.ids : tip["dev"].vv[a] > 0

Landed ==
  cs.op = "commit" /\ cs.at = "rev" /\ head = "dev" =>
     \A a \in cs.ids : writes \in tip["dev"].art[a].state

StoreInv == OneInv /\ Alive /\ SeenIsOld /\ Wanted /\ Copied /\ Landed /\ NoLostUpdate

(***************************************************************************)
(* The dev branch alone, whoever shares it and whatever fails              *)
(***************************************************************************)
DevOnly == Operations \subseteq {"snapshot", "commit", "commit_atomic"} /\ Readable \subseteq {"dev"}

\* HEAD goes to dev and stays; the first checkout changes nothing else.
StaysOnDev ==
  /\ cs.by # None => cs.op \in {"snapshot", "commit"} /\ cs.todo = <<"dev">>
  /\ \A w \in Writers : seen[w].branch \in {None, "dev"}
  /\ \A i \in Instances : cached[i] \in {None, "dev"} /\ (cached[i] = "dev" => head = "dev")
  /\ Visiting => head = "dev"
  /\ head # "dev" => head = "stable" /\ tip["dev"] = tip["stable"]

\* Wherever a commit may take its files from, what was acknowledged is there.
AckedKept ==
  \A a \in Artifacts :
     /\ acked[a] \subseteq tree.art[a].state
     /\ acked[a] \subseteq index.art[a].state
     /\ acked[a] \subseteq tip["dev"].art[a].state

\* The version vector of the tree never goes back, so that a base that is equal is not stale.
SeenNotStale ==
  \A w \in Writers, a \in Artifacts : seen[w].branch = "dev" =>
     /\ seen[w].tree.vv[a] <= tree.vv[a]
     /\ seen[w].tree.vv[a] = tree.vv[a] => acked[a] \subseteq seen[w].tree.art[a].state

CommitKeeps ==
  cs.by # None /\ cs.op = "commit" =>
  /\ cs.at = "write" =>
       /\ cs.before.vv = tree.vv
       /\ \A a \in Artifacts :
            /\ acked[a] \subseteq cs.before.art[a].state
            /\ a \in cs.ids =>
                 /\ acked[a] \subseteq cs.want.art[a].state /\ writes \in cs.want.art[a].state
                 /\ cs.want.vv[a] = tree.vv[a] + 1
            /\ a \notin cs.ids => cs.want.vv[a] = tree.vv[a]
  /\ cs.at \in {"add", "commit", "rev"} =>
       \A a \in cs.ids :
          /\ writes \in tree.art[a].state
          /\ \A w \in Writers : seen[w].branch = "dev" => seen[w].tree.vv[a] < tree.vv[a]
  /\ cs.at \in {"commit", "rev"} => \A a \in cs.ids : writes \in index.art[a].state
  /\ cs.at = "rev" => \A a \in cs.ids : writes \in tip["dev"].art[a].state

DevInv == TypeInv /\ StaysOnDev /\ AckedKept /\ SeenNotStale /\ CommitKeeps

(***************************************************************************)
(* Types                                                                   *)
(***************************************************************************)
LEMMA Basics ==
  /\ Empty \in Trees /\ Free \in Sections /\ Start \in Trees
  /\ {"dev", "stable"} \subseteq Branches /\ Heads \subseteq Branches /\ None \notin Branches
  /\ NoSnapshot \in [branch : Branches \cup {None}, tree : Trees]
<1>1. NoFile \in Payloads
  BY DEF NoFile, Payloads
<1>2. Empty \in Trees
  BY <1>1 DEF Empty, Trees
<1>3. Free \in Sections
  <2>1. "dev" \in Branches /\ <<>> \in Seq(Branches)
    BY DEF Branches
  <2> QED
    BY <1>2, <2>1 DEF Free, Sections, Methods, Steps
<1>4. Start \in Trees
  BY DEF Start, Trees, Payloads
<1> QED
  BY <1>2, <1>3, <1>4, LedgerAssumption DEF Branches, NoSnapshot

LEMMA PutType ==
  ASSUME NEW t \in Trees, NEW a \in Artifacts, NEW v \in Nat, NEW s \in SUBSET Nat
  PROVE  Put(t, a, v, s) \in Trees
BY DEF Put, Trees, Payloads

LEMMA TypeInit == Init => TypeInv
<1> SUFFICES ASSUME Init PROVE TypeInv
  OBVIOUS
<1>1. TypeOK
  BY Basics DEF Init, TypeOK
<1>2. Itinerary
  BY DEF Init, Itinerary, Free, Writing
<1> QED
  BY <1>1, <1>2 DEF TypeInv

\* A method begins with the branches it is going to visit.
LEMMA EnterType ==
  ASSUME TypeInv, NEW w \in Writers, NEW op \in Methods, NEW ids \in SUBSET Artifacts,
         NEW name \in Branches, NEW todo \in Seq(Branches),
         Enter(w, op, ids, name, todo), writes' \in Nat
  PROVE  /\ TypeOK' /\ seen' = seen
         /\ cs'.by = w /\ cs'.op = op /\ cs'.ids = ids /\ cs'.name = name /\ cs'.todo = todo
         /\ cs'.at = IF todo = <<>> THEN "body" ELSE "checkout"
<1>1. /\ cs' = [Free EXCEPT !.by = w, !.op = op, !.ids = ids, !.name = name, !.todo = todo,
                            !.at = IF todo = <<>> THEN "body" ELSE "checkout"]
      /\ UNCHANGED <<repo, cached, seen, acked, faults>>
  BY DEF Enter
<1>2. cs' \in Sections
  <2>1. cs' = [by |-> w, op |-> op, ids |-> ids, name |-> name, todo |-> todo,
               at |-> IF todo = <<>> THEN "body" ELSE "checkout", want |-> Empty, before |-> Empty]
    BY <1>1 DEF Free
  <2> QED
    BY <2>1, Basics DEF Sections, Steps
<1>3. TypeOK'
  BY <1>1, <1>2 DEF TypeInv, TypeOK, repo
<1> QED
  BY <1>1, <1>3 DEF Free

LEMMA BeginKeepsType ==
  ASSUME TypeInv, NEW w \in Writers, Begin(w)
  PROVE  TypeInv'
<1> USE Basics DEF TypeInv
<1>0. w # None /\ Readable \subseteq Branches /\ writes \in Nat
  BY LedgerAssumption DEF TypeOK
<1>1. ASSUME NEW b \in Readable, BeginSnapshot(w, b) PROVE TypeInv'
  <2>1. <<b>> \in Seq(Branches)
    BY <1>0
  <2>2. Enter(w, "snapshot", {}, "dev", <<b>>) /\ writes' \in Nat
    BY <1>0, <1>1 DEF BeginSnapshot
  <2>3. /\ TypeOK' /\ seen' = seen /\ cs'.by = w /\ cs'.op = "snapshot" /\ cs'.ids = {}
        /\ cs'.name = "dev" /\ cs'.todo = <<b>> /\ cs'.at = IF <<b>> = <<>> THEN "body" ELSE "checkout"
    BY <2>1, <2>2, EnterType DEF Methods
  <2>4. Itinerary'
    BY <1>0, <2>1, <2>3 DEF Itinerary, Writing
  <2> QED
    BY <2>3, <2>4
<1>2. ASSUME NEW ids \in SUBSET Artifacts, BeginCommit(w, ids) PROVE TypeInv'
  <2> DEFINE b == seen[w].branch
  <2>1. b \in Branches /\ b # "stable" /\ b # None /\ <<b>> \in Seq(Branches)
    BY <1>2 DEF BeginCommit, TypeOK
  <2>2. Enter(w, "commit", ids, "dev", <<b>>) /\ writes' \in Nat
    BY <1>0, <1>2 DEF BeginCommit
  <2> HIDE DEF b
  <2>3. /\ TypeOK' /\ seen' = seen /\ cs'.by = w /\ cs'.op = "commit" /\ cs'.ids = ids
        /\ cs'.name = "dev" /\ cs'.todo = <<b>> /\ cs'.at = IF <<b>> = <<>> THEN "body" ELSE "checkout"
    BY <2>1, <2>2, EnterType DEF Methods
  <2>4. Itinerary'
    BY <1>0, <2>1, <2>3 DEF Itinerary, Writing, b
  <2> QED
    BY <2>3, <2>4
<1>3. ASSUME NEW a \in Artifacts, BeginRegister(w, a) PROVE TypeInv'
  <2> DEFINE todo == <<"stable", "dev">>
             ids  == {a}
  <2>1. todo \in Seq(Branches) /\ todo # <<>> /\ ids \in SUBSET Artifacts
    BY <1>0
  <2>2. Enter(w, "register", ids, "dev", todo) /\ writes' \in Nat
    BY <1>0, <1>3 DEF BeginRegister
  <2> HIDE DEF todo, ids
  <2>3. /\ TypeOK' /\ seen' = seen /\ cs'.by = w /\ cs'.op = "register" /\ cs'.ids = ids
        /\ cs'.todo = todo /\ cs'.at = "checkout"
    BY <2>1, <2>2, EnterType DEF Methods
  <2>4. Itinerary'
    BY <1>0, <2>1, <2>3 DEF Itinerary, Writing, todo, ids
  <2> QED
    BY <2>3, <2>4
<1>4. ASSUME NEW a \in Artifacts, BeginPromote(w, a) PROVE TypeInv'
  <2> DEFINE todo == <<"dev", "stable">>
             ids  == {a}
  <2>1. todo \in Seq(Branches) /\ todo # <<>> /\ ids \in SUBSET Artifacts
    BY <1>0
  <2>2. Enter(w, "promote", ids, "dev", todo) /\ writes' \in Nat
    BY <1>0, <1>4 DEF BeginPromote
  <2> HIDE DEF todo, ids
  <2>3. /\ TypeOK' /\ seen' = seen /\ cs'.by = w /\ cs'.op = "promote" /\ cs'.ids = ids
        /\ cs'.todo = todo /\ cs'.at = "checkout"
    BY <2>1, <2>2, EnterType DEF Methods
  <2>4. Itinerary'
    BY <1>0, <2>1, <2>3 DEF Itinerary, Writing, todo, ids
  <2> QED
    BY <2>3, <2>4
<1>5. ASSUME NEW name \in Heads, NEW from \in Readable, BeginFork(w, name, from) PROVE TypeInv'
  <2>1. <<from>> \in Seq(Branches)
    BY <1>0
  <2>2. Enter(w, "fork", {}, name, <<from>>) /\ writes' \in Nat
    BY <1>0, <1>5 DEF BeginFork
  <2>3. /\ TypeOK' /\ seen' = seen /\ cs'.by = w /\ cs'.op = "fork" /\ cs'.ids = {}
        /\ cs'.name = name /\ cs'.todo = <<from>> /\ cs'.at = IF <<from>> = <<>> THEN "body" ELSE "checkout"
    BY <2>1, <2>2, EnterType DEF Methods
  <2>4. Itinerary'
    BY <1>0, <2>1, <2>3 DEF Itinerary, Writing
  <2> QED
    BY <2>3, <2>4
<1>6. ASSUME NEW name \in Heads, BeginDiscard(w, name) PROVE TypeInv'
  <2> DEFINE todo == IF cached[Home[w]] = name THEN <<"dev">> ELSE <<>>
  <2>1. todo \in Seq(Branches) /\ todo \in {<<"dev">>, <<>>}
    OBVIOUS
  <2> HIDE DEF todo
  <2>2. Enter(w, "discard", {}, name, todo) /\ writes' \in Nat
    BY <1>0, <1>6 DEF BeginDiscard, todo
  <2>3. /\ TypeOK' /\ seen' = seen /\ cs'.by = w /\ cs'.op = "discard" /\ cs'.ids = {}
        /\ cs'.name = name /\ cs'.todo = todo /\ cs'.at = IF todo = <<>> THEN "body" ELSE "checkout"
    BY <2>1, <2>2, EnterType DEF Methods
  <2>4. Itinerary'
    BY <1>0, <2>1, <2>3 DEF Itinerary, Writing
  <2> QED
    BY <2>3, <2>4
<1> QED
  BY <1>1, <1>2, <1>3, <1>4, <1>5, <1>6 DEF Begin

LEMMA CheckoutType ==
  ASSUME TypeOK, NEW b \in Branches, NEW side \in Trees, tip[b] # None
  PROVE  AfterCheckout(side, b) \in Trees
<1>1. tip[b] \in Trees
  BY DEF TypeOK
<1> QED
  BY <1>1 DEF AfterCheckout, Trees

\* The section goes to another step of the same method, or is left.
LEMMA GotoType ==
  ASSUME TypeInv, NEW at \in Steps, Goto(at)
  PROVE  cs' \in Sections
BY DEF Goto, TypeInv, TypeOK, Sections

LEMMA SectionParts ==
  ASSUME TypeInv
  PROVE  /\ cs \in Sections /\ cs.todo \in Seq(Branches) /\ cs.ids \in SUBSET Artifacts
         /\ cs.by \in Writers \cup {None} /\ cs.name \in Branches /\ cs.at \in Steps
         /\ cs.want \in Trees /\ cs.before \in Trees
         /\ cs.at = "checkout" => cs.todo # <<>>
         /\ cs.by = None => cs = Free
         /\ cs.by # None /\ cs.op # "discard" => cs.todo # <<>>
<1>1. /\ cs \in Sections /\ cs.todo \in Seq(Branches) /\ cs.ids \in SUBSET Artifacts
      /\ cs.by \in Writers \cup {None} /\ cs.name \in Branches /\ cs.at \in Steps
      /\ cs.want \in Trees /\ cs.before \in Trees
  BY DEF TypeInv, TypeOK, Sections
<1>2. ASSUME cs.by # None, cs.op # "discard" PROVE cs.todo # <<>>
  <2>1. \/ Len(cs.todo) = 1
        \/ cs.todo = <<seen[cs.by].branch>>
        \/ cs.todo = <<"stable", "dev">>
        \/ cs.todo = <<"dev", "stable">>
        \/ cs.todo = <<"dev">>
        \/ cs.todo = <<"stable">>
    BY <1>2, ZenonT(60) DEF TypeInv, Itinerary
  <2>2. cs.todo # <<>> <=> Len(cs.todo) # 0
    BY <1>1
  <2>3. ASSUME NEW b, cs.todo = <<b>> PROVE Len(cs.todo) = 1
    BY <2>3
  <2>4. ASSUME NEW b, NEW c, cs.todo = <<b, c>> PROVE Len(cs.todo) = 2
    BY <2>4
  <2>5. Len(cs.todo) = 1 \/ Len(cs.todo) = 2
    BY <2>1, <2>3, <2>4, Zenon
  <2> QED
    BY <2>2, <2>5
<1> QED
  BY <1>1, <1>2 DEF TypeInv, Itinerary

LEMMA LeaveItinerary ==
  ASSUME cs' = Free
  PROVE  Itinerary'
BY DEF Itinerary, Free, Writing

LEMMA SameMethod ==
  ASSUME TypeInv, cs.by # None, seen' = seen,
         cs'.by = cs.by, cs'.op = cs.op, cs'.ids = cs.ids, cs'.name = cs.name, cs'.todo = cs.todo,
         cs'.at # "checkout",
         (cs'.at \in Writing) => \/ cs.op \in {"commit", "register"}
                                 \/ cs.op = "promote" /\ cs.todo = <<"stable">>
  PROVE  Itinerary'
BY DEF TypeInv, Itinerary, Writing

LEMMA CheckoutKeepsType ==
  ASSUME TypeInv, Checkout
  PROVE  TypeInv'
<1>1. cs.by # None /\ cs.at = "checkout" /\ UNCHANGED <<client, faults>>
  BY DEF Checkout
<1>2. Target \in Branches
  BY <1>1, SectionParts DEF Target
<1>3. cs' = Free \/ cs' = [cs EXCEPT !.at = "body"]
  BY DEF Checkout, Goto, Leave
<1>4. cs' \in Sections
  BY <1>3, Basics, GotoType DEF Goto, Steps
<1>5. /\ tip' = tip /\ head' \in Branches /\ index' \in Trees /\ tree' \in Trees
      /\ cached' \in [Instances -> Branches \cup {None}]
  <2>1. CASE UNCHANGED <<repo, cached>>
    BY <2>1 DEF repo, TypeInv, TypeOK
  <2>2. CASE GitCheckout(Target) /\ cached' = [cached EXCEPT ![me] = Target]
    BY <1>2, <2>2, CheckoutType DEF GitCheckout, CanCheckout, TypeInv, TypeOK
  <2> QED
    BY <2>1, <2>2 DEF Checkout
<1>6. TypeOK'
  BY <1>1, <1>4, <1>5 DEF TypeInv, TypeOK, client
<1>7. Itinerary'
  <2>1. CASE cs' = Free
    BY <2>1, LeaveItinerary
  <2>2. CASE cs' = [cs EXCEPT !.at = "body"]
    <3>1. /\ cs'.by = cs.by /\ cs'.op = cs.op /\ cs'.ids = cs.ids /\ cs'.name = cs.name
          /\ cs'.todo = cs.todo /\ cs'.at = "body"
      BY <2>2, SectionParts DEF Sections
    <3> QED
      BY <1>1, <3>1, SameMethod DEF client, Writing
  <2> QED
    BY <1>3, <2>1, <2>2
<1> QED
  BY <1>6, <1>7 DEF TypeInv

LEMMA WriteKeepsType ==
  ASSUME TypeInv, Write
  PROVE  TypeInv'
<1>1. TypeOK'
  <2>1. cs' = cs \/ Goto("add")
    BY DEF Write
  <2>2. cs' \in Sections
    BY <2>1, GotoType, SectionParts DEF Steps
  <2>3. tree' \in Trees
    <3>1. tree \in Trees /\ cs.want \in Trees /\ cs.ids \subseteq Artifacts
      BY SectionParts DEF TypeInv, TypeOK
    <3> QED
      BY <3>1 DEF Write, Trees
  <2> QED
    BY <2>2, <2>3 DEF Write, TypeInv, TypeOK, client
<1>2. Itinerary'
  BY Basics DEF TypeInv, TypeOK, Sections, Steps, Itinerary, Free, Write, Goto, Writing, client, repo
<1> QED
  BY <1>1, <1>2 DEF TypeInv

LEMMA AddKeepsType ==
  ASSUME TypeInv, Add
  PROVE  TypeInv'
<1>1. TypeOK'
  BY Basics, CheckoutType DEF TypeInv, TypeOK, Sections, Steps, Add, Goto, client, repo
<1>2. Itinerary'
  BY Basics DEF TypeInv, TypeOK, Sections, Steps, Itinerary, Writing, Free, Add, Goto, client, repo
<1> QED
  BY <1>1, <1>2 DEF TypeInv

LEMMA CommitKeepsType ==
  ASSUME TypeInv, Commit
  PROVE  TypeInv'
<1>1. TypeOK'
  BY Basics, CheckoutType DEF TypeInv, TypeOK, Sections, Steps, Commit, GitCommit, Goto, client, repo
<1>2. Itinerary'
  BY Basics DEF TypeInv, TypeOK, Sections, Steps, Itinerary, Writing, Free, Commit, GitCommit, Goto, client, repo
<1> QED
  BY <1>1, <1>2 DEF TypeInv

LEMMA MoreThanOne ==
  ASSUME NEW s \in Seq(Branches), Len(s) > 1
  PROVE  Len(s) # 1 /\ \A b : s # <<b>>
<1>1. PICK n \in Nat : n = Len(s)
  OBVIOUS
<1>2. n > 1 /\ n # 1
  BY <1>1
<1>3. ASSUME NEW b, s = <<b>> PROVE Len(s) = 1
  BY <1>3
<1> QED
  BY <1>1, <1>2, <1>3, Zenon

LEMMA AdvanceType ==
  ASSUME TypeInv, cs.by # None, Advance, UNCHANGED <<repo, cached, seen, writes, faults>>,
         acked' \in [Artifacts -> SUBSET Nat],
         cs.op \in {"commit", "register"} \/ cs.at \in Writing
  PROVE  TypeInv'
<1>1. \/ cs' = Free
      \/ Len(cs.todo) > 1 /\ cs' = [cs EXCEPT !.todo = Tail(@), !.at = "checkout"]
  BY DEF Advance, Leave
<1>2. CASE cs' = Free
  <2>1. TypeOK'
    BY <1>2, Basics DEF TypeInv, TypeOK, repo
  <2> QED
    BY <1>2, <2>1, LeaveItinerary DEF TypeInv
<1>3. CASE Len(cs.todo) > 1 /\ cs' = [cs EXCEPT !.todo = Tail(@), !.at = "checkout"]
  <2>1. cs.op = "register" /\ cs.todo = <<"stable", "dev">> /\ \E a \in Artifacts : cs.ids = {a}
    <3>1. Len(cs.todo) > 1 /\ cs.todo \in Seq(Branches)
      BY <1>3, SectionParts, Zenon
    <3>2. Len(cs.todo) # 1 /\ cs.todo # <<"dev">> /\ cs.todo # <<"stable">>
          /\ cs.todo # <<seen[cs.by].branch>>
      BY <3>1, MoreThanOne, Zenon
    <3>3. cs.op \in {"commit", "register"} \/ cs.at \in Writing
      OBVIOUS
    <3> QED
      BY <3>1, <3>2, <3>3, ZenonT(60) DEF TypeInv, Itinerary
  <2>2. Tail(cs.todo) = <<"dev">> /\ <<"dev">> \in Seq(Branches)
    BY <2>1, Basics
  <2>3. /\ cs'.by = cs.by /\ cs'.op = cs.op /\ cs'.ids = cs.ids /\ cs'.name = cs.name
        /\ cs'.todo = <<"dev">> /\ cs'.at = "checkout" /\ cs' \in Sections
    BY <1>3, <2>2, SectionParts DEF Sections, Steps
  <2>4. Itinerary'
    BY <2>1, <2>3 DEF Itinerary, Writing
  <2>5. TypeOK'
    BY <2>3 DEF TypeInv, TypeOK, repo
  <2> QED
    BY <2>4, <2>5 DEF TypeInv
<1> QED
  BY <1>1, <1>2, <1>3

LEMMA ReturnKeepsType ==
  ASSUME TypeInv, Return
  PROVE  TypeInv'
<1>1. acked' \in [Artifacts -> SUBSET Nat]
  BY DEF Return, TypeInv, TypeOK
<1> QED
  BY <1>1, AdvanceType DEF Return, Writing

LEMMA SnapshotKeepsType ==
  ASSUME TypeInv, Snapshot
  PROVE  TypeInv'
<1>1. TypeOK'
  <2>1. cs.by \in Writers /\ Target \in Branches
    BY SectionParts DEF Snapshot, In, Target
  <2> QED
    BY <2>1, Basics DEF Snapshot, Leave, TypeInv, TypeOK, repo
<1>2. Itinerary'
  BY Basics DEF TypeInv, TypeOK, Sections, Steps, Itinerary, Writing, Free, Snapshot, In, Leave, Target, client, repo
<1> QED
  BY <1>1, <1>2 DEF TypeInv

LEMMA CheckCommitKeepsType ==
  ASSUME TypeInv, CheckCommit
  PROVE  TypeInv'
<1>1. /\ cs.by \in Writers /\ cs.by # None /\ cs.op = "commit"
      /\ UNCHANGED <<repo, cached, client, faults>>
  BY SectionParts DEF CheckCommit, In
<1>2. CASE cs' = Free
  BY <1>1, <1>2, Basics, LeaveItinerary DEF TypeInv, TypeOK, repo, client
<1>3. CASE Stage(Candidate(cs.ids))
  <2>1. Candidate(cs.ids) \in Trees
    <3> DEFINE old == seen[cs.by].tree
    <3>1. tree \in Trees /\ old \in Trees /\ writes \in Nat
      BY <1>1 DEF TypeInv, TypeOK
    <3> HIDE DEF old
    <3>2. ASSUME NEW a \in Artifacts
          PROVE  /\ tree.vv[a] \in Nat /\ tree.vv[a] + 1 \in Nat /\ tree.art[a] \in Payloads
                 /\ old.art[a].state \cup {writes} \in SUBSET Nat
      BY <3>1 DEF Trees, Payloads
    <3>3. [a \in Artifacts |-> tree.vv[a] + (IF a \in cs.ids THEN 1 ELSE 0)] \in [Artifacts -> Nat]
      BY <3>2
    <3>4. ASSUME NEW a \in Artifacts
          PROVE  [version |-> tree.vv[a] + 1, state |-> old.art[a].state \cup {writes}] \in Payloads
      BY <3>2 DEF Payloads
    <3>5. [a \in Artifacts |->
             IF a \in cs.ids
             THEN [version |-> tree.vv[a] + 1, state |-> old.art[a].state \cup {writes}]
             ELSE tree.art[a]] \in [Artifacts -> Payloads]
      BY <3>2, <3>4
    <3> QED
      BY <3>3, <3>5 DEF Candidate, Trees, old
  <2>2. tree \in Trees
    BY DEF TypeInv, TypeOK
  <2> HIDE DEF Candidate
  <2>3. /\ cs' \in Sections
        /\ cs'.by = cs.by /\ cs'.op = cs.op /\ cs'.ids = cs.ids /\ cs'.name = cs.name
        /\ cs'.todo = cs.todo /\ cs'.at = "write"
    BY <1>3, <2>1, <2>2, SectionParts DEF Stage, Sections, Steps
  <2>4. Itinerary'
    BY <1>1, <2>3, SameMethod DEF client
  <2>5. TypeOK'
    BY <1>1, <2>3 DEF TypeInv, TypeOK, repo, client
  <2> QED
    BY <2>4, <2>5 DEF TypeInv
<1> QED
  BY <1>2, <1>3 DEF CheckCommit, Leave

LEMMA RegisterKeepsType ==
  ASSUME TypeInv, Register
  PROVE  TypeInv'
<1>1. /\ cs.by # None /\ cs.op = "register" /\ cs.at = "body"
      /\ UNCHANGED <<repo, cached, client, faults>>
  BY DEF Register, In
<1>2. PICK a \in cs.ids : IF tree.vv[a] = 0 THEN Stage(Put(tree, a, 1, {})) ELSE Advance
  BY DEF Register
<1>3. CASE Stage(Put(tree, a, 1, {}))
  <2> DEFINE want == Put(tree, a, 1, {})
  <2>1. want \in Trees /\ tree \in Trees
    BY PutType, SectionParts DEF TypeInv, TypeOK
  <2> HIDE DEF want
  <2>2. /\ cs' \in Sections
        /\ cs'.by = cs.by /\ cs'.op = cs.op /\ cs'.ids = cs.ids /\ cs'.name = cs.name
        /\ cs'.todo = cs.todo /\ cs'.at = "write"
    BY <1>3, <2>1, SectionParts DEF Stage, Sections, Steps, want
  <2>3. Itinerary'
    BY <1>1, <2>2, SameMethod DEF client
  <2>4. TypeOK'
    BY <1>1, <2>2 DEF TypeInv, TypeOK, repo, client
  <2> QED
    BY <2>3, <2>4 DEF TypeInv
<1>4. CASE Advance
  BY <1>1, <1>4, AdvanceType DEF client, TypeInv, TypeOK
<1> QED
  BY <1>2, <1>3, <1>4

LEMMA PromoteKeepsType ==
  ASSUME TypeInv, Promote
  PROVE  TypeInv'
<1>1. /\ cs.by # None /\ cs.op = "promote" /\ cs.at = "body"
      /\ UNCHANGED <<repo, cached, client, faults>>
  BY DEF Promote, In
<1>2. tree \in Trees /\ cs.ids \subseteq Artifacts
  BY SectionParts DEF TypeInv, TypeOK
<1>3. CASE cs' = Free
  BY <1>1, <1>3, Basics, LeaveItinerary DEF TypeInv, TypeOK, repo, client
<1>4. CASE Target = "dev" /\ cs' = [cs EXCEPT !.todo = Tail(@), !.at = "checkout", !.want = tree]
  <2>1. cs.todo = <<"dev", "stable">> /\ \E a \in Artifacts : cs.ids = {a}
    BY <1>1, <1>4 DEF TypeInv, Itinerary, Target
  <2>2. Tail(cs.todo) = <<"stable">> /\ <<"stable">> \in Seq(Branches)
    BY <2>1, Basics
  <2>3. /\ cs'.by = cs.by /\ cs'.op = cs.op /\ cs'.ids = cs.ids /\ cs'.name = cs.name
        /\ cs'.todo = <<"stable">> /\ cs'.at = "checkout" /\ cs' \in Sections
    BY <1>2, <1>4, <2>2, SectionParts DEF Sections, Steps
  <2>4. Itinerary'
    BY <1>1, <2>1, <2>3 DEF Itinerary, Writing
  <2>5. TypeOK'
    BY <1>1, <2>3 DEF TypeInv, TypeOK, repo, client
  <2> QED
    BY <2>4, <2>5 DEF TypeInv
<1>5. ASSUME NEW a \in cs.ids, Target # "dev",
             Stage(Put(tree, a, tree.vv[a] + 1, cs.want.art[a].state))
      PROVE  TypeInv'
  <2> DEFINE want == Put(tree, a, tree.vv[a] + 1, cs.want.art[a].state)
  <2>1. want \in Trees
    <3>1. tree.vv[a] + 1 \in Nat /\ cs.want.art[a].state \in SUBSET Nat
      BY <1>2, SectionParts DEF Trees, Payloads
    <3> QED
      BY <1>2, <3>1, PutType
  <2> HIDE DEF want
  <2>2. /\ cs' \in Sections
        /\ cs'.by = cs.by /\ cs'.op = cs.op /\ cs'.ids = cs.ids /\ cs'.name = cs.name
        /\ cs'.todo = cs.todo /\ cs'.at = "write"
    BY <1>2, <1>5, <2>1, SectionParts DEF Stage, Sections, Steps, want
  <2>3. cs.todo = <<"stable">>
    BY <1>1, <1>5 DEF TypeInv, Itinerary, Target
  <2>4. Itinerary'
    BY <1>1, <2>2, <2>3, SameMethod DEF client
  <2>5. TypeOK'
    BY <1>1, <2>2 DEF TypeInv, TypeOK, repo, client
  <2> QED
    BY <2>4, <2>5 DEF TypeInv
<1> QED
  BY <1>3, <1>4, <1>5 DEF Promote, Leave

LEMMA ForkKeepsType ==
  ASSUME TypeInv, Fork
  PROVE  TypeInv'
<1>1. TypeOK'
  BY Basics, CheckoutType DEF TypeInv, TypeOK, Sections, Steps, Fork, In, Leave, client, repo
<1>2. Itinerary'
  BY Basics DEF TypeInv, TypeOK, Sections, Steps, Itinerary, Writing, Free, Fork, In, Leave, client, repo
<1> QED
  BY <1>1, <1>2 DEF TypeInv

LEMMA DiscardHeadKeepsType ==
  ASSUME TypeInv, DiscardHead
  PROVE  TypeInv'
<1>1. TypeOK'
  BY Basics, CheckoutType DEF TypeInv, TypeOK, Sections, Steps, DiscardHead, In, Leave, client, repo
<1>2. Itinerary'
  BY Basics DEF TypeInv, TypeOK, Sections, Steps, Itinerary, Writing, Free, DiscardHead, In, Leave, client, repo
<1> QED
  BY <1>1, <1>2 DEF TypeInv

LEMMA GitFailsKeepsType ==
  ASSUME TypeInv, GitFails
  PROVE  TypeInv'
<1>1. TypeOK'
  BY Basics, CheckoutType DEF TypeInv, TypeOK, Sections, Steps, GitFails, Leave, Fault, client, repo
<1>2. Itinerary'
  BY Basics DEF TypeInv, TypeOK, Sections, Steps, Itinerary, Writing, Free, GitFails, Leave, Fault, client, repo
<1> QED
  BY <1>1, <1>2 DEF TypeInv

LEMMA WriteFailsKeepsType ==
  ASSUME TypeInv, WriteFails
  PROVE  TypeInv'
<1>1. TypeOK'
  BY Basics, CheckoutType DEF TypeInv, TypeOK, Sections, Steps, WriteFails, Leave, Fault, client, repo
<1>2. Itinerary'
  BY Basics DEF TypeInv, TypeOK, Sections, Steps, Itinerary, Writing, Free, WriteFails, Leave, Fault, client, repo
<1> QED
  BY <1>1, <1>2 DEF TypeInv

LEMMA ReopenKeepsType ==
  ASSUME TypeInv, NEW i \in Instances, Reopen(i)
  PROVE  TypeInv'
<1>1. TypeOK'
  BY Basics, CheckoutType DEF TypeInv, TypeOK, Sections, Steps, Reopen, Fresh, me, client, repo
<1>2. Itinerary'
  BY Basics DEF TypeInv, TypeOK, Sections, Steps, Itinerary, Writing, Free, Reopen, Fresh, me, client, repo
<1> QED
  BY <1>1, <1>2 DEF TypeInv

LEMMA CrashKeepsType ==
  ASSUME TypeInv, NEW i \in Instances, Crash(i)
  PROVE  TypeInv'
<1>1. TypeOK'
  BY Basics, CheckoutType DEF TypeInv, TypeOK, Sections, Steps, Crash, Fresh, Leave, Fault, client, repo
<1>2. Itinerary'
  BY Basics DEF TypeInv, TypeOK, Sections, Steps, Itinerary, Writing, Free, Crash, Fresh, Leave, Fault, client, repo
<1> QED
  BY <1>1, <1>2 DEF TypeInv

LEMMA NextKeepsType ==
  ASSUME TypeInv, Next
  PROVE  TypeInv'
BY BeginKeepsType, CheckoutKeepsType, WriteKeepsType, AddKeepsType, CommitKeepsType,
   ReturnKeepsType, SnapshotKeepsType, CheckCommitKeepsType, RegisterKeepsType,
   PromoteKeepsType, ForkKeepsType, DiscardHeadKeepsType, GitFailsKeepsType,
   WriteFailsKeepsType, ReopenKeepsType, CrashKeepsType DEF Next, Work

LEMMA StutterKeepsType ==
  ASSUME TypeInv, UNCHANGED vars
  PROVE  TypeInv'
BY DEF vars, repo, client, TypeInv, TypeOK, Itinerary

\* The repository, the caches and the sections have the shapes the module gives them, in every
\* state, whatever shares the repository and whatever fails; and every method goes to the branches
\* of its itinerary and writes on none but those.
THEOREM LedgerTypeCorrect == Spec => []TypeOK
<1>1. TypeInv /\ [Next]_vars => TypeInv'
  BY NextKeepsType, StutterKeepsType
<1>2. TypeInv => TypeOK
  BY DEF TypeInv
<1> QED
  BY TypeInit, <1>1, <1>2, PTL DEF Spec

(***************************************************************************)
(* One instance reads the branch it asks for                               *)
(***************************************************************************)
LEMMA GotoParts ==
  ASSUME TypeInv, NEW at, Goto(at)
  PROVE  /\ cs'.by = cs.by /\ cs'.op = cs.op /\ cs'.ids = cs.ids /\ cs'.name = cs.name
         /\ cs'.todo = cs.todo /\ cs'.at = at /\ cs'.want = cs.want /\ cs'.before = cs.before
BY SectionParts DEF Goto, Sections

LEMMA StageParts ==
  ASSUME TypeInv, NEW want, Stage(want)
  PROVE  /\ cs'.by = cs.by /\ cs'.op = cs.op /\ cs'.ids = cs.ids /\ cs'.name = cs.name
         /\ cs'.todo = cs.todo /\ cs'.at = "write" /\ cs'.want = want /\ cs'.before = tree
BY SectionParts DEF Stage, Sections

LEMMA FreeParts ==
  ASSUME Leave
  PROVE  cs'.by = None /\ cs'.at = "body" /\ cs'.todo = <<>> /\ cs'.op = "none" /\ cs'.ids = {}
BY DEF Leave, Free

LEMMA AdvanceParts ==
  ASSUME TypeInv, Advance
  PROVE  Leave \/ /\ cs'.by = cs.by /\ cs'.op = cs.op /\ cs'.ids = cs.ids /\ cs'.want = cs.want
                  /\ cs'.todo = Tail(cs.todo) /\ cs'.at = "checkout" /\ Len(cs.todo) > 1
<1>1. CASE cs' = [cs EXCEPT !.todo = Tail(@), !.at = "checkout"] /\ Len(cs.todo) > 1
  <2>1. cs \in Sections
    BY SectionParts
  <2> DEFINE rest == Tail(cs.todo)
  <2>2. cs' = [cs EXCEPT !.todo = rest, !.at = "checkout"]
    BY <1>1, Zenon
  <2> HIDE DEF rest
  <2>3. /\ cs'.by = cs.by /\ cs'.op = cs.op /\ cs'.ids = cs.ids /\ cs'.want = cs.want
        /\ cs'.todo = rest /\ cs'.at = "checkout"
    BY <2>1, <2>2 DEF Sections
  <2> QED
    BY <1>1, <2>3 DEF rest
<1> QED
  BY <1>1 DEF Advance

\* Who is in the section is its one instance.
LEMMA OnlyMe ==
  ASSUME OneInstance, TypeInv, cs.by # None
  PROVE  cs.by \in Writers /\ me \in Instances /\ \A i \in Instances : i = me
BY SectionParts, LedgerAssumption DEF OneInstance, me

\* From a clean tree a checkout leaves the branch it goes to, whatever git keeps on the way.
LEMMA CleanCheckout ==
  ASSUME NEW b \in Branches, tip[b] \in Trees, index \in Trees, index = tip[head],
         NEW side, side = tip[head]
  PROVE  AfterCheckout(side, b) = tip[b]
<1> DEFINE t == AfterCheckout(side, b)
           art == [a \in Artifacts |-> tip[b].art[a]]
<1>1. tip[b] = [vv |-> tip[b].vv, art |-> tip[b].art] /\ tip[b].art = art
  BY DEF Trees
<1>2. t.vv = tip[b].vv
  BY DEF AfterCheckout, Keeps
<1>3. t.art = [a \in Artifacts |->
                 IF Keeps(index.art[a], tip[head].art[a], tip[b].art[a])
                 THEN side.art[a] ELSE tip[b].art[a]]
  BY DEF AfterCheckout
<1>4. \A a \in Artifacts : (IF Keeps(index.art[a], tip[head].art[a], tip[b].art[a])
                            THEN side.art[a] ELSE tip[b].art[a]) = tip[b].art[a]
  BY DEF Keeps
<1>5. t.art = art
  BY <1>3, <1>4
<1>6. t = [vv |-> t.vv, art |-> t.art]
  BY DEF AfterCheckout
<1> QED
  BY <1>1, <1>2, <1>5, <1>6

OneStep == OneInstance /\ OnlyWritesFail /\ OneInv

LEMMA OneInit == Init => OneInv
<1> SUFFICES ASSUME Init PROVE OneInv
  OBVIOUS
<1>1. TypeInv
  BY TypeInit
<1>2. head \in Branches /\ head \notin Heads
  BY LedgerAssumption DEF Init, Branches
<1>3. tip[head] = Start
  BY <1>2 DEF Init
<1>4. CacheRight /\ TreeFollows /\ HeadIsTarget
  BY <1>3 DEF Init, CacheRight, TreeFollows, HeadIsTarget, Visiting, Free
<1> QED
  BY <1>1, <1>4 DEF OneInv

LEMMA BeginKeepsOne ==
  ASSUME OneStep, NEW w \in Writers, Begin(w)
  PROVE  OneInv'
<1>1. TypeInv' /\ UNCHANGED <<repo, cached>>
  BY BeginKeepsType DEF Begin, BeginSnapshot, BeginCommit, BeginRegister, BeginPromote,
     BeginFork, BeginDiscard, Enter, OneStep, OneInv
<1>2. cs.at = "body" /\ cs'.at \in {"checkout", "body"} /\ ~Visiting'
  <2>1. cs = Free
    BY DEF Begin, BeginSnapshot, BeginCommit, BeginRegister, BeginPromote,
       BeginFork, BeginDiscard, Enter, OneStep, OneInv, TypeInv, Itinerary
  <2>2. ASSUME NEW op, NEW ids, NEW name, NEW todo, Enter(w, op, ids, name, todo)
        PROVE  cs'.at \in {"checkout", "body"} /\ (cs'.todo # <<>> => cs'.at = "checkout")
    BY <2>2 DEF Enter, Free
  <2> QED
    BY <2>1, <2>2 DEF Begin, BeginSnapshot, BeginCommit, BeginRegister, BeginPromote,
       BeginFork, BeginDiscard, Visiting, Free
<1>3. CacheRight' /\ TreeFollows' /\ HeadIsTarget'
  BY <1>1, <1>2 DEF OneStep, OneInv, CacheRight, TreeFollows, HeadIsTarget, repo
<1> QED
  BY <1>1, <1>3 DEF OneInv

LEMMA CheckoutKeepsOne ==
  ASSUME OneStep, Checkout
  PROVE  OneInv'
<1>1. TypeInv /\ TypeInv' /\ TypeOK
  BY CheckoutKeepsType DEF OneStep, OneInv, TypeInv
<1>2. /\ cs.by # None /\ cs.at = "checkout" /\ Target \in Branches /\ Target # None
      /\ tree = tip[head] /\ index = tip[head] /\ head \in Branches /\ index \in Trees
  BY <1>1, SectionParts, Basics DEF Checkout, Target, OneStep, OneInv, TreeFollows, TypeOK
<1>3. me \in Instances /\ \A i \in Instances : i = me
  BY <1>1, <1>2, OnlyMe DEF OneStep
<1>4. CASE AtBranch(Target) /\ Goto("body") /\ UNCHANGED <<repo, cached>>
  <2>1. head = Target
    BY <1>2, <1>3, <1>4 DEF AtBranch, OneStep, OneInv, CacheRight
  <2>2. cs'.at = "body" /\ cs'.todo = cs.todo
    BY <1>1, <1>4, GotoParts
  <2> QED
    BY <1>1, <1>2, <1>4, <2>1, <2>2
    DEF OneStep, OneInv, CacheRight, TreeFollows, HeadIsTarget, Visiting, Target, repo
<1>5. CASE GitCheckout(Target) /\ cached' = [cached EXCEPT ![me] = Target] /\ Goto("body")
  <2>1. tip' = tip /\ head' = Target /\ tip[Target] \in Trees
    BY <1>1, <1>2, <1>5 DEF GitCheckout, CanCheckout, TypeOK
  <2>2. index' = tip[Target] /\ tree' = tip[Target]
    BY <1>2, <1>5, <2>1, CleanCheckout DEF GitCheckout
  <2>3. cs'.at = "body" /\ cs'.todo = cs.todo
    BY <1>1, <1>5, GotoParts
  <2>4. \A i \in Instances : cached'[i] = Target
    BY <1>1, <1>3, <1>5 DEF TypeOK
  <2>5. TreeFollows' /\ CacheRight'
    BY <2>1, <2>2, <2>3, <2>4 DEF TreeFollows, CacheRight
  <2>6. HeadIsTarget'
    BY <2>1, <2>3 DEF HeadIsTarget, Visiting, Target
  <2> QED
    BY <1>1, <2>5, <2>6 DEF OneInv
<1>6. CASE Leave /\ UNCHANGED <<repo, cached>>
  <2>1. cs'.by = None /\ cs'.at = "body"
    BY <1>6, FreeParts
  <2> QED
    BY <1>1, <1>2, <1>6, <2>1
    DEF OneStep, OneInv, CacheRight, TreeFollows, HeadIsTarget, Visiting, repo
<1> QED
  BY <1>4, <1>5, <1>6 DEF Checkout

\* With every file replaced, the tree is what the method wanted.
LEMMA AllWritten ==
  ASSUME OneStep, cs.at = "write", \A a \in cs.ids : tree.art[a] = cs.want.art[a]
  PROVE  [tree EXCEPT !.vv = cs.want.vv] = cs.want
<1>1. tree \in Trees /\ cs.want \in Trees
  BY SectionParts DEF OneStep, OneInv, TypeInv, TypeOK
<1>2. ASSUME NEW a \in Artifacts PROVE tree.art[a] = cs.want.art[a]
  BY DEF OneStep, OneInv, TreeFollows
<1>3. tree.art = cs.want.art
  BY <1>1, <1>2 DEF Trees
<1> DEFINE vv == cs.want.vv
           new == [tree EXCEPT !.vv = vv]
<1>4. new = [vv |-> vv, art |-> tree.art]
  BY <1>1 DEF Trees
<1>5. cs.want = [vv |-> cs.want.vv, art |-> cs.want.art]
  BY <1>1 DEF Trees
<1> QED
  BY <1>3, <1>4, <1>5

LEMMA WriteKeepsOne ==
  ASSUME OneStep, Write
  PROVE  OneInv'
<1>1. TypeInv /\ TypeInv' /\ tree \in Trees
  BY WriteKeepsType DEF OneStep, OneInv, TypeInv, TypeOK
<1>2. /\ cs.by # None /\ cs.at = "write" /\ UNCHANGED <<tip, head, index, cached>>
      /\ index = tip[head] /\ cs.before = tip[head] /\ tree.vv = tip[head].vv
      /\ \A a \in Artifacts : tree.art[a] \in {tip[head].art[a], cs.want.art[a]}
      /\ \A a \in Artifacts \ cs.ids : cs.want.art[a] = tip[head].art[a]
  BY DEF Write, OneStep, OneInv, TreeFollows
<1>3. CacheRight'
  BY <1>2 DEF OneStep, OneInv, CacheRight
<1>4. ASSUME NEW a \in cs.ids, tree' = [tree EXCEPT !.art[a] = cs.want.art[a]], cs' = cs
      PROVE  OneInv'
  <2>1. /\ tree'.vv = tree.vv
        /\ \A b \in Artifacts : tree'.art[b] = IF b = a THEN cs.want.art[a] ELSE tree.art[b]
    BY <1>1, <1>4 DEF Trees
  <2>2. \A b \in Artifacts : tree'.art[b] \in {tip[head].art[b], cs.want.art[b]}
    BY <1>2, <2>1
  <2>3. TreeFollows'
    BY <1>2, <1>4, <2>1, <2>2 DEF TreeFollows
  <2>4. HeadIsTarget'
    BY <1>2, <1>4 DEF OneStep, OneInv, HeadIsTarget, Visiting, Target
  <2> QED
    BY <1>1, <1>3, <2>3, <2>4 DEF OneInv
<1>5. CASE /\ \A a \in cs.ids : tree.art[a] = cs.want.art[a]
           /\ tree' = [tree EXCEPT !.vv = cs.want.vv] /\ Goto("add")
  <2>1. tree' = cs.want
    BY <1>2, <1>5, AllWritten, Zenon
  <2>2. cs'.by = cs.by /\ cs'.at = "add" /\ cs'.todo = cs.todo /\ cs'.want = cs.want
    BY <1>1, <1>5, GotoParts
  <2>3. TreeFollows' /\ HeadIsTarget'
    BY <1>2, <2>1, <2>2 DEF OneStep, OneInv, TreeFollows, HeadIsTarget, Visiting, Target
  <2> QED
    BY <1>1, <1>3, <2>3 DEF OneInv
<1> QED
  <2>1. \/ \E a \in cs.ids : tree' = [tree EXCEPT !.art[a] = cs.want.art[a]] /\ cs' = cs
        \/ /\ {a \in cs.ids : tree.art[a] # cs.want.art[a]} = {}
           /\ tree' = [tree EXCEPT !.vv = cs.want.vv] /\ Goto("add")
    BY DEF Write
  <2> QED
    BY <1>4, <1>5, <2>1

LEMMA AddKeepsOne ==
  ASSUME OneStep, Add
  PROVE  OneInv'
<1>1. /\ TypeInv /\ TypeInv' /\ cs.by # None /\ tree = cs.want /\ index' = tree
      /\ UNCHANGED <<tip, head, tree, cached>> /\ cs.at = "add"
  BY AddKeepsType DEF Add, OneStep, OneInv, TreeFollows
<1>2. cs'.at = "commit" /\ cs'.todo = cs.todo /\ cs'.want = cs.want
  BY <1>1, GotoParts DEF Add
<1>3. CacheRight' /\ TreeFollows' /\ HeadIsTarget'
  BY <1>1, <1>2 DEF OneStep, OneInv, CacheRight, TreeFollows, HeadIsTarget, Visiting, Target
<1> QED
  BY <1>1, <1>3 DEF OneInv

LEMMA CommitKeepsOne ==
  ASSUME OneStep, Commit
  PROVE  OneInv'
<1>1. /\ TypeInv /\ TypeInv' /\ cs.by # None /\ tree = cs.want /\ index = cs.want
      /\ UNCHANGED <<head, index, tree, cached>> /\ cs.at = "commit"
      /\ tip' = [tip EXCEPT ![head] = index] /\ tip \in [Branches -> Trees \cup {None}]
      /\ head \in Branches
  BY CommitKeepsType DEF Commit, GitCommit, OneStep, OneInv, TypeInv, TypeOK, TreeFollows
<1>2. cs'.at = "rev" /\ cs'.todo = cs.todo
  BY <1>1, GotoParts DEF Commit
<1>3. tip'[head'] = index
  BY <1>1
<1>4. CacheRight' /\ TreeFollows' /\ HeadIsTarget'
  BY <1>1, <1>2, <1>3
  DEF OneStep, OneInv, CacheRight, TreeFollows, HeadIsTarget, Visiting, Target
<1> QED
  BY <1>1, <1>4 DEF OneInv

\* The repository is as it was, clean, and the method goes on to a checkout or out.
LEMMA MovesOnKeepsOne ==
  ASSUME OneStep, TypeInv', cs.at \in {"checkout", "body", "rev"}, UNCHANGED <<repo, cached>>,
         cs'.at = "checkout" \/ Leave
  PROVE  OneInv'
<1>1. cs'.at \in {"checkout", "body"} /\ ~Visiting'
  BY FreeParts DEF Visiting
<1>2. CacheRight' /\ TreeFollows' /\ HeadIsTarget'
  BY <1>1 DEF OneStep, OneInv, CacheRight, TreeFollows, HeadIsTarget, repo
<1> QED
  BY <1>2 DEF OneInv

\* A method stages files that differ from the tip in its artifacts alone.
LEMMA StageKeepsOne ==
  ASSUME OneStep, TypeInv', cs.by # None, cs.at = "body", UNCHANGED <<repo, cached>>,
         NEW want, Stage(want), \A a \in Artifacts \ cs.ids : want.art[a] = tree.art[a]
  PROVE  OneInv'
<1>1. tree = tip[head] /\ index = tip[head]
  BY DEF OneStep, OneInv, TreeFollows
<1>2. /\ cs'.at = "write" /\ cs'.todo = cs.todo /\ cs'.want = want /\ cs'.before = tree
      /\ cs'.ids = cs.ids
  BY StageParts DEF OneStep, OneInv
<1>3. CacheRight' /\ TreeFollows' /\ HeadIsTarget'
  BY <1>1, <1>2
  DEF OneStep, OneInv, CacheRight, TreeFollows, HeadIsTarget, Visiting, Target, repo
<1> QED
  BY <1>3 DEF OneInv

LEMMA ReturnKeepsOne ==
  ASSUME OneStep, Return
  PROVE  OneInv'
<1>1. TypeInv /\ TypeInv' /\ cs.at = "rev" /\ Advance /\ UNCHANGED <<repo, cached>>
  BY ReturnKeepsType DEF Return, OneStep, OneInv
<1> QED
  BY <1>1, AdvanceParts, MovesOnKeepsOne

LEMMA SnapshotKeepsOne ==
  ASSUME OneStep, Snapshot
  PROVE  OneInv'
BY SnapshotKeepsType, MovesOnKeepsOne DEF Snapshot, In, OneStep, OneInv

LEMMA CheckCommitKeepsOne ==
  ASSUME OneStep, CheckCommit
  PROVE  OneInv'
<1>1. /\ TypeInv' /\ cs.by # None /\ cs.at = "body" /\ UNCHANGED <<repo, cached>>
      /\ Stage(Candidate(cs.ids)) \/ Leave
  BY CheckCommitKeepsType DEF CheckCommit, In, OneStep, OneInv
<1>2. \A a \in Artifacts \ cs.ids : Candidate(cs.ids).art[a] = tree.art[a]
  BY DEF Candidate
<1> QED
  BY <1>1, <1>2, StageKeepsOne, MovesOnKeepsOne

\* Put writes the files of one artifact.
LEMMA PutElsewhere ==
  ASSUME NEW t \in Trees, NEW a \in Artifacts, NEW v, NEW st
  PROVE  \A b \in Artifacts : /\ Put(t, a, v, st).art[b] =
                                   IF b = a THEN [version |-> v, state |-> st] ELSE t.art[b]
                              /\ Put(t, a, v, st).vv[b] = IF b = a THEN v ELSE t.vv[b]
BY DEF Put, Trees

LEMMA PutOthers ==
  ASSUME NEW t \in Trees, NEW ids \in SUBSET Artifacts, NEW a \in ids, NEW v, NEW st
  PROVE  \A b \in Artifacts \ ids : Put(t, a, v, st).art[b] = t.art[b]
BY DEF Put, Trees

LEMMA RegisterKeepsOne ==
  ASSUME OneStep, Register
  PROVE  OneInv'
<1>1. /\ TypeInv /\ TypeInv' /\ cs.by # None /\ cs.at = "body" /\ UNCHANGED <<repo, cached>>
      /\ tree \in Trees /\ cs.ids \subseteq Artifacts
  BY RegisterKeepsType, SectionParts DEF Register, In, OneStep, OneInv, TypeInv, TypeOK
<1>2. PICK a \in cs.ids : IF tree.vv[a] = 0 THEN Stage(Put(tree, a, 1, {})) ELSE Advance
  BY DEF Register
<1>3. CASE Advance
  BY <1>1, <1>3, AdvanceParts, MovesOnKeepsOne
<1>4. CASE Stage(Put(tree, a, 1, {}))
  <2> DEFINE st == {}
             want == Put(tree, a, 1, st)
  <2>0. Stage(want)
    BY <1>4
  <2> HIDE DEF st
  <2>1. \A b \in Artifacts \ cs.ids : want.art[b] = tree.art[b]
    BY <1>1, PutOthers
  <2> HIDE DEF want
  <2> QED
    BY <1>1, <2>0, <2>1, StageKeepsOne
<1> QED
  BY <1>2, <1>3, <1>4

LEMMA PromoteKeepsOne ==
  ASSUME OneStep, Promote
  PROVE  OneInv'
<1>1. /\ TypeInv /\ TypeInv' /\ cs.by # None /\ cs.at = "body" /\ UNCHANGED <<repo, cached>>
      /\ tree \in Trees /\ cs.ids \subseteq Artifacts
  BY PromoteKeepsType, SectionParts DEF Promote, In, OneStep, OneInv, TypeInv, TypeOK
<1>2. PICK a \in cs.ids :
        \/ Leave
        \/ cs' = [cs EXCEPT !.todo = Tail(@), !.at = "checkout", !.want = tree]
        \/ Stage(Put(tree, a, tree.vv[a] + 1, cs.want.art[a].state))
  BY DEF Promote
<1>3. CASE Leave
  BY <1>1, <1>3, MovesOnKeepsOne
<1>4. CASE cs' = [cs EXCEPT !.todo = Tail(@), !.at = "checkout", !.want = tree]
  <2>1. cs'.at = "checkout"
    BY <1>1, <1>4, SectionParts DEF Sections
  <2> QED
    BY <1>1, <2>1, MovesOnKeepsOne
<1>5. CASE Stage(Put(tree, a, tree.vv[a] + 1, cs.want.art[a].state))
  <2> DEFINE v == tree.vv[a] + 1
             st == cs.want.art[a].state
             want == Put(tree, a, v, st)
  <2>0. Stage(want)
    BY <1>5
  <2> HIDE DEF v, st
  <2>1. \A b \in Artifacts \ cs.ids : want.art[b] = tree.art[b]
    BY <1>1, PutOthers
  <2> HIDE DEF want
  <2> QED
    BY <1>1, <2>0, <2>1, StageKeepsOne
<1> QED
  BY <1>2, <1>3, <1>4, <1>5

\* fork() and discard_head() move another branch than the one HEAD names.
LEMMA ElsewhereKeepsOne ==
  ASSUME OneStep, Fork \/ DiscardHead
  PROVE  OneInv'
<1>1. /\ TypeInv' /\ cs.at = "body" /\ Leave /\ UNCHANGED <<head, index, tree, cached>>
      /\ tip'[head] = tip[head]
  BY ForkKeepsType, DiscardHeadKeepsType
  DEF Fork, DiscardHead, In, OneStep, OneInv, TypeInv, TypeOK
<1>2. cs'.at = "body" /\ ~Visiting'
  BY <1>1, FreeParts DEF Visiting
<1>3. CacheRight' /\ TreeFollows' /\ HeadIsTarget'
  BY <1>1, <1>2 DEF OneStep, OneInv, CacheRight, TreeFollows, HeadIsTarget
<1> QED
  BY <1>1, <1>3 DEF OneInv

LEMMA FaultsKeepOne ==
  ASSUME OneStep, \/ GitFails \/ WriteFails
                  \/ \E i \in Instances : Reopen(i) \/ Crash(i)
  PROVE  OneInv'
<1>1. ~GitFails /\ \A i \in Instances : ~Crash(i)
  BY DEF GitFails, Crash, Fault, OneStep, OnlyWritesFail
<1>2. ASSUME WriteFails PROVE OneInv'
  <2>1. /\ cs.by # None /\ cs.at = "write" /\ tree' = cs.before /\ Leave
        /\ UNCHANGED <<tip, head, index, cached>>
    BY <1>2 DEF WriteFails, Fault, OneStep, OnlyWritesFail
  <2>2. cs'.at = "body" /\ ~Visiting' /\ TypeInv'
    BY <1>2, <2>1, FreeParts, WriteFailsKeepsType DEF Visiting, OneStep, OneInv
  <2>3. CacheRight' /\ TreeFollows' /\ HeadIsTarget'
    BY <2>1, <2>2 DEF OneStep, OneInv, CacheRight, TreeFollows, HeadIsTarget
  <2> QED
    BY <2>2, <2>3 DEF OneInv
<1>3. ASSUME NEW i \in Instances, Reopen(i) PROVE OneInv'
  <2>1. TypeInv' /\ UNCHANGED <<repo, cs>> /\ cached' = [cached EXCEPT ![i] = None]
    BY <1>3, ReopenKeepsType DEF Reopen, Fresh, OneStep, OneInv
  <2>2. CacheRight'
    BY <2>1 DEF OneStep, OneInv, CacheRight, TypeInv, TypeOK, repo
  <2>3. TreeFollows' /\ HeadIsTarget'
    BY <2>1 DEF OneStep, OneInv, TreeFollows, HeadIsTarget, Visiting, Target, repo
  <2> QED
    BY <2>1, <2>2, <2>3 DEF OneInv
<1> QED
  BY <1>1, <1>2, <1>3

LEMMA OneInductive ==
  ASSUME OneInstance, OnlyWritesFail, OneInv, [Next]_vars
  PROVE  OneInv'
<1>1. OneStep
  BY DEF OneStep
<1>2. CASE UNCHANGED vars
  <2>1. TypeInv'
    BY <1>2, StutterKeepsType DEF OneInv
  <2> QED
    BY <1>2, <2>1 DEF vars, repo, client, OneInv, CacheRight, TreeFollows, HeadIsTarget,
       Visiting, Target
<1>3. CASE Next
  BY <1>1, <1>3, BeginKeepsOne, CheckoutKeepsOne, WriteKeepsOne, AddKeepsOne, CommitKeepsOne,
     ReturnKeepsOne, SnapshotKeepsOne, CheckCommitKeepsOne, RegisterKeepsOne, PromoteKeepsOne,
     ElsewhereKeepsOne, FaultsKeepOne DEF Next, Work
<1> QED
  BY <1>2, <1>3

\* "While this instance is looking at the working tree, it is the only thing that is": one process
\* whose git commands succeed always works on the branch it asked for, from a tree that is the tip of
\* that branch, after any number of writes that failed and were rolled back.
THEOREM ReadsItsBranchHolds ==
  ASSUME OneInstance, OnlyWritesFail
  PROVE  Spec => []ReadsItsBranch
<1>1. OneInv /\ [Next]_vars => OneInv'
  BY OneInductive
<1>2. OneInv => ReadsItsBranch
  BY SectionParts DEF OneInv, TypeInv, HeadIsTarget, TreeFollows, ReadsItsBranch, Visiting
<1> QED
  BY OneInit, <1>1, <1>2, PTL DEF Spec

(***************************************************************************)
(* One instance loses no update                                            *)
(***************************************************************************)
StoreStep == OneStep /\ StoreInv

LEMMA StoreInit == Init => StoreInv
<1> SUFFICES ASSUME Init PROVE StoreInv
  OBVIOUS
<1>1. OneInv /\ head \in {"dev", "stable"} /\ cs = Free
  BY OneInit DEF Init
<1>2. \A b \in Branches : tip[b] \in {None, Start} /\ (b \in {"dev", "stable"} => tip[b] = Start)
  BY LedgerAssumption DEF Init
<1>3. Start # None /\ Consistent(Start)
  BY Basics, NoneIsNoTree DEF Start, Consistent
<1>4. Alive
  BY <1>1, <1>2, <1>3, Basics DEF Alive
<1>5. SeenIsOld /\ NoLostUpdate
  BY Basics DEF Init, SeenIsOld, NoLostUpdate, NoSnapshot
<1>6. Wanted /\ Copied /\ Landed
  BY <1>1 DEF Free, Wanted, Copied, Landed
<1> QED
  BY <1>1, <1>4, <1>5, <1>6 DEF StoreInv

\* The tips and HEAD are as they were, and the method stages nothing and has copied nothing.
LEMMA MovesOnKeepsStore ==
  ASSUME StoreInv, OneInv', UNCHANGED <<tip, head>>, SeenIsOld', NoLostUpdate',
         cs'.at \in {"checkout", "body"}, ~(cs'.op = "promote" /\ cs'.todo = <<"stable">>)
  PROVE  StoreInv'
<1>1. Alive'
  BY DEF StoreInv, Alive, Consistent
<1>2. Wanted' /\ Copied' /\ Landed'
  BY DEF Wanted, Copied, Landed
<1> QED
  BY <1>1, <1>2 DEF StoreInv

\* The tips and HEAD are as they were, and what the method is about to commit is right.
LEMMA StagedKeepsStore ==
  ASSUME StoreInv, OneInv', UNCHANGED <<tip, head, seen, acked>>,
         cs'.at \in {"write", "add", "commit"}, Wanted'
  PROVE  StoreInv'
<1>1. Alive' /\ SeenIsOld' /\ NoLostUpdate'
  BY DEF StoreInv, Alive, Consistent, SeenIsOld, NoLostUpdate
<1>2. Copied' /\ Landed'
  BY DEF Copied, Landed
<1> QED
  BY <1>1, <1>2 DEF StoreInv

LEMMA UntouchedClients ==
  ASSUME StoreInv, UNCHANGED <<tip, seen, acked>>
  PROVE  SeenIsOld' /\ NoLostUpdate'
BY DEF StoreInv, SeenIsOld, NoLostUpdate

LEMMA BeginKeepsStore ==
  ASSUME StoreStep, NEW w \in Writers, Begin(w)
  PROVE  StoreInv'
<1>1. OneInv'
  BY BeginKeepsOne DEF StoreStep
<1>2. UNCHANGED <<tip, head, seen, acked>>
  BY DEF Begin, BeginSnapshot, BeginCommit, BeginRegister, BeginPromote,
     BeginFork, BeginDiscard, Enter, repo
<1>3. cs'.at \in {"checkout", "body"} /\ ~(cs'.op = "promote" /\ cs'.todo = <<"stable">>)
  <2>1. ASSUME NEW op, NEW ids, NEW name, NEW todo, Enter(w, op, ids, name, todo)
        PROVE  cs'.at \in {"checkout", "body"} /\ cs'.op = op /\ cs'.todo = todo
    BY <2>1 DEF Enter, Free
  <2>2. ASSUME NEW b PROVE <<"dev", "stable">> # <<b>>
    OBVIOUS
  <2>3. ASSUME NEW op, NEW ids, NEW name, NEW todo, Enter(w, op, ids, name, todo),
               op # "promote" \/ todo = <<"dev", "stable">>
        PROVE  cs'.at \in {"checkout", "body"} /\ ~(cs'.op = "promote" /\ cs'.todo = <<"stable">>)
    BY <2>1, <2>2, <2>3, Zenon
  <2>4. \/ \E b \in Readable : BeginSnapshot(w, b)
        \/ \E a \in Artifacts : BeginCommit(w, {a})
        \/ BeginCommit(w, Artifacts)
        \/ \E a \in Artifacts : BeginRegister(w, a)
        \/ \E a \in Artifacts : BeginPromote(w, a)
        \/ \E name \in Heads, from \in Readable : BeginFork(w, name, from)
        \/ \E name \in Heads : BeginDiscard(w, name)
    BY DEF Begin
  <2>5. \A a : BeginPromote(w, a) => Enter(w, "promote", {a}, "dev", <<"dev", "stable">>)
    BY DEF BeginPromote
  <2>6. \A name, from : BeginFork(w, name, from) => Enter(w, "fork", {}, name, <<from>>)
    BY DEF BeginFork
  <2>7. "snapshot" # "promote" /\ "commit" # "promote" /\ "register" # "promote"
        /\ "fork" # "promote" /\ "discard" # "promote"
    OBVIOUS
  <2> QED
    BY <2>3, <2>4, <2>5, <2>6, <2>7, ZenonT(60)
    DEF BeginSnapshot, BeginCommit, BeginRegister, BeginDiscard
<1> QED
  BY <1>1, <1>2, <1>3, UntouchedClients, MovesOnKeepsStore DEF StoreStep

LEMMA CheckoutKeepsStore ==
  ASSUME StoreStep, Checkout
  PROVE  StoreInv'
<1>1. OneInv' /\ TypeInv /\ tip \in [Branches -> Trees \cup {None}]
  BY CheckoutKeepsOne DEF StoreStep, StoreInv, OneInv, TypeInv, TypeOK
<1>2. cs.by # None /\ cs.at = "checkout" /\ Target \in Branches /\ UNCHANGED client
  BY <1>1, SectionParts DEF Checkout, Target
<1>3. CASE Leave /\ UNCHANGED repo
  <2>1. cs'.at = "body" /\ cs'.op = "none" /\ UNCHANGED <<tip, head, seen, acked>>
    BY <1>2, <1>3, FreeParts DEF repo, client
  <2> QED
    BY <1>1, <2>1, UntouchedClients, MovesOnKeepsStore DEF StoreStep
<1>4. CASE Goto("body") /\ UNCHANGED tip /\ tip[head'] # None
  <2>1. cs'.op = cs.op /\ cs'.ids = cs.ids /\ cs'.at = "body" /\ cs'.want = cs.want
        /\ cs'.todo = cs.todo /\ UNCHANGED <<seen, acked>>
    BY <1>1, <1>2, <1>4, GotoParts DEF client
  <2>2. Alive'
    BY <1>4 DEF StoreStep, StoreInv, Alive, Consistent
  <2>3. Wanted' /\ Landed' /\ Copied'
    BY <1>2, <1>4, <2>1 DEF StoreStep, StoreInv, Wanted, Landed, Copied
  <2> QED
    BY <1>1, <1>4, <2>1, <2>2, <2>3, UntouchedClients DEF StoreStep, StoreInv
<1> QED
  BY <1>2, <1>3, <1>4 DEF Checkout, GitCheckout, CanCheckout, repo, StoreStep, StoreInv, Alive

LEMMA WriteKeepsStore ==
  ASSUME StoreStep, Write
  PROVE  StoreInv'
<1>1. OneInv' /\ TypeInv
  BY WriteKeepsOne DEF StoreStep, StoreInv, OneInv
<1>2. /\ UNCHANGED <<tip, head, seen, acked, writes>> /\ cs.at = "write"
      /\ cs'.op = cs.op /\ cs'.ids = cs.ids /\ cs'.want = cs.want /\ cs'.at \in {"write", "add"}
  BY <1>1, GotoParts DEF Write, client
<1>3. Wanted'
  BY <1>2 DEF StoreStep, StoreInv, Wanted, WantsCommit, WantsRegister, WantsPromote
<1> QED
  BY <1>1, <1>2, <1>3, StagedKeepsStore DEF StoreStep

LEMMA AddKeepsStore ==
  ASSUME StoreStep, Add
  PROVE  StoreInv'
<1>1. OneInv' /\ TypeInv
  BY AddKeepsOne DEF StoreStep, StoreInv, OneInv
<1>2. /\ UNCHANGED <<tip, head, seen, acked, writes>> /\ cs.at = "add"
      /\ cs'.op = cs.op /\ cs'.ids = cs.ids /\ cs'.want = cs.want /\ cs'.at = "commit"
  BY <1>1, GotoParts DEF Add, client
<1>3. Wanted'
  BY <1>2 DEF StoreStep, StoreInv, Wanted, WantsCommit, WantsRegister, WantsPromote
<1> QED
  BY <1>1, <1>2, <1>3, StagedKeepsStore DEF StoreStep

\* A branch is replaced by a tree that keeps its versions, and dev only grows.
Grows(t, new) ==
  \A a \in Artifacts :
     /\ t.vv[a] <= new.vv[a]
     /\ t.vv[a] = new.vv[a] => t.art[a] = new.art[a]
     /\ t.art[a].state \subseteq new.art[a].state

\* A commit is one of the three that write, on the branch HEAD names.
LEMMA CommitIs ==
  ASSUME StoreStep, Commit
  PROVE  /\ cs.by # None /\ cs.at = "commit" /\ cs.want \in Trees /\ head \in Branches
         /\ tip' = [tip EXCEPT ![head] = cs.want] /\ tip \in [Branches -> Trees \cup {None}]
         /\ tip[head] \in Trees /\ tip["dev"] \in Trees
         /\ Consistent(tip[head]) /\ Consistent(tip["dev"])
         /\ head = Target /\ cs.ids \subseteq Artifacts
         /\ \/ cs.op = "commit" /\ WantsCommit
            \/ /\ cs.op = "register" /\ WantsRegister
               /\ head \in {"dev", "stable"} /\ \E a \in Artifacts : cs.ids = {a}
            \/ /\ cs.op = "promote" /\ WantsPromote
               /\ head = "stable" /\ \E a \in Artifacts : cs.ids = {a}
<1>1. TypeInv /\ cs.by # None /\ cs.at = "commit" /\ index = cs.want
  BY DEF StoreStep, StoreInv, OneInv, TreeFollows, Commit
<1>2. /\ cs.want \in Trees /\ head \in Branches /\ cs.ids \subseteq Artifacts
      /\ tip' = [tip EXCEPT ![head] = cs.want] /\ tip \in [Branches -> Trees \cup {None}]
  BY <1>1, SectionParts DEF Commit, GitCommit, TypeInv, TypeOK
<1>3. cs.op \in {"commit", "register", "promote"} /\ cs.todo # <<>>
  BY <1>1, SectionParts DEF TypeInv, Itinerary, Writing
<1>4. head = Target
  BY <1>1, <1>3 DEF StoreStep, StoreInv, OneInv, HeadIsTarget, Visiting
<1>5. /\ tip[head] \in Trees /\ tip["dev"] \in Trees
      /\ Consistent(tip[head]) /\ Consistent(tip["dev"])
  BY <1>2, Basics DEF StoreStep, StoreInv, Alive
<1>6. CASE cs.op = "commit"
  BY <1>1, <1>2, <1>4, <1>5, <1>6 DEF StoreStep, StoreInv, Wanted
<1>7. CASE cs.op = "register"
  <2>1. WantsRegister /\ cs.todo \in {<<"stable", "dev">>, <<"dev">>}
        /\ \E a \in Artifacts : cs.ids = {a}
    BY <1>1, <1>7 DEF StoreStep, StoreInv, Wanted, TypeInv, Itinerary
  <2>2. head \in {"dev", "stable"}
    BY <1>4, <2>1 DEF Target
  <2> QED
    BY <1>1, <1>2, <1>4, <1>5, <1>7, <2>1, <2>2
<1>8. CASE cs.op = "promote"
  <2>1. WantsPromote /\ cs.todo = <<"stable">> /\ \E a \in Artifacts : cs.ids = {a}
    BY <1>1, <1>8 DEF StoreStep, StoreInv, Wanted, TypeInv, Itinerary, Writing
  <2>2. head = "stable"
    BY <1>4, <2>1 DEF Target
  <2> QED
    BY <1>1, <1>2, <1>4, <1>5, <1>8, <2>1, <2>2
<1> QED
  BY <1>3, <1>6, <1>7, <1>8

LEMMA CommitGrows ==
  ASSUME StoreStep, Commit
  PROVE  Consistent(cs.want) /\ (head = "dev" => Grows(tip["dev"], cs.want))
<1>1. /\ tip[head] \in Trees /\ Consistent(tip[head]) /\ cs.ids \subseteq Artifacts
      /\ cs.want \in Trees
  BY CommitIs
<1>t. ASSUME NEW a \in Artifacts
      PROVE  /\ tip[head].vv[a] \in Nat /\ cs.want.vv[a] \in Nat
             /\ tip[head].vv[a] = tip[head].art[a].version
             /\ tip[head].vv[a] = 0 => tip[head].art[a].state = {}
  BY <1>1 DEF Trees, Consistent
<1>2. CASE cs.op = "commit" /\ WantsCommit
  <2>1. ASSUME NEW a \in Artifacts
        PROVE  /\ cs.want.vv[a] = cs.want.art[a].version
               /\ cs.want.vv[a] = 0 => cs.want.art[a].state = {}
               /\ head = "dev" =>
                    /\ tip["dev"].vv[a] <= cs.want.vv[a]
                    /\ tip["dev"].vv[a] = cs.want.vv[a] => tip["dev"].art[a] = cs.want.art[a]
                    /\ tip["dev"].art[a].state \subseteq cs.want.art[a].state
    <3>1. CASE a \in cs.ids
      BY <1>2, <1>t, <3>1 DEF WantsCommit
    <3>2. CASE a \notin cs.ids
      BY <1>2, <1>t, <3>2 DEF WantsCommit
    <3> QED
      BY <3>1, <3>2
  <2> QED
    BY <2>1 DEF Consistent, Grows
<1>3. CASE WantsRegister /\ \E a \in Artifacts : cs.ids = {a}
  <2>1. PICK c \in Artifacts : cs.ids = {c}
    BY <1>3
  <2> DEFINE t == tip[head]
             st == {}
             one == 1
  <2>2. t.vv[c] = 0 /\ cs.want = Put(t, c, one, st)
    BY <1>3, <2>1 DEF WantsRegister
  <2> HIDE DEF st, one, t
  <2>3. \A b \in Artifacts :
          /\ cs.want.art[b] = IF b = c THEN [version |-> one, state |-> st] ELSE t.art[b]
          /\ cs.want.vv[b] = IF b = c THEN one ELSE t.vv[b]
    BY <1>1, <2>2, PutElsewhere DEF t
  <2>4. one = 1 /\ st = {}
    BY DEF one, st
  <2>5. ASSUME NEW a \in Artifacts
        PROVE  /\ cs.want.vv[a] = cs.want.art[a].version
               /\ cs.want.vv[a] = 0 => cs.want.art[a].state = {}
               /\ t.vv[a] <= cs.want.vv[a]
               /\ t.vv[a] = cs.want.vv[a] => t.art[a] = cs.want.art[a]
               /\ t.art[a].state \subseteq cs.want.art[a].state
    <3>1. /\ t.vv[a] \in Nat /\ t.vv[a] = t.art[a].version
          /\ t.vv[a] = 0 => t.art[a].state = {}
      BY <1>t DEF t
    <3>2. CASE a = c
      BY <2>2, <2>3, <2>4, <3>1, <3>2
    <3>3. CASE a # c
      BY <2>3, <3>1, <3>3
    <3> QED
      BY <3>2, <3>3
  <2> QED
    BY <2>5 DEF Consistent, Grows, t
<1>4. CASE WantsPromote /\ head = "stable" /\ \E a \in Artifacts : cs.ids = {a}
  <2>1. PICK c \in Artifacts : cs.ids = {c}
    BY <1>4
  <2> DEFINE t == tip[head]
             st == tip["dev"].art[c].state
             v == t.vv[c] + 1
  <2>2. cs.want = Put(t, c, v, st)
    BY <1>4, <2>1 DEF WantsPromote
  <2>3. v \in Nat /\ v # 0
    BY <1>t, <2>1
  <2> HIDE DEF st, v, t
  <2>4. \A b \in Artifacts :
          /\ cs.want.art[b] = IF b = c THEN [version |-> v, state |-> st] ELSE t.art[b]
          /\ cs.want.vv[b] = IF b = c THEN v ELSE t.vv[b]
    BY <1>1, <2>2, PutElsewhere DEF t
  <2>5. ASSUME NEW a \in Artifacts
        PROVE  /\ cs.want.vv[a] = cs.want.art[a].version
               /\ cs.want.vv[a] = 0 => cs.want.art[a].state = {}
    <3>1. t.vv[a] = t.art[a].version /\ (t.vv[a] = 0 => t.art[a].state = {})
      BY <1>t DEF t
    <3> QED
      BY <2>3, <2>4, <3>1
  <2> QED
    BY <1>4, <2>5 DEF Consistent
<1> QED
  BY <1>2, <1>3, <1>4, CommitIs

LEMMA CommitKeepsStore ==
  ASSUME StoreStep, Commit
  PROVE  StoreInv'
<1>1. OneInv' /\ TypeInv
  BY CommitKeepsOne DEF StoreStep, StoreInv, OneInv
<1>2. /\ cs.want \in Trees /\ cs.want # None /\ head \in Branches
      /\ tip' = [tip EXCEPT ![head] = cs.want] /\ tip \in [Branches -> Trees \cup {None}]
      /\ tip["dev"] \in Trees
      /\ UNCHANGED <<head, seen, writes, acked>>
  BY CommitIs, NoneIsNoTree DEF Commit, GitCommit, client
<1>3. Consistent(cs.want) /\ (head = "dev" => Grows(tip["dev"], cs.want))
  BY CommitGrows
<1>4. \A b \in Branches : tip'[b] = IF b = head THEN cs.want ELSE tip[b]
  BY <1>2
<1>5. Alive'
  <2>1. \A b \in {"dev", "stable", head} : b \in Branches /\ tip[b] # None
    BY <1>2, Basics DEF StoreStep, StoreInv, Alive
  <2>2. \A b \in Branches : tip[b] # None => Consistent(tip[b])
    BY DEF StoreStep, StoreInv, Alive
  <2>3. \A b \in {"dev", "stable", head'} : tip'[b] # None
    BY <1>2, <1>4, <2>1
  <2>4. \A b \in Branches : tip'[b] # None => Consistent(tip'[b])
    BY <1>3, <1>4, <2>2
  <2>5. \A b \in Branches : tip'[b] # None => Consistent(tip[b])'
    BY <2>4 DEF Consistent
  <2> QED
    BY <2>3, <2>5 DEF Alive
<1>6. SeenIsOld' /\ NoLostUpdate'
  <2>1. CASE head # "dev"
    <3>1. tip'["dev"] = tip["dev"]
      BY <1>4, <2>1, Basics
    <3> QED
      BY <1>2, <3>1 DEF StoreStep, StoreInv, SeenIsOld, NoLostUpdate
  <2>2. CASE head = "dev"
    <3>1. tip'["dev"] = cs.want /\ Grows(tip["dev"], cs.want)
      BY <1>3, <1>4, <2>2, Basics
    <3>2. ASSUME NEW w \in Writers, NEW a \in Artifacts, seen[w].branch = "dev"
          PROVE  /\ seen[w].tree.vv[a] <= cs.want.vv[a]
                 /\ seen[w].tree.vv[a] = cs.want.vv[a] => seen[w].tree.art[a] = cs.want.art[a]
      <4> DEFINE x == seen[w].tree.vv[a]
                 y == tip["dev"].vv[a]
                 z == cs.want.vv[a]
      <4>1. x \in Nat /\ y \in Nat /\ z \in Nat
        BY <1>1, <1>2 DEF TypeInv, TypeOK, Trees
      <4>2. x <= y /\ (x = y => seen[w].tree.art[a] = tip["dev"].art[a])
        BY <3>2 DEF StoreStep, StoreInv, SeenIsOld
      <4>3. y <= z /\ (y = z => tip["dev"].art[a] = cs.want.art[a])
        BY <3>1 DEF Grows
      <4> HIDE DEF x, y, z
      <4>4. x <= z /\ (x = z => x = y /\ y = z)
        BY <4>1, <4>2, <4>3
      <4> QED
        BY <4>2, <4>3, <4>4 DEF x, z
    <3>3. \A a \in Artifacts : tip["dev"].art[a].state \subseteq cs.want.art[a].state
      BY <3>1 DEF Grows
    <3> QED
      BY <1>2, <3>1, <3>2, <3>3 DEF StoreStep, StoreInv, SeenIsOld, NoLostUpdate
  <2> QED
    BY <2>1, <2>2
<1>7. cs'.at = "rev" /\ cs'.op = cs.op /\ cs'.ids = cs.ids
  BY <1>1, GotoParts DEF Commit
<1>8. Wanted' /\ Copied'
  BY <1>7 DEF Wanted, Copied
<1>9. Landed'
  <2>1. ASSUME cs.op = "commit", head = "dev", NEW a \in cs.ids
        PROVE  writes \in cs.want.art[a].state
    BY <2>1, CommitIs DEF WantsCommit
  <2> QED
    BY <1>2, <1>4, <1>7, <2>1, Basics DEF Landed
<1> QED
  BY <1>1, <1>5, <1>6, <1>8, <1>9 DEF StoreInv

LEMMA ReturnKeepsStore ==
  ASSUME StoreStep, Return
  PROVE  StoreInv'
<1>1. OneInv' /\ TypeInv
  BY ReturnKeepsOne DEF StoreStep, StoreInv, OneInv
<1>2. /\ cs.by # None /\ cs.at = "rev" /\ Advance /\ UNCHANGED <<tip, head, seen, writes>>
      /\ acked \in [Artifacts -> SUBSET Nat]
  BY <1>1 DEF Return, repo, TypeInv, TypeOK
<1>3. cs'.at \in {"checkout", "body"} /\ ~(cs'.op = "promote" /\ cs'.todo = <<"stable">>)
  <2>1. CASE Leave
    BY <2>1, FreeParts
  <2>2. CASE cs'.op = cs.op /\ cs'.at = "checkout" /\ Len(cs.todo) > 1
    <3>1. cs.op # "promote"
      <4>1. cs.todo \in Seq(Branches)
        BY <1>1, SectionParts
      <4>2. cs.todo # <<"stable">>
        BY <2>2, <4>1, MoreThanOne, Zenon
      <4>3. cs.at \in Writing
        BY <1>2 DEF Writing
      <4> QED
        BY <1>1, <1>2, <4>2, <4>3, Zenon DEF TypeInv, Itinerary
    <3> QED
      BY <2>2, <3>1
  <2> QED
    BY <1>1, <1>2, <2>1, <2>2, AdvanceParts
<1>4. NoLostUpdate'
  <2>1. CASE cs.op = "commit" /\ Target = "dev"
    <3>1. head = "dev"
      BY <1>1, <1>2, <2>1, SectionParts DEF StoreStep, StoreInv, OneInv, HeadIsTarget, Visiting
    <3>2. \A a \in cs.ids : writes \in tip["dev"].art[a].state
      BY <1>2, <2>1, <3>1 DEF StoreStep, StoreInv, Landed
    <3>3. acked' = [a \in Artifacts |->
                      acked[a] \cup (IF a \in cs.ids THEN {writes} ELSE {})]
      BY <2>1 DEF Return
    <3> QED
      BY <1>2, <3>2, <3>3 DEF StoreStep, StoreInv, NoLostUpdate
  <2>2. CASE acked' = acked
    BY <1>2, <2>2 DEF StoreStep, StoreInv, NoLostUpdate
  <2> QED
    BY <2>1, <2>2 DEF Return
<1>5. SeenIsOld'
  BY <1>2 DEF StoreStep, StoreInv, SeenIsOld
<1> QED
  BY <1>1, <1>2, <1>3, <1>4, <1>5, MovesOnKeepsStore DEF StoreStep

LEMMA SnapshotKeepsStore ==
  ASSUME StoreStep, Snapshot
  PROVE  StoreInv'
<1>1. OneInv' /\ TypeInv
  BY SnapshotKeepsOne DEF StoreStep, StoreInv, OneInv
<1>2. /\ cs.by # None /\ cs.op = "snapshot" /\ cs.at = "body" /\ Leave
      /\ UNCHANGED <<tip, head, acked>> /\ tree = tip[head]
      /\ seen' = [seen EXCEPT ![cs.by] = [branch |-> Target, tree |-> tree]]
  BY DEF Snapshot, In, repo, StoreStep, StoreInv, OneInv, TreeFollows
<1>3. head = Target
  BY <1>1, <1>2, SectionParts DEF StoreStep, StoreInv, OneInv, HeadIsTarget, Visiting
<1>4. SeenIsOld'
  <2>1. ASSUME NEW w \in Writers, NEW a \in Artifacts, seen'[w].branch = "dev"
        PROVE  /\ seen'[w].tree.vv[a] <= tip["dev"].vv[a]
               /\ seen'[w].tree.vv[a] = tip["dev"].vv[a] =>
                    seen'[w].tree.art[a] = tip["dev"].art[a]
    <3>1. CASE w = cs.by
      <4>1. seen'[w] = [branch |-> Target, tree |-> tree]
        BY <1>1, <1>2, <3>1 DEF TypeInv, TypeOK
      <4>2. seen'[w].tree = tip["dev"]
        BY <1>2, <1>3, <2>1, <4>1
      <4>3. tip["dev"].vv[a] \in Nat
        BY <1>1, <1>2, <1>3, <2>1, <4>1 DEF TypeInv, TypeOK, Trees
      <4> QED
        BY <4>2, <4>3
    <3>2. CASE w # cs.by
      <4>1. seen'[w] = seen[w]
        BY <1>1, <1>2, <3>2 DEF TypeInv, TypeOK
      <4> QED
        BY <2>1, <4>1 DEF StoreStep, StoreInv, SeenIsOld
    <3> QED
      BY <3>1, <3>2
  <2> QED
    BY <1>2, <2>1 DEF SeenIsOld
<1>5. NoLostUpdate'
  BY <1>2 DEF StoreStep, StoreInv, NoLostUpdate
<1> QED
  BY <1>1, <1>2, <1>4, <1>5, FreeParts, MovesOnKeepsStore DEF StoreStep

LEMMA CheckCommitKeepsStore ==
  ASSUME StoreStep, CheckCommit
  PROVE  StoreInv'
<1>1. /\ OneInv' /\ TypeInv
  BY CheckCommitKeepsOne DEF StoreStep, StoreInv, OneInv
<1>2. /\ cs.by \in Writers /\ cs.by # None /\ cs.op = "commit" /\ cs.at = "body"
      /\ UNCHANGED <<tip, head, seen, acked, writes>> /\ tree = tip[head] /\ tree \in Trees
      /\ Consistent(tree)
  BY <1>1, SectionParts DEF CheckCommit, In, repo, client, StoreStep, StoreInv, OneInv, TreeFollows,
     TypeInv, TypeOK, Alive
<1>3. head = Target
  BY <1>1, <1>2, SectionParts DEF StoreStep, StoreInv, OneInv, HeadIsTarget, Visiting
<1>4. seen[cs.by].branch = Target
  BY <1>1, <1>2 DEF TypeInv, Itinerary, Target
<1>5. CASE Leave
  BY <1>1, <1>2, <1>5, FreeParts, UntouchedClients, MovesOnKeepsStore DEF StoreStep
<1>6. CASE Stage(Candidate(cs.ids)) /\ \A a \in cs.ids : BaseIsHead(a)
  <2> DEFINE want == Candidate(cs.ids)
  <2>1. ASSUME NEW a \in Artifacts
        PROVE  /\ want.vv[a] = want.art[a].version
               /\ a \notin cs.ids => want.art[a] = tip[head].art[a]
               /\ a \in cs.ids =>
                    /\ want.art[a].version = tip[head].vv[a] + 1
                    /\ writes \in want.art[a].state
                    /\ head = "dev" => tip["dev"].art[a].state \subseteq want.art[a].state
    <3>0. tree.vv[a] \in Nat /\ tree.vv[a] = tree.art[a].version
      BY <1>2 DEF Trees, Consistent
    <3>1. CASE a \notin cs.ids
      BY <1>2, <3>0, <3>1 DEF Candidate
    <3>2. CASE a \in cs.ids
      <4>1. /\ want.vv[a] = tree.vv[a] + 1 /\ want.art[a].version = tree.vv[a] + 1
            /\ want.art[a].state = seen[cs.by].tree.art[a].state \cup {writes}
        BY <3>2 DEF Candidate
      <4>2. head = "dev" => seen[cs.by].tree.art[a] = tip["dev"].art[a]
        BY <1>2, <1>3, <1>4, <1>6, <3>2 DEF BaseIsHead, StoreStep, StoreInv, SeenIsOld
      <4> QED
        BY <1>2, <3>2, <4>1, <4>2
    <3> QED
      BY <3>1, <3>2
  <2>2. Stage(want)
    BY <1>6
  <2> HIDE DEF want
  <2>3. cs'.op = "commit" /\ cs'.ids = cs.ids /\ cs'.at = "write" /\ cs'.want = want
    BY <1>1, <1>2, <2>2, StageParts
  <2>4. Wanted'
    BY <1>2, <2>1, <2>3 DEF Wanted, WantsCommit
  <2> QED
    BY <1>1, <1>2, <2>3, <2>4, StagedKeepsStore DEF StoreStep
<1> QED
  BY <1>5, <1>6 DEF CheckCommit

LEMMA RegisterKeepsStore ==
  ASSUME StoreStep, Register
  PROVE  StoreInv'
<1>1. /\ OneInv' /\ TypeInv
  BY RegisterKeepsOne DEF StoreStep, StoreInv, OneInv
<1>2. /\ cs.by # None /\ cs.op = "register" /\ cs.at = "body"
      /\ UNCHANGED <<tip, head, seen, acked, writes>> /\ tree = tip[head]
  BY <1>1 DEF Register, In, repo, client, StoreStep, StoreInv, OneInv, TreeFollows
<1>3. \E c \in Artifacts : cs.ids = {c}
  BY <1>1, <1>2 DEF TypeInv, Itinerary
<1>4. PICK a \in cs.ids : IF tree.vv[a] = 0 THEN Stage(Put(tree, a, 1, {})) ELSE Advance
  BY DEF Register
<1>5. CASE Advance
  <2>1. /\ cs'.at \in {"checkout", "body"} /\ cs'.op # "promote"
    BY <1>1, <1>2, <1>5, AdvanceParts, FreeParts
  <2> QED
    BY <1>1, <1>2, <2>1, UntouchedClients, MovesOnKeepsStore DEF StoreStep
<1>6. CASE tree.vv[a] = 0 /\ Stage(Put(tree, a, 1, {}))
  <2> DEFINE want == Put(tree, a, 1, {})
  <2>1. Stage(want)
    BY <1>6
  <2> HIDE DEF want
  <2>2. cs'.op = "register" /\ cs'.ids = cs.ids /\ cs'.at = "write" /\ cs'.want = want
    BY <1>1, <1>2, <2>1, StageParts
  <2>3. cs.ids = {a}
    BY <1>3
  <2>4. Wanted'
    BY <1>2, <1>6, <2>2, <2>3 DEF Wanted, WantsRegister, want
  <2> QED
    BY <1>1, <1>2, <2>2, <2>4, StagedKeepsStore DEF StoreStep
<1> QED
  BY <1>4, <1>5, <1>6

LEMMA PromoteKeepsStore ==
  ASSUME StoreStep, Promote
  PROVE  StoreInv'
<1>1. /\ OneInv' /\ TypeInv
  BY PromoteKeepsOne DEF StoreStep, StoreInv, OneInv
<1>2. /\ cs.by # None /\ cs.op = "promote" /\ cs.at = "body"
      /\ UNCHANGED <<tip, head, seen, acked, writes>> /\ tree = tip[head] /\ tree \in Trees
  BY <1>1 DEF Promote, In, repo, client, StoreStep, StoreInv, OneInv, TreeFollows, TypeInv, TypeOK
<1>3. /\ \E c \in Artifacts : cs.ids = {c}
      /\ cs.todo = <<"dev", "stable">> \/ cs.todo = <<"stable">>
  BY <1>1, <1>2 DEF TypeInv, Itinerary
<1>4. head = Target
  BY <1>1, <1>2, SectionParts DEF StoreStep, StoreInv, OneInv, HeadIsTarget, Visiting
<1>5. PICK a \in cs.ids :
        IF Target = "dev"
        THEN IF tree.vv[a] = 0 THEN Leave
             ELSE cs' = [cs EXCEPT !.todo = Tail(@), !.at = "checkout", !.want = tree]
        ELSE Stage(Put(tree, a, tree.vv[a] + 1, cs.want.art[a].state))
  BY DEF Promote
<1>6. cs.ids = {a}
  BY <1>3
<1>7. CASE Leave
  BY <1>1, <1>2, <1>7, FreeParts, UntouchedClients, MovesOnKeepsStore DEF StoreStep
<1>8. CASE /\ Target = "dev" /\ tree.vv[a] # 0
           /\ cs' = [cs EXCEPT !.todo = Tail(@), !.at = "checkout", !.want = tree]
  <2>1. cs'.at = "checkout" /\ cs'.want = tree /\ cs'.ids = cs.ids
    BY <1>1, <1>8, SectionParts DEF Sections
  <2>2. tree = tip["dev"] /\ tree.vv[a] > 0
    <3>1. tree = tip["dev"]
      BY <1>2, <1>4, <1>8
    <3>2. PICK n \in Nat : n = tree.vv[a]
      BY <1>1, <1>2, SectionParts DEF Trees
    <3>3. n > 0
      BY <1>8, <3>2
    <3> QED
      BY <3>1, <3>2, <3>3
  <2>3. Copied' /\ Wanted' /\ Landed'
    BY <1>2, <1>6, <2>1, <2>2 DEF Copied, Wanted, Landed
  <2>4. Alive'
    BY <1>2 DEF StoreStep, StoreInv, Alive, Consistent
  <2> QED
    BY <1>1, <1>2, <2>3, <2>4, UntouchedClients DEF StoreStep, StoreInv
<1>9. CASE Target # "dev" /\ Stage(Put(tree, a, tree.vv[a] + 1, cs.want.art[a].state))
  <2> DEFINE want == Put(tree, a, tree.vv[a] + 1, cs.want.art[a].state)
  <2>1. Stage(want)
    BY <1>9
  <2>2. cs.todo = <<"stable">>
    BY <1>3, <1>9 DEF Target
  <2>3. cs.want = tip["dev"] /\ tip["dev"].vv[a] > 0
    BY <1>2, <2>2 DEF StoreStep, StoreInv, Copied
  <2> HIDE DEF want
  <2>4. cs'.op = "promote" /\ cs'.ids = cs.ids /\ cs'.at = "write" /\ cs'.want = want
    BY <1>1, <1>2, <2>1, StageParts
  <2>5. Wanted'
    BY <1>2, <1>6, <2>3, <2>4 DEF Wanted, WantsPromote, want
  <2> QED
    BY <1>1, <1>2, <2>4, <2>5, StagedKeepsStore DEF StoreStep
<1> QED
  BY <1>5, <1>7, <1>8, <1>9

LEMMA ElsewhereKeepsStore ==
  ASSUME StoreStep, Fork \/ DiscardHead
  PROVE  StoreInv'
<1>1. OneInv' /\ TypeInv
  BY ElsewhereKeepsOne DEF StoreStep, StoreInv, OneInv
<1>2. /\ cs.by # None /\ cs.op \in {"fork", "discard"} /\ Leave /\ UNCHANGED <<head, seen, acked>>
      /\ tip' \in {tip, [tip EXCEPT ![cs.name] = tip[head]], [tip EXCEPT ![cs.name] = None]}
      /\ cs.name # head \/ tip' = tip
  BY DEF Fork, DiscardHead, In, client
<1>3. cs.name \in Heads
  BY <1>1, <1>2 DEF TypeInv, Itinerary
<1>4. /\ tip \in [Branches -> Trees \cup {None}] /\ cs.name \notin {"dev", "stable"}
      /\ head \in Branches
  BY <1>1, <1>3, LedgerAssumption DEF TypeInv, TypeOK
<1>5. /\ \A b \in {"dev", "stable", head} : tip'[b] = tip[b]
      /\ \A b \in Branches : tip'[b] \in {None, tip[b], tip[head]}
  BY <1>2, <1>4, Basics
<1>6. Alive'
  <2>1. \A b \in {"dev", "stable", head'} : tip'[b] # None
    BY <1>2, <1>5 DEF StoreStep, StoreInv, Alive
  <2>2. \A b \in Branches : tip[b] # None => Consistent(tip[b])
    BY DEF StoreStep, StoreInv, Alive
  <2>3. \A b \in Branches : tip'[b] # None => Consistent(tip'[b])
    BY <1>4, <1>5, <2>2
  <2>4. \A b \in Branches : tip'[b] # None => Consistent(tip[b])'
    BY <2>3 DEF Consistent
  <2> QED
    BY <2>1, <2>4 DEF Alive
<1>7. SeenIsOld' /\ NoLostUpdate'
  BY <1>2, <1>5 DEF StoreStep, StoreInv, SeenIsOld, NoLostUpdate
<1>8. Wanted' /\ Copied' /\ Landed'
  BY <1>2, FreeParts DEF Wanted, Copied, Landed
<1> QED
  BY <1>1, <1>6, <1>7, <1>8 DEF StoreInv

LEMMA FaultsKeepStore ==
  ASSUME StoreStep, \/ GitFails \/ WriteFails
                    \/ \E i \in Instances : Reopen(i) \/ Crash(i)
  PROVE  StoreInv'
<1>1. ~GitFails /\ \A i \in Instances : ~Crash(i)
  BY DEF GitFails, Crash, Fault, StoreStep, OneStep, OnlyWritesFail
<1>2. OneInv' /\ TypeInv
  BY FaultsKeepOne DEF StoreStep, StoreInv, OneInv
<1>3. ASSUME WriteFails PROVE StoreInv'
  <2>1. Leave /\ UNCHANGED <<tip, head, seen, acked>>
    BY <1>3 DEF WriteFails, client
  <2> QED
    BY <1>2, <2>1, FreeParts, UntouchedClients, MovesOnKeepsStore DEF StoreStep
<1>4. ASSUME NEW i \in Instances, Reopen(i) PROVE StoreInv'
  <2>1. cs.by = None
    BY <1>2, <1>4, OnlyMe DEF Reopen, StoreStep, OneStep
  <2>2. cs'.at = "body" /\ cs'.op = "none" /\ UNCHANGED <<tip, head, acked>>
    BY <1>2, <1>4, <2>1 DEF Reopen, repo, TypeInv, Itinerary, Free
  <2>3. seen' = [w \in Writers |-> IF Home[w] = i THEN NoSnapshot ELSE seen[w]]
    BY <1>4 DEF Reopen, Fresh
  <2>4. SeenIsOld'
    BY <2>2, <2>3, Basics DEF StoreStep, StoreInv, SeenIsOld, NoSnapshot
  <2>5. NoLostUpdate'
    BY <2>2 DEF StoreStep, StoreInv, NoLostUpdate
  <2> QED
    BY <1>2, <2>2, <2>4, <2>5, MovesOnKeepsStore DEF StoreStep
<1> QED
  BY <1>1, <1>3, <1>4

LEMMA StoreInductive ==
  ASSUME OneInstance, OnlyWritesFail, StoreInv, [Next]_vars
  PROVE  StoreInv'
<1>1. StoreStep
  BY DEF StoreStep, OneStep, StoreInv
<1>2. CASE UNCHANGED vars
  <2>1. OneInv'
    BY <1>2, OneInductive DEF StoreInv
  <2>2. UNCHANGED <<tip, head, cs, seen, writes, acked>>
    BY <1>2 DEF vars, repo, client
  <2>3. Alive' /\ SeenIsOld' /\ NoLostUpdate'
    BY <2>2 DEF StoreInv, Alive, Consistent, SeenIsOld, NoLostUpdate
  <2>4. Wanted' /\ Copied' /\ Landed'
    BY <2>2 DEF StoreInv, Wanted, WantsCommit, WantsRegister, WantsPromote, Copied, Landed
  <2> QED
    BY <2>1, <2>3, <2>4 DEF StoreInv
<1>3. CASE Next
  BY <1>1, <1>3, BeginKeepsStore, CheckoutKeepsStore, WriteKeepsStore, AddKeepsStore,
     CommitKeepsStore, ReturnKeepsStore, SnapshotKeepsStore, CheckCommitKeepsStore,
     RegisterKeepsStore, PromoteKeepsStore, ElsewhereKeepsStore, FaultsKeepStore DEF Next, Work
<1> QED
  BY <1>2, <1>3

\* A commit to dev that returned is never lost, by any number of threads of one process that
\* commit, register, promote, fork and discard heads, when files fail to be written.
THEOREM OneLosesNoUpdate ==
  ASSUME OneInstance, OnlyWritesFail
  PROVE  Spec => []NoLostUpdate
<1>1. StoreInv /\ [Next]_vars => StoreInv'
  BY StoreInductive
<1>2. StoreInv => NoLostUpdate
  BY DEF StoreInv
<1> QED
  BY StoreInit, <1>1, <1>2, PTL DEF Spec

(***************************************************************************)
(* One instance implements VersionedStore: git commit is the atomic step   *)
(***************************************************************************)
Stored == [b \in Branches |-> Contents(tip[b])]

LEMMA StoredIs ==
  ASSUME NEW b \in Branches, tip[b] \in Trees
  PROVE  /\ Stored[b] = tip[b].art /\ Stored[b] # None
         /\ \A a \in Artifacts : Stored[b][a] = tip[b].art[a]
BY NoneIsNoTree DEF Stored, Contents, Trees

LEMMA PromiseBranches == Promise!Branches = Branches
BY DEF Promise!Branches, Branches

LEMMA PromiseInit == Init => Promise!Init
<1> SUFFICES ASSUME Init PROVE Promise!Init
  OBVIOUS
<1>1. Start # None /\ Start.art = Promise!Start
  BY Basics, NoneIsNoTree DEF Start, Promise!Start
<1>2. \A b \in Branches : Contents(tip[b]) = IF b \in Heads THEN None ELSE Promise!Start
  BY <1>1 DEF Init, Contents
<1> HIDE DEF Promise!Start
<1> QED
  BY <1>2, PromiseBranches DEF Promise!Init

\* The commit of a method lands as one step: a commit, a registration or a promotion.
LEMMA CommitStores ==
  ASSUME StoreStep, Commit
  PROVE  [Promise!Next]_Stored
<1> DEFINE t == tip[head]
<1>1. /\ cs.want \in Trees /\ head \in Branches /\ cs.by # None
      /\ tip' = [tip EXCEPT ![head] = cs.want] /\ tip \in [Branches -> Trees \cup {None}]
      /\ t \in Trees /\ tip["dev"] \in Trees
      /\ Consistent(t) /\ Consistent(tip["dev"])
      /\ head = Target /\ cs.ids \subseteq Artifacts
  BY CommitIs
<1>2. Contents(cs.want) = cs.want.art /\ cs.want.art # None
  BY <1>1, NoneIsNoTree DEF Contents, Trees
<1>3. Stored' = [Stored EXCEPT ![head] = cs.want.art]
  BY <1>1, <1>2 DEF Stored
<1>4. /\ Stored[head] = t.art /\ Stored[head] # None /\ Stored["dev"] = tip["dev"].art
      /\ Stored'[head] = cs.want.art
  BY <1>1, <1>3, StoredIs, Basics DEF Stored
<1>5. CASE cs.op = "commit" /\ WantsCommit
  <2>1. head # "stable"
    <3>1. cs.todo = <<seen[cs.by].branch>> /\ seen[cs.by].branch # "stable"
      BY <1>1, <1>5 DEF StoreStep, StoreInv, OneInv, TypeInv, Itinerary
    <3> QED
      BY <1>1, <3>1 DEF Target
  <2>2. \A a \in Artifacts : a \notin cs.ids => cs.want.art[a] = t.art[a]
    BY <1>5 DEF WantsCommit
  <2>3. cs.want.art = [a \in Artifacts |-> IF a \in cs.ids THEN cs.want.art[a] ELSE t.art[a]]
    BY <1>1, <2>2 DEF Trees
  <2>4. CASE cs.ids = {}
    <3>1. cs.want.art = t.art
      BY <1>1, <2>2, <2>4 DEF Trees
    <3>2. Stored' = Stored
      BY <1>3, <1>4, <3>1 DEF Stored
    <3> QED
      BY <3>2
  <2>5. CASE cs.ids # {}
    <3>1. \A a \in cs.ids :
            /\ Stored'[head][a].version = Stored[head][a].version + 1
            /\ head = "dev" => Stored[head][a].state \subseteq Stored'[head][a].state
      BY <1>1, <1>4, <1>5 DEF WantsCommit, Consistent
    <3>2. Stored' = [Stored EXCEPT ![head] =
                       [a \in Artifacts |-> IF a \in cs.ids THEN Stored'[head][a] ELSE @[a]]]
      BY <1>3, <1>4, <2>3
    <3>3. Promise!Commit(head, cs.ids)
      BY <1>2, <1>4, <3>1, <3>2 DEF Promise!Commit, Stored
    <3>4. head \in Promise!Live \ {"stable"}
      <4>1. Promise!Live = {b \in Branches : Stored[b] # None}
        BY PromiseBranches DEF Promise!Live, Stored
      <4> QED
        BY <1>1, <1>4, <2>1, <4>1
    <3>5. cs.ids \in (SUBSET Artifacts) \ {{}}
      BY <1>1, <2>5
    <3> QED
      BY <3>3, <3>4, <3>5 DEF Promise!Next
  <2> QED
    BY <2>4, <2>5
<1>6. CASE /\ cs.op = "register" /\ WantsRegister
           /\ head \in {"dev", "stable"} /\ \E a \in Artifacts : cs.ids = {a}
  <2>1. PICK a \in Artifacts : cs.ids = {a}
    BY <1>6
  <2>2. t.vv[a] = 0 /\ cs.want = Put(t, a, 1, {})
    BY <1>6, <2>1 DEF WantsRegister
  <2>3. Stored[head][a].version = 0
    BY <1>1, <1>4, <2>2 DEF Consistent
  <2>4. cs.want.art = [t.art EXCEPT ![a] = [version |-> 1, state |-> {}]]
    BY <2>2 DEF Put
  <2>5. Stored' = [Stored EXCEPT ![head][a] = [version |-> 1, state |-> {}]]
    BY <1>3, <1>4, <2>4
  <2>6. Promise!Register(head, a)
    BY <2>3, <2>5 DEF Promise!Register, Stored
  <2> QED
    BY <1>6, <2>6 DEF Promise!Next
<1>7. CASE /\ cs.op = "promote" /\ WantsPromote
           /\ head = "stable" /\ \E a \in Artifacts : cs.ids = {a}
  <2>1. PICK a \in Artifacts : cs.ids = {a}
    BY <1>7
  <2>2. tip["dev"].vv[a] > 0 /\ cs.want = Put(t, a, t.vv[a] + 1, tip["dev"].art[a].state)
    BY <1>7, <2>1 DEF WantsPromote
  <2>3. Stored["dev"][a].version > 0 /\ Stored["stable"][a].version = t.vv[a]
    BY <1>1, <1>4, <1>7, <2>2 DEF Consistent
  <2>4. cs.want.art = [t.art EXCEPT ![a] = [version |-> t.vv[a] + 1, state |-> tip["dev"].art[a].state]]
    BY <2>2 DEF Put
  <2>5. Stored' = [Stored EXCEPT !["stable"][a] =
                     [version |-> @.version + 1, state |-> Stored["dev"][a].state]]
    BY <1>3, <1>4, <1>7, <2>3, <2>4
  <2>6. Promise!Promote(a)
    BY <2>3, <2>5 DEF Promise!Promote, Stored
  <2> QED
    BY <2>6 DEF Promise!Next
<1> QED
  BY <1>5, <1>6, <1>7, CommitIs

LEMMA ElsewhereStores ==
  ASSUME StoreStep, Fork \/ DiscardHead
  PROVE  [Promise!Next]_Stored
<1>1. cs.by # None /\ cs.op \in {"fork", "discard"} /\ TypeInv
  BY DEF Fork, DiscardHead, In, StoreStep, StoreInv, OneInv
<1>2. /\ cs.name \in Heads /\ cs.name \in Branches
      /\ head \in Branches /\ tip \in [Branches -> Trees \cup {None}] /\ tip[head] \in Trees
  BY <1>1, Basics DEF TypeInv, Itinerary, TypeOK, StoreStep, StoreInv, Alive
<1>3. head \in Promise!Live
  <2>1. Promise!Live = {b \in Branches : Stored[b] # None}
    BY PromiseBranches DEF Promise!Live, Stored
  <2> QED
    BY <1>2, <2>1, StoredIs
<1>4. CASE tip' = tip
  BY <1>4 DEF Stored
<1>5. CASE tip' = [tip EXCEPT ![cs.name] = tip[head]]
  <2>1. Stored' = [Stored EXCEPT ![cs.name] = Stored[head]]
    BY <1>2, <1>5 DEF Stored
  <2>2. Promise!Fork(cs.name, head)
    BY <2>1 DEF Promise!Fork, Stored
  <2> QED
    BY <1>2, <1>3, <2>2 DEF Promise!Next
<1>6. CASE tip' = [tip EXCEPT ![cs.name] = None]
  <2>1. Stored' = [Stored EXCEPT ![cs.name] = None]
    BY <1>2, <1>6 DEF Stored, Contents
  <2>2. Promise!Discard(cs.name)
    BY <2>1 DEF Promise!Discard, Stored
  <2> QED
    BY <1>2, <2>2 DEF Promise!Next
<1> QED
  BY <1>4, <1>5, <1>6 DEF Fork, DiscardHead

\* Everything else leaves the tips alone.
LEMMA NothingStores ==
  ASSUME [Next]_vars, ~Commit, ~Fork, ~DiscardHead
  PROVE  UNCHANGED Stored
<1>1. tip' = tip
  BY DEF Next, vars, repo, Work, Begin, BeginSnapshot, BeginCommit, BeginRegister, BeginPromote,
     BeginFork, BeginDiscard, Enter, Checkout, GitCheckout, Write, Add, Return, Snapshot,
     CheckCommit, Register, Promote, GitFails, WriteFails, Reopen, Crash
<1> QED
  BY <1>1 DEF Stored

\* Whatever the threads of one process do, in whatever order, and whichever of their writes fail,
\* the repository is a store whose operations are each one atomic step: all the artifacts of a
\* commit land or none, each with the next version, on top of what dev held; stable receives only
\* what dev holds; a checkout, a failed write and a reopening change nothing.
THEOREM StoreImplemented ==
  ASSUME OneInstance, OnlyWritesFail
  PROVE  Spec => ImplementsStore
<1>1. StoreInv /\ [Next]_vars => StoreInv'
  BY StoreInductive
<1>2. StoreInv /\ [Next]_vars => [Promise!Next]_Stored
  <2> SUFFICES ASSUME StoreInv, [Next]_vars PROVE [Promise!Next]_Stored
    OBVIOUS
  <2>1. StoreStep
    BY DEF StoreStep, OneStep, StoreInv
  <2> QED
    BY <2>1, CommitStores, ElsewhereStores, NothingStores
<1>3. Init => Promise!Init
  BY PromiseInit
<1> QED
  BY StoreInit, <1>1, <1>2, <1>3, PTL DEF Spec, ImplementsStore, Promise!Spec, Stored

(***************************************************************************)
(* Any processes, any faults: no commit to dev is lost                     *)
(***************************************************************************)
DevStep == DevOnly /\ DevInv

LEMMA DevInit == Init => DevInv
<1> SUFFICES ASSUME Init PROVE DevInv
  OBVIOUS
<1>1. TypeInv /\ cs = Free
  BY TypeInit DEF Init
<1>2. tip["dev"] = Start /\ tip["stable"] = Start
  BY LedgerAssumption, Basics DEF Init
<1>3. StaysOnDev
  BY <1>2, Basics DEF Init, StaysOnDev, Free, Visiting, NoSnapshot
<1>4. AckedKept /\ SeenNotStale
  BY Basics DEF Init, AckedKept, SeenNotStale, NoSnapshot
<1>5. CommitKeeps
  BY <1>1 DEF Free, CommitKeeps
<1> QED
  BY <1>1, <1>3, <1>4, <1>5 DEF DevInv

\* A section of these methods is a snapshot of dev or a commit to it.
LEMMA DevSection ==
  ASSUME DevStep, cs.by # None
  PROVE  /\ cs.op \in {"snapshot", "commit"} /\ cs.todo = <<"dev">> /\ Target = "dev"
         /\ cs.by \in Writers /\ cs.ids \subseteq Artifacts
         /\ cs.op = "commit" => seen[cs.by].branch = "dev"
         /\ cs.at \in Writing => cs.op = "commit"
         /\ cs.at # "checkout" => head = "dev"
<1>1. cs.op \in {"snapshot", "commit"} /\ cs.todo = <<"dev">> /\ TypeInv
  BY DEF DevStep, DevInv, StaysOnDev
<1>2. cs.by \in Writers /\ cs.ids \subseteq Artifacts
  BY <1>1, SectionParts
<1>3. cs.op = "commit" => seen[cs.by].branch = "dev"
  BY <1>1, <1>2 DEF TypeInv, Itinerary, DevStep, DevInv, StaysOnDev
<1>4. cs.at \in Writing => cs.op = "commit"
  BY <1>1 DEF TypeInv, Itinerary
<1>5. Target = "dev" /\ cs.todo # <<>>
  BY <1>1 DEF Target
<1>6. cs.at # "checkout" => head = "dev"
  BY <1>5 DEF DevStep, DevInv, StaysOnDev, Visiting
<1> QED
  BY <1>1, <1>2, <1>3, <1>4, <1>5, <1>6

\* The repository is as it was, and so are the snapshots; the section is at its start or over.
LEMMA QuietKeepsDev ==
  ASSUME DevStep, TypeInv', UNCHANGED <<repo, cached, seen, acked>>,
         Leave \/ /\ cs'.at = "checkout" /\ cs'.op \in {"snapshot", "commit"}
                  /\ cs'.todo = <<"dev">>
  PROVE  DevInv'
<1>1. cs'.at \in {"checkout", "body"} /\ ~Visiting'
      /\ (cs'.by # None => cs'.op \in {"snapshot", "commit"} /\ cs'.todo = <<"dev">>)
  BY FreeParts DEF Visiting
<1>2. StaysOnDev'
  BY <1>1 DEF DevStep, DevInv, StaysOnDev, repo
<1>3. AckedKept' /\ SeenNotStale'
  BY DEF DevStep, DevInv, AckedKept, SeenNotStale, repo
<1>4. CommitKeeps'
  BY <1>1 DEF CommitKeeps
<1> QED
  BY <1>2, <1>3, <1>4 DEF DevInv

LEMMA BeginKeepsDev ==
  ASSUME DevStep, NEW w \in Writers, Begin(w)
  PROVE  DevInv'
<1>1. TypeInv'
  BY BeginKeepsType DEF DevStep, DevInv
<1>2. \/ \E b \in Readable : BeginSnapshot(w, b)
      \/ \E ids \in SUBSET Artifacts : BeginCommit(w, ids)
  <2>1. ASSUME NEW a \in Artifacts PROVE {a} \in SUBSET Artifacts
    OBVIOUS
  <2>2. Artifacts \in SUBSET Artifacts
    OBVIOUS
  <2> QED
    BY <2>1, <2>2, Zenon DEF Begin, DevStep, DevOnly
<1>3. ASSUME NEW op \in {"snapshot", "commit"}, NEW ids, Enter(w, op, ids, "dev", <<"dev">>)
      PROVE  DevInv'
  <2>1. cs'.at = "checkout" /\ cs'.op = op /\ cs'.todo = <<"dev">>
        /\ UNCHANGED <<repo, cached, seen, acked>>
    BY <1>3 DEF Enter, Free
  <2> QED
    BY <1>1, <2>1, QuietKeepsDev
<1>4. ASSUME NEW b \in Readable, BeginSnapshot(w, b) PROVE DevInv'
  BY <1>3, <1>4 DEF BeginSnapshot, DevStep, DevOnly
<1>5. ASSUME NEW ids \in SUBSET Artifacts, BeginCommit(w, ids) PROVE DevInv'
  <2>1. seen[w].branch = "dev"
    BY <1>5 DEF BeginCommit, DevStep, DevInv, StaysOnDev
  <2> QED
    BY <1>3, <1>5, <2>1 DEF BeginCommit
<1> QED
  BY <1>2, <1>4, <1>5

\* A checkout of dev changes HEAD alone: what is staged, or left behind, stays.
LEMMA DevCheckout ==
  ASSUME DevStep, tip["dev"] \in Trees, NEW side \in Trees
  PROVE  AfterCheckout(side, "dev") = side
<1>1. tip[head] = tip["dev"]
  BY DEF DevStep, DevInv, StaysOnDev
<1>2. AfterCheckout(side, "dev") = [vv |-> side.vv, art |-> [a \in Artifacts |-> side.art[a]]]
  BY <1>1 DEF AfterCheckout, Keeps
<1>3. side = [vv |-> side.vv, art |-> side.art] /\ side.art = [a \in Artifacts |-> side.art[a]]
  BY DEF Trees
<1> QED
  BY <1>2, <1>3

LEMMA CheckoutKeepsDev ==
  ASSUME DevStep, Checkout
  PROVE  DevInv'
<1>1. TypeInv' /\ TypeInv
  BY CheckoutKeepsType DEF DevStep, DevInv
<1>2. /\ cs.by # None /\ cs.at = "checkout" /\ Target = "dev" /\ UNCHANGED <<seen, writes, acked>>
      /\ cs.op \in {"snapshot", "commit"} /\ cs.todo = <<"dev">>
      /\ tip \in [Branches -> Trees \cup {None}] /\ index \in Trees /\ tree \in Trees
      /\ cached \in [Instances -> Branches \cup {None}]
  BY <1>1, DevSection DEF Checkout, client, TypeInv, TypeOK
<1>3. CASE Leave /\ UNCHANGED <<repo, cached>>
  BY <1>1, <1>2, <1>3, QuietKeepsDev
<1>4. CASE /\ Goto("body") /\ UNCHANGED <<tip, index, tree>> /\ head' = "dev"
           /\ \A i \in Instances : cached'[i] \in {cached[i], "dev"}
  <2>1. cs'.at = "body" /\ cs'.op = cs.op /\ cs'.todo = cs.todo
    BY <1>1, <1>4, GotoParts
  <2>2. StaysOnDev'
    BY <1>2, <1>4, <2>1 DEF DevStep, DevInv, StaysOnDev
  <2>3. AckedKept' /\ SeenNotStale'
    BY <1>2, <1>4 DEF DevStep, DevInv, AckedKept, SeenNotStale
  <2>4. CommitKeeps'
    BY <2>1 DEF CommitKeeps
  <2> QED
    BY <1>1, <2>2, <2>3, <2>4 DEF DevInv
<1>5. CASE AtBranch("dev") /\ Goto("body") /\ UNCHANGED <<repo, cached>>
  <2>1. me \in Instances
    BY <1>2, DevSection, LedgerAssumption DEF me
  <2>2. head = "dev"
    BY <1>5, <2>1 DEF AtBranch, DevStep, DevInv, StaysOnDev
  <2> QED
    BY <1>4, <1>5, <2>2 DEF repo
<1>6. CASE GitCheckout("dev") /\ cached' = [cached EXCEPT ![me] = "dev"] /\ Goto("body")
  <2>1. tip["dev"] \in Trees
    BY <1>2, <1>6, Basics DEF GitCheckout, CanCheckout
  <2>2. index' = index /\ tree' = tree /\ head' = "dev" /\ tip' = tip
    BY <1>2, <1>6, <2>1, DevCheckout DEF GitCheckout
  <2>3. \A i \in Instances : cached'[i] \in {cached[i], "dev"}
    BY <1>2, <1>6
  <2> QED
    BY <1>4, <1>6, <2>2, <2>3
<1> QED
  BY <1>2, <1>3, <1>5, <1>6 DEF Checkout

LEMMA NatOrder ==
  ASSUME NEW x \in Nat, NEW y \in Nat, x <= y
  PROVE  x < y + 1 /\ x <= y + 1 /\ x # y + 1
OBVIOUS

LEMMA WriteKeepsDev ==
  ASSUME DevStep, Write
  PROVE  DevInv'
<1>1. TypeInv' /\ TypeInv
  BY WriteKeepsType DEF DevStep, DevInv
<1>2. /\ cs.by # None /\ cs.at = "write" /\ cs.op = "commit" /\ cs.todo = <<"dev">>
      /\ head = "dev" /\ cs.ids \subseteq Artifacts
      /\ tree \in Trees /\ cs.want \in Trees
      /\ UNCHANGED <<tip, head, index, cached, seen, writes, acked>>
  BY <1>1, DevSection, SectionParts DEF Write, client, Writing, TypeInv, TypeOK
<1>3. /\ cs.before.vv = tree.vv
      /\ \A a \in Artifacts :
            /\ acked[a] \subseteq cs.before.art[a].state
            /\ a \in cs.ids =>
                 /\ acked[a] \subseteq cs.want.art[a].state /\ writes \in cs.want.art[a].state
                 /\ cs.want.vv[a] = tree.vv[a] + 1
            /\ a \notin cs.ids => cs.want.vv[a] = tree.vv[a]
  BY <1>2 DEF DevStep, DevInv, CommitKeeps
<1>4. ASSUME NEW a \in cs.ids, tree' = [tree EXCEPT !.art[a] = cs.want.art[a]], cs' = cs
      PROVE  DevInv'
  <2>1. /\ tree'.vv = tree.vv
        /\ \A b \in Artifacts : tree'.art[b] = IF b = a THEN cs.want.art[a] ELSE tree.art[b]
    BY <1>2, <1>4 DEF Trees
  <2>2. StaysOnDev'
    BY <1>2, <1>4 DEF DevStep, DevInv, StaysOnDev, Visiting
  <2>3. AckedKept'
    BY <1>2, <1>3, <2>1 DEF DevStep, DevInv, AckedKept
  <2>4. SeenNotStale'
    BY <1>2, <2>1 DEF DevStep, DevInv, SeenNotStale
  <2>5. CommitKeeps'
    BY <1>2, <1>3, <1>4, <2>1 DEF CommitKeeps
  <2> QED
    BY <1>1, <2>2, <2>3, <2>4, <2>5 DEF DevInv
<1>5. CASE /\ \A a \in cs.ids : tree.art[a] = cs.want.art[a]
           /\ tree' = [tree EXCEPT !.vv = cs.want.vv] /\ Goto("add")
  <2>1. tree'.vv = cs.want.vv /\ tree'.art = tree.art
    BY <1>2, <1>5 DEF Trees
  <2>2. /\ cs'.by = cs.by /\ cs'.at = "add" /\ cs'.op = cs.op /\ cs'.todo = cs.todo
        /\ cs'.ids = cs.ids
    BY <1>1, <1>5, GotoParts
  <2>3. StaysOnDev'
    BY <1>2, <2>2 DEF DevStep, DevInv, StaysOnDev, Visiting
  <2>4. AckedKept'
    BY <1>2, <2>1 DEF DevStep, DevInv, AckedKept
  <2>5. ASSUME NEW w \in Writers, NEW a \in Artifacts, seen[w].branch = "dev"
        PROVE  /\ seen[w].tree.vv[a] <= tree'.vv[a]
               /\ seen[w].tree.vv[a] = tree'.vv[a] => acked[a] \subseteq seen[w].tree.art[a].state
               /\ a \in cs.ids => seen[w].tree.vv[a] < tree'.vv[a]
    <3> DEFINE x == seen[w].tree.vv[a]
               y == tree.vv[a]
    <3>1. x \in Nat /\ y \in Nat
      BY <1>1, <1>2 DEF TypeInv, TypeOK, Trees
    <3>2. x <= y /\ (x = y => acked[a] \subseteq seen[w].tree.art[a].state)
      BY <2>5 DEF DevStep, DevInv, SeenNotStale
    <3>3. tree'.vv[a] = IF a \in cs.ids THEN y + 1 ELSE y
      BY <1>3, <2>1
    <3> HIDE DEF x, y
    <3>4. x < y + 1 /\ x <= y + 1 /\ x # y + 1
      BY <3>1, <3>2, NatOrder
    <3>5. CASE a \in cs.ids
      BY <3>3, <3>4, <3>5 DEF x
    <3>6. CASE a \notin cs.ids
      BY <3>2, <3>3, <3>6 DEF x
    <3> QED
      BY <3>5, <3>6
  <2>6. SeenNotStale'
    BY <1>2, <2>5 DEF SeenNotStale
  <2>7. CommitKeeps'
    BY <1>2, <1>3, <1>5, <2>1, <2>2, <2>5 DEF CommitKeeps
  <2> QED
    BY <1>1, <2>3, <2>4, <2>6, <2>7 DEF DevInv
<1> QED
  <2>1. \/ \E a \in cs.ids : tree' = [tree EXCEPT !.art[a] = cs.want.art[a]] /\ cs' = cs
        \/ /\ {a \in cs.ids : tree.art[a] # cs.want.art[a]} = {}
           /\ tree' = [tree EXCEPT !.vv = cs.want.vv] /\ Goto("add")
    BY DEF Write
  <2> QED
    BY <1>4, <1>5, <2>1

LEMMA AddKeepsDev ==
  ASSUME DevStep, Add
  PROVE  DevInv'
<1>1. TypeInv' /\ TypeInv
  BY AddKeepsType DEF DevStep, DevInv
<1>2. /\ cs.by # None /\ cs.at = "add" /\ cs.op = "commit" /\ cs.todo = <<"dev">>
      /\ head = "dev" /\ cs.ids \subseteq Artifacts /\ index' = tree
      /\ UNCHANGED <<tip, head, tree, cached, seen, writes, acked>>
  BY DevSection DEF Add, client, Writing
<1>3. /\ cs'.by = cs.by /\ cs'.at = "commit" /\ cs'.op = cs.op /\ cs'.todo = cs.todo
      /\ cs'.ids = cs.ids
  BY <1>1, GotoParts DEF Add
<1>4. StaysOnDev' /\ AckedKept' /\ SeenNotStale'
  BY <1>2, <1>3 DEF DevStep, DevInv, StaysOnDev, Visiting, AckedKept, SeenNotStale
<1>5. CommitKeeps'
  BY <1>2, <1>3 DEF DevStep, DevInv, CommitKeeps
<1> QED
  BY <1>1, <1>4, <1>5 DEF DevInv

LEMMA CommitKeepsDev ==
  ASSUME DevStep, Commit
  PROVE  DevInv'
<1>1. TypeInv' /\ TypeInv
  BY CommitKeepsType DEF DevStep, DevInv
<1>2. /\ cs.by # None /\ cs.at = "commit" /\ cs.op = "commit" /\ cs.todo = <<"dev">>
      /\ head = "dev" /\ cs.ids \subseteq Artifacts
      /\ UNCHANGED <<head, index, tree, cached, seen, writes, acked>>
      /\ tip' = [tip EXCEPT !["dev"] = index] /\ tip \in [Branches -> Trees \cup {None}]
  BY <1>1, DevSection DEF Commit, GitCommit, client, Writing, TypeInv, TypeOK
<1>3. /\ cs'.by = cs.by /\ cs'.at = "rev" /\ cs'.op = cs.op /\ cs'.todo = cs.todo
      /\ cs'.ids = cs.ids
  BY <1>1, GotoParts DEF Commit
<1>4. tip'["dev"] = index
  BY <1>2, Basics
<1>5. StaysOnDev'
  BY <1>2, <1>3 DEF DevStep, DevInv, StaysOnDev, Visiting
<1>6. AckedKept' /\ SeenNotStale'
  BY <1>2, <1>4 DEF DevStep, DevInv, AckedKept, SeenNotStale
<1>7. CommitKeeps'
  BY <1>2, <1>3, <1>4 DEF DevStep, DevInv, CommitKeeps
<1> QED
  BY <1>1, <1>5, <1>6, <1>7 DEF DevInv

LEMMA ReturnKeepsDev ==
  ASSUME DevStep, Return
  PROVE  DevInv'
<1>1. TypeInv' /\ TypeInv
  BY ReturnKeepsType DEF DevStep, DevInv
<1>2. /\ cs.by # None /\ cs.at = "rev" /\ cs.op = "commit" /\ cs.todo = <<"dev">>
      /\ head = "dev" /\ cs.ids \subseteq Artifacts
      /\ UNCHANGED <<repo, cached, seen, writes>>
      /\ acked \in [Artifacts -> SUBSET Nat]
      /\ acked' = [a \in Artifacts |-> acked[a] \cup (IF a \in cs.ids THEN {writes} ELSE {})]
  BY <1>1, DevSection DEF Return, Writing, TypeInv, TypeOK
<1>3. Leave
  <2>1. Len(cs.todo) = 1
    BY <1>2
  <2>2. ~(1 > 1)
    OBVIOUS
  <2> QED
    BY <2>1, <2>2, Zenon DEF Return, Advance
<1>4. cs'.by = None /\ ~Visiting'
  BY <1>3, FreeParts DEF Visiting
<1>5. StaysOnDev'
  BY <1>2, <1>4 DEF DevStep, DevInv, StaysOnDev, repo
<1>6. \A a \in cs.ids :
        /\ writes \in tree.art[a].state /\ writes \in index.art[a].state
        /\ writes \in tip["dev"].art[a].state
        /\ \A w \in Writers : seen[w].branch = "dev" => seen[w].tree.vv[a] < tree.vv[a]
  BY <1>2 DEF DevStep, DevInv, CommitKeeps
<1>7. AckedKept'
  BY <1>2, <1>6 DEF DevStep, DevInv, AckedKept, repo
<1>8. SeenNotStale'
  <2>1. ASSUME NEW w \in Writers, NEW a \in Artifacts, seen[w].branch = "dev",
               seen[w].tree.vv[a] = tree.vv[a]
        PROVE  acked'[a] \subseteq seen[w].tree.art[a].state
    <3>1. acked[a] \subseteq seen[w].tree.art[a].state
      BY <2>1 DEF DevStep, DevInv, SeenNotStale
    <3>2. a \notin cs.ids
      <4>1. tree.vv[a] \in Nat
        BY <1>1 DEF TypeInv, TypeOK, Trees
      <4>2. PICK n \in Nat : n = tree.vv[a]
        BY <4>1
      <4>3. ~(n < n)
        OBVIOUS
      <4> QED
        BY <1>6, <2>1, <4>2, <4>3
    <3> QED
      BY <1>2, <3>1, <3>2
  <2> QED
    BY <1>2, <2>1 DEF DevStep, DevInv, SeenNotStale, repo
<1>9. CommitKeeps'
  BY <1>4 DEF CommitKeeps
<1> QED
  BY <1>1, <1>5, <1>7, <1>8, <1>9 DEF DevInv

LEMMA SnapshotKeepsDev ==
  ASSUME DevStep, Snapshot
  PROVE  DevInv'
<1>1. TypeInv' /\ TypeInv
  BY SnapshotKeepsType DEF DevStep, DevInv
<1>2. /\ cs.by \in Writers /\ Target = "dev"
      /\ UNCHANGED <<repo, cached, writes, acked>>
      /\ seen' = [seen EXCEPT ![cs.by] = [branch |-> Target, tree |-> tree]]
      /\ seen \in [Writers -> [branch : Branches \cup {None}, tree : Trees]]
      /\ cs'.by = None /\ ~Visiting'
  BY <1>1, DevSection, FreeParts DEF Snapshot, In, TypeInv, TypeOK, Visiting
<1>3. \A w \in Writers : seen'[w] = IF w = cs.by THEN [branch |-> "dev", tree |-> tree] ELSE seen[w]
  BY <1>2
<1>4. StaysOnDev'
  BY <1>2, <1>3 DEF DevStep, DevInv, StaysOnDev, repo
<1>5. AckedKept'
  BY <1>2 DEF DevStep, DevInv, AckedKept, repo
<1>6. SeenNotStale'
  <2>1. ASSUME NEW w \in Writers, NEW a \in Artifacts, seen'[w].branch = "dev"
        PROVE  /\ seen'[w].tree.vv[a] <= tree.vv[a]
               /\ seen'[w].tree.vv[a] = tree.vv[a] => acked[a] \subseteq seen'[w].tree.art[a].state
    <3>1. CASE w = cs.by
      <4>1. seen'[w].tree = tree /\ tree.vv[a] \in Nat
        BY <1>1, <1>3, <3>1 DEF TypeInv, TypeOK, Trees
      <4> QED
        BY <4>1 DEF DevStep, DevInv, AckedKept
    <3>2. CASE w # cs.by
      BY <1>3, <2>1, <3>2 DEF DevStep, DevInv, SeenNotStale
    <3> QED
      BY <3>1, <3>2
  <2> QED
    BY <1>2, <2>1 DEF SeenNotStale, repo
<1>7. CommitKeeps'
  BY <1>2 DEF CommitKeeps
<1> QED
  BY <1>1, <1>4, <1>5, <1>6, <1>7 DEF DevInv

LEMMA CheckCommitKeepsDev ==
  ASSUME DevStep, CheckCommit
  PROVE  DevInv'
<1>1. TypeInv' /\ TypeInv
  BY CheckCommitKeepsType DEF DevStep, DevInv
<1>2. /\ cs.by \in Writers /\ cs.by # None /\ cs.op = "commit" /\ cs.at = "body"
      /\ cs.todo = <<"dev">> /\ head = "dev" /\ cs.ids \subseteq Artifacts
      /\ seen[cs.by].branch = "dev"
      /\ UNCHANGED <<repo, cached, seen, writes, acked>>
  BY DevSection DEF CheckCommit, In, client
<1>3. CASE Leave
  BY <1>1, <1>2, <1>3, QuietKeepsDev
<1>4. CASE Stage(Candidate(cs.ids)) /\ \A a \in cs.ids : BaseIsHead(a)
  <2> DEFINE want == Candidate(cs.ids)
  <2>1. ASSUME NEW a \in Artifacts
        PROVE  /\ a \in cs.ids =>
                    /\ acked[a] \subseteq want.art[a].state /\ writes \in want.art[a].state
                    /\ want.vv[a] = tree.vv[a] + 1
               /\ a \notin cs.ids => want.vv[a] = tree.vv[a]
    <3>1. CASE a \in cs.ids
      <4>1. /\ want.vv[a] = tree.vv[a] + 1
            /\ want.art[a].state = seen[cs.by].tree.art[a].state \cup {writes}
        BY <3>1 DEF Candidate
      <4>2. acked[a] \subseteq seen[cs.by].tree.art[a].state
        BY <1>2, <1>4, <3>1 DEF BaseIsHead, DevStep, DevInv, SeenNotStale
      <4> QED
        BY <3>1, <4>1, <4>2
    <3>2. CASE a \notin cs.ids
      <4>1. tree.vv[a] \in Nat
        BY <1>1 DEF TypeInv, TypeOK, Trees
      <4> QED
        BY <3>2, <4>1 DEF Candidate
    <3> QED
      BY <3>1, <3>2
  <2>2. Stage(want)
    BY <1>4
  <2> HIDE DEF want
  <2>3. /\ cs'.by = cs.by /\ cs'.at = "write" /\ cs'.op = cs.op /\ cs'.todo = cs.todo
        /\ cs'.ids = cs.ids /\ cs'.want = want /\ cs'.before = tree
    BY <1>1, <2>2, StageParts
  <2>4. StaysOnDev'
    BY <1>2, <2>3 DEF DevStep, DevInv, StaysOnDev, Visiting, repo
  <2>5. AckedKept' /\ SeenNotStale'
    BY <1>2 DEF DevStep, DevInv, AckedKept, SeenNotStale, repo
  <2>6. \A a \in Artifacts : acked[a] \subseteq tree.art[a].state
    BY DEF DevStep, DevInv, AckedKept
  <2>7. CommitKeeps'
    BY <1>2, <2>1, <2>3, <2>6 DEF CommitKeeps, repo
  <2> QED
    BY <1>1, <2>4, <2>5, <2>7 DEF DevInv
<1> QED
  BY <1>3, <1>4 DEF CheckCommit

LEMMA WriteFailsKeepsDev ==
  ASSUME DevStep, WriteFails
  PROVE  DevInv'
<1>1. TypeInv' /\ TypeInv
  BY WriteFailsKeepsType DEF DevStep, DevInv
<1>2. /\ cs.by # None /\ cs.at = "write" /\ cs.op = "commit" /\ Leave
      /\ UNCHANGED <<tip, head, index, cached, seen, acked>>
      /\ tree' \in {tree, cs.before}
  BY DevSection DEF WriteFails, client, Writing
<1>3. /\ cs.before.vv = tree.vv
      /\ \A a \in Artifacts : acked[a] \subseteq cs.before.art[a].state
  BY <1>2 DEF DevStep, DevInv, CommitKeeps
<1>4. cs'.by = None /\ ~Visiting'
  BY <1>2, FreeParts DEF Visiting
<1>5. StaysOnDev'
  BY <1>2, <1>4 DEF DevStep, DevInv, StaysOnDev
<1>6. AckedKept' /\ SeenNotStale'
  BY <1>2, <1>3 DEF DevStep, DevInv, AckedKept, SeenNotStale
<1>7. CommitKeeps'
  BY <1>4 DEF CommitKeeps
<1> QED
  BY <1>1, <1>5, <1>6, <1>7 DEF DevInv

\* An instance that is opened again has seen nothing and trusts nothing.
LEMMA FreshKeepsDev ==
  ASSUME DevStep, TypeInv', NEW i \in Instances, Fresh(i), UNCHANGED <<repo, writes, acked>>,
         cs' = cs \/ Leave
  PROVE  DevInv'
<1>1. TypeInv
  BY DEF DevStep, DevInv
<1>2. /\ \A w \in Writers : seen'[w] \in {NoSnapshot, seen[w]}
      /\ \A j \in Instances : cached'[j] \in {None, cached[j]}
  BY <1>1 DEF Fresh, TypeInv, TypeOK
<1>3. NoSnapshot.branch = None /\ None # "dev"
  BY Basics DEF NoSnapshot
<1>4. \A w \in Writers : seen'[w].branch = "dev" => seen'[w] = seen[w] /\ seen[w].branch = "dev"
  BY <1>2, <1>3
<1>5. cs'.by # None => cs' = cs
  BY FreeParts
<1>6. StaysOnDev'
  BY <1>2, <1>3, <1>5 DEF DevStep, DevInv, StaysOnDev, Visiting, repo
<1>7. AckedKept' /\ SeenNotStale'
  BY <1>4 DEF DevStep, DevInv, AckedKept, SeenNotStale, repo
<1>8. CommitKeeps'
  BY <1>4, <1>5 DEF DevStep, DevInv, CommitKeeps, repo
<1> QED
  BY <1>6, <1>7, <1>8 DEF DevInv

LEMMA DevInductive ==
  ASSUME DevOnly, DevInv, [Next]_vars
  PROVE  DevInv'
<1>1. DevStep
  BY DEF DevStep
<1>2. CASE UNCHANGED vars
  <2>1. TypeInv' /\ UNCHANGED <<repo, cached, cs, seen, writes, acked>>
    BY <1>2, StutterKeepsType DEF vars, client, DevInv
  <2> QED
    BY <2>1 DEF repo, DevInv, StaysOnDev, Visiting, AckedKept, SeenNotStale, CommitKeeps
<1>3. ASSUME NEW w \in Writers, Begin(w) PROVE DevInv'
  BY <1>1, <1>3, BeginKeepsDev
<1>4. ASSUME Work PROVE DevInv'
  <2>1. ~Register /\ ~Promote /\ ~Fork /\ ~DiscardHead
    BY <1>1, DevSection DEF Register, Promote, Fork, DiscardHead, In
  <2> QED
    BY <1>1, <1>4, <2>1, CheckoutKeepsDev, WriteKeepsDev, AddKeepsDev, CommitKeepsDev,
       ReturnKeepsDev, SnapshotKeepsDev, CheckCommitKeepsDev DEF Work
<1>5. ASSUME GitFails PROVE DevInv'
  <2>1. TypeInv' /\ Leave /\ UNCHANGED <<repo, cached, seen, acked>>
    BY <1>1, <1>5, GitFailsKeepsType DEF GitFails, client, DevStep, DevInv
  <2> QED
    BY <1>1, <2>1, QuietKeepsDev
<1>6. ASSUME NEW i \in Instances, Reopen(i) PROVE DevInv'
  <2>1. TypeInv' /\ Fresh(i) /\ UNCHANGED <<repo, writes, acked>> /\ cs' = cs
    BY <1>6, ReopenKeepsType DEF Reopen, DevInv
  <2> QED
    BY <1>1, <2>1, FreshKeepsDev
<1>7. ASSUME NEW i \in Instances, Crash(i) PROVE DevInv'
  <2>1. TypeInv' /\ Fresh(i) /\ UNCHANGED <<repo, writes, acked>> /\ Leave
    BY <1>7, CrashKeepsType DEF Crash, DevInv
  <2> QED
    BY <1>1, <2>1, FreshKeepsDev
<1> QED
  BY <1>1, <1>2, <1>3, <1>4, <1>5, <1>6, <1>7, WriteFailsKeepsDev DEF Next

\* A commit to dev that returned is never lost, whatever processes share the repository and
\* whatever fails in them: a git command, a write, its rollback, or the process itself.
THEOREM LosesNoUpdate ==
  ASSUME DevOnly
  PROVE  Spec => []NoLostUpdate
<1>1. DevInv /\ [Next]_vars => DevInv'
  BY DevInductive
<1>2. DevInv => NoLostUpdate
  BY DEF DevInv, AckedKept, NoLostUpdate
<1> QED
  BY DevInit, <1>1, <1>2, PTL DEF Spec
=============================================================================
