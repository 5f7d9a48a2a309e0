------------------------------- MODULE Ledger -------------------------------
(***************************************************************************)
(* The git-backed artifact store of agentdescent/ledger.py.  One           *)
(* repository, opened by one or more Ledger instances (processes) whose    *)
(* threads read snapshots and compare-and-swap commits against them.       *)
(*                                                                         *)
(* The repository is what git keeps: branch tips, HEAD, the index and the  *)
(* working tree.  Every public method runs inside _exclusive, which admits *)
(* one thread of one process; inside it each git command and each file     *)
(* replaced is one action, so that a command may fail, or the process die, *)
(* between any two.                                                        *)
(***************************************************************************)
EXTENDS Integers, Sequences, FiniteSets

CONSTANTS
  Writers,     \* threads that use a ledger
  Instances,   \* Ledger objects, one per process
  Home,        \* the instance each writer uses
  Artifacts,   \* artifact ids
  Registered,  \* the artifacts an earlier run left in the repository
  Heads,       \* names of live heads: head/0, head/1, ...
  None,        \* no branch, no lock holder
  Operations,  \* the methods the callers use
  Readable,    \* the branches they read and commit to
  MaxWrites,   \* bound on commits
  MaxStable,   \* bound on the version of an artifact on stable
  Faults,      \* what may go wrong: "git", "write", "rollback", "crash"
  MaxFaults    \* bound on faults

Branches == {"dev", "stable"} \cup Heads

ASSUME LedgerAssumption ==
  /\ Home \in [Writers -> Instances]
  /\ None \notin Branches \cup Writers
  /\ Heads \cap {"dev", "stable"} = {}
  /\ Registered \subseteq Artifacts
  /\ Readable \subseteq Branches
  /\ MaxWrites \in Nat /\ MaxStable \in Nat /\ MaxFaults \in Nat

VARIABLES
  tip,      \* the tree each branch points at
  head,     \* the branch HEAD names
  index,    \* git's index
  tree,     \* the working tree
  cached,   \* _current_branch of each instance
  cs,       \* the critical section: who is in _exclusive, and how far
  seen,     \* the snapshot each writer holds
  writes,   \* commits begun, the source of fresh diffs
  acked,    \* the diffs of commits to dev that returned, per artifact
  faults    \* faults so far

repo == <<tip, head, index, tree>>
client == <<seen, writes, acked>>
vars == <<repo, cached, cs, client, faults>>

\* versions.json and artifacts/<id>.json; a state is the set of diffs in it.
Payloads == [version : Nat, state : SUBSET Nat]
NoFile == [version |-> 0, state |-> {}]
Trees == [vv : [Artifacts -> Nat], art : [Artifacts -> Payloads]]
Empty == [vv |-> [a \in Artifacts |-> 0], art |-> [a \in Artifacts |-> NoFile]]

ASSUME NoneIsNoTree == None \notin Trees \cup [Artifacts -> Payloads]

\* The critical section: the caller, its method and arguments, the branches
\* still to visit, the next step, the files to write and what they replaced.
Methods == {"none", "snapshot", "commit", "register", "promote", "fork", "discard"}
Steps == {"checkout", "body", "write", "add", "commit", "rev"}
Sections ==
  [by : Writers \cup {None}, op : Methods, ids : SUBSET Artifacts,
   name : Branches, todo : Seq(Branches), at : Steps,
   want : Trees, before : Trees]

NoSnapshot == [branch |-> None, tree |-> Empty]

\* mutant of Put: the version is counted the wrong way
PutDown(content, a, v, s) ==
  [vv |-> [content.vv EXCEPT ![a] = @ - 1],
   art |-> [content.art EXCEPT ![a] = [version |-> v, state |-> s]]]

\* Artifact a at version v with state s, in the file and in the vector.
Put(content, a, v, s) ==
  [vv |-> [content.vv EXCEPT ![a] = v],
   art |-> [content.art EXCEPT ![a] = [version |-> v, state |-> s]]]
-----------------------------------------------------------------------------
(* git                                                                     *)

\* Two-way merge of one file on checkout from H to M: an index entry that
\* equals the target stays, an unchanged file stays, a clean file is switched,
\* anything else would be overwritten and git refuses.
Keeps(i, h, m) == i = m \/ h = m
Switchable(t, i, h, m) == Keeps(i, h, m) \/ (i = h /\ t = i)

CanCheckout(b) ==
  /\ tip[b] # None
  /\ Switchable(tree.vv, index.vv, tip[head].vv, tip[b].vv)
  /\ \A a \in Artifacts :
       Switchable(tree.art[a], index.art[a], tip[head].art[a], tip[b].art[a])

\* `side` is the index or the working tree: what git leaves in it.
AfterCheckout(side, b) ==
  [vv |-> IF Keeps(index.vv, tip[head].vv, tip[b].vv)
          THEN side.vv ELSE tip[b].vv,
   art |-> [a \in Artifacts |->
              IF Keeps(index.art[a], tip[head].art[a], tip[b].art[a])
              THEN side.art[a] ELSE tip[b].art[a]]]

GitCheckout(b) ==
  /\ CanCheckout(b)
  /\ head' = b
  /\ index' = AfterCheckout(index, b)
  /\ tree' = AfterCheckout(tree, b)
  /\ UNCHANGED tip

\* commit --allow-empty
GitCommit ==
  /\ tip' = [tip EXCEPT ![head] = index]
  /\ UNCHANGED <<head, index, tree>>
-----------------------------------------------------------------------------
(* The critical section                                                    *)

Free == [by |-> None, op |-> "none", ids |-> {}, name |-> "dev", todo |-> <<>>,
         at |-> "body", want |-> Empty, before |-> Empty]

me == Home[cs.by]
Target == Head(cs.todo)

Enter(w, op, ids, name, todo) ==
  /\ cs.by = None
  /\ cs' = [Free EXCEPT !.by = w, !.op = op, !.ids = ids, !.name = name,
                        !.todo = todo,
                        !.at = IF todo = <<>> THEN "body" ELSE "checkout"]
  /\ UNCHANGED <<repo, cached, seen, acked, faults>>

Leave == cs' = Free
Goto(at) == cs' = [cs EXCEPT !.at = at]

\* On to the next branch the method visits, or out.
Advance ==
  IF Len(cs.todo) > 1
  THEN cs' = [cs EXCEPT !.todo = Tail(@), !.at = "checkout"]
  ELSE Leave

\* Files to write: `want` in place of what the tree holds.
Stage(want) == cs' = [cs EXCEPT !.at = "write", !.want = want, !.before = tree]

TrustCache(b) == TRUE   \* mutant of AtBranch: nothing is ever checked out
AtBranch(b) == cached[me] = b

Checkout ==
  /\ cs.by # None /\ cs.at = "checkout"
  /\ \/ /\ AtBranch(Target)
        /\ Goto("body") /\ UNCHANGED <<repo, cached>>
     \/ /\ ~AtBranch(Target)
        /\ GitCheckout(Target)
        /\ cached' = [cached EXCEPT ![me] = Target]
        /\ Goto("body")
     \/ /\ ~AtBranch(Target) /\ ~CanCheckout(Target)
        /\ Leave /\ UNCHANGED <<repo, cached>>
  /\ UNCHANGED <<client, faults>>

In(op, at) == cs.by # None /\ cs.op = op /\ cs.at = at

\* _replace_file, one file at a time: the artifacts, then versions.json.
Write ==
  /\ cs.by # None /\ cs.at = "write"
  /\ LET left == {a \in cs.ids : tree.art[a] # cs.want.art[a]} IN
     \/ \E a \in left :
          tree' = [tree EXCEPT !.art[a] = cs.want.art[a]] /\ UNCHANGED cs
     \/ left = {} /\ tree' = [tree EXCEPT !.vv = cs.want.vv] /\ Goto("add")
  /\ UNCHANGED <<tip, head, index, cached, client, faults>>

\* git add -A
Add ==
  /\ cs.by # None /\ cs.at = "add"
  /\ index' = tree /\ Goto("commit")
  /\ UNCHANGED <<tip, head, tree, cached, client, faults>>

Commit ==
  /\ cs.by # None /\ cs.at = "commit"
  /\ GitCommit /\ Goto("rev")
  /\ UNCHANGED <<cached, client, faults>>

\* rev-parse: the method goes on or returns.
Return ==
  /\ cs.by # None /\ cs.at = "rev"
  /\ Advance
  /\ acked' = IF cs.op = "commit" /\ Target = "dev"
              THEN [a \in Artifacts |->
                      acked[a] \cup (IF a \in cs.ids THEN {writes} ELSE {})]
              ELSE acked
  /\ UNCHANGED <<repo, cached, seen, writes, faults>>
-----------------------------------------------------------------------------
(* The methods, up to their first write                                    *)

BeginSnapshot(w, b) ==
  Enter(w, "snapshot", {}, "dev", <<b>>) /\ UNCHANGED writes

Snapshot ==
  /\ In("snapshot", "body")
  /\ seen' = [seen EXCEPT ![cs.by] = [branch |-> Target, tree |-> tree]]
  /\ Leave /\ UNCHANGED <<repo, cached, writes, acked, faults>>

\* commit (one artifact) and commit_atomic (several): a fresh diff applied to
\* the states the writer saw, against the versions it saw.
BeginCommit(w, ids) ==
  /\ seen[w].branch \notin {None, "stable"}
  /\ \A a \in ids : seen[w].tree.vv[a] > 0
  /\ writes < MaxWrites /\ writes' = writes + 1
  /\ Enter(w, "commit", ids, "dev", <<seen[w].branch>>)

AnyBase(a) == TRUE   \* mutant of BaseIsHead
BaseIsHead(a) == tree.vv[a] = seen[cs.by].tree.vv[a]

Candidate(ids) ==
  [vv |-> [a \in Artifacts |-> tree.vv[a] + (IF a \in ids THEN 1 ELSE 0)],
   art |-> [a \in Artifacts |->
              IF a \in ids
              THEN [version |-> tree.vv[a] + 1,
                    state |-> seen[cs.by].tree.art[a].state \cup {writes}]
              ELSE tree.art[a]]]

\* CASConflict, ContractRejected or a state that cannot be encoded: nothing
\* has been written.
CheckCommit ==
  /\ In("commit", "body")
  /\ \/ (\A a \in cs.ids : BaseIsHead(a)) /\ Stage(Candidate(cs.ids))
     \/ Leave
  /\ UNCHANGED <<repo, cached, client, faults>>

BeginRegister(w, a) ==
  Enter(w, "register", {a}, "dev", <<"stable", "dev">>) /\ UNCHANGED writes

Register ==
  /\ In("register", "body")
  /\ \E a \in cs.ids :
       IF tree.vv[a] = 0 THEN Stage(Put(tree, a, 1, {})) ELSE Advance
  /\ UNCHANGED <<repo, cached, client, faults>>

BeginPromote(w, a) ==
  /\ tip["stable"].vv[a] < MaxStable
  /\ Enter(w, "promote", {a}, "dev", <<"dev", "stable">>) /\ UNCHANGED writes

\* Visits dev for the state to copy, then stable.
Promote ==
  /\ In("promote", "body")
  /\ \E a \in cs.ids :
       IF Target = "dev"
       THEN IF tree.vv[a] = 0 THEN Leave
            ELSE cs' = [cs EXCEPT !.todo = Tail(@), !.at = "checkout",
                                  !.want = tree]
       ELSE Stage(Put(tree, a, tree.vv[a] + 1, cs.want.art[a].state))
  /\ UNCHANGED <<repo, cached, client, faults>>

BeginFork(w, name, from) ==
  Enter(w, "fork", {}, name, <<from>>) /\ UNCHANGED writes

\* git branch -f: refused for the branch HEAD names.
Fork ==
  /\ In("fork", "body")
  /\ tip' = IF head = cs.name THEN tip ELSE [tip EXCEPT ![cs.name] = tip[head]]
  /\ Leave /\ UNCHANGED <<head, index, tree, cached, client, faults>>

BeginDiscard(w, name) ==
  /\ Enter(w, "discard", {}, name, IF cached[Home[w]] = name THEN <<"dev">> ELSE <<>>)
  /\ UNCHANGED writes

DiscardHead ==
  /\ In("discard", "body")
  /\ tip' = IF head = cs.name THEN tip ELSE [tip EXCEPT ![cs.name] = None]
  /\ Leave /\ UNCHANGED <<head, index, tree, cached, client, faults>>
-----------------------------------------------------------------------------
(* Faults and restarts                                                     *)

Fault(kind) == kind \in Faults /\ faults < MaxFaults /\ faults' = faults + 1

\* A git command fails or times out: GitError, and the lock is released.
GitFails ==
  /\ cs.by # None
  /\ cs.at \in {"add", "commit", "rev"} \/ (cs.at = "checkout" /\ ~AtBranch(Target))
  /\ Fault("git")
  /\ Leave /\ UNCHANGED <<repo, cached, client>>

\* A file cannot be replaced: the ones already replaced get their previous
\* bytes back, unless that fails too.
WriteFails ==
  /\ cs.by # None /\ cs.at = "write"
  /\ \/ Fault("write") /\ tree' = cs.before
     \/ Fault("rollback") /\ UNCHANGED tree
  /\ Leave /\ UNCHANGED <<tip, head, index, cached, client>>

\* The successor of a closed or dead instance starts with an empty cache.
Fresh(i) ==
  /\ cached' = [cached EXCEPT ![i] = None]
  /\ seen' = [w \in Writers |-> IF Home[w] = i THEN NoSnapshot ELSE seen[w]]

Reopen(i) ==
  /\ cs.by # None => me # i
  /\ Fresh(i)
  /\ UNCHANGED <<repo, cs, writes, acked, faults>>

\* The process dies inside its critical section; the file lock dies with it.
Crash(i) ==
  /\ cs.by # None /\ me = i
  /\ Fault("crash")
  /\ Fresh(i) /\ Leave
  /\ UNCHANGED <<repo, writes, acked>>
-----------------------------------------------------------------------------
Start ==
  LET v == [a \in Artifacts |-> IF a \in Registered THEN 1 ELSE 0] IN
  [vv |-> v, art |-> [a \in Artifacts |-> [version |-> v[a], state |-> {}]]]

\* The repository after genesis or an earlier run, opened by every instance.
Init ==
  /\ tip = [b \in Branches |-> IF b \in Heads THEN None ELSE Start]
  /\ head \in {"stable", "dev"}
  /\ index = Start /\ tree = Start
  /\ cached = [i \in Instances |-> None]
  /\ cs = Free
  /\ seen = [w \in Writers |-> NoSnapshot]
  /\ writes = 0 /\ acked = [a \in Artifacts |-> {}]
  /\ faults = 0

Begin(w) ==
  \/ "snapshot" \in Operations /\ \E b \in Readable : BeginSnapshot(w, b)
  \/ "commit" \in Operations /\ \E a \in Artifacts : BeginCommit(w, {a})
  \/ "commit_atomic" \in Operations /\ BeginCommit(w, Artifacts)
  \/ "register" \in Operations /\ \E a \in Artifacts : BeginRegister(w, a)
  \/ "promote_to_stable" \in Operations /\ \E a \in Artifacts : BeginPromote(w, a)
  \/ "fork" \in Operations
       /\ \E name \in Heads, from \in Readable : BeginFork(w, name, from)
  \/ "discard_head" \in Operations /\ \E name \in Heads : BeginDiscard(w, name)

Work ==
  \/ Checkout \/ Write \/ Add \/ Commit \/ Return
  \/ Snapshot \/ CheckCommit \/ Register \/ Promote \/ Fork \/ DiscardHead

Next ==
  \/ \E w \in Writers : Begin(w)
  \/ Work
  \/ GitFails \/ WriteFails
  \/ \E i \in Instances : Reopen(i) \/ Crash(i)

Spec == Init /\ [][Next]_vars
-----------------------------------------------------------------------------
TypeOK ==
  /\ tip \in [Branches -> Trees \cup {None}]
  /\ head \in Branches
  /\ index \in Trees /\ tree \in Trees
  /\ cached \in [Instances -> Branches \cup {None}]
  /\ cs \in Sections
  /\ seen \in [Writers -> [branch : Branches \cup {None}, tree : Trees]]
  /\ writes \in Nat /\ acked \in [Artifacts -> SUBSET Nat]
  /\ faults \in Nat

Visiting == cs.by # None /\ cs.todo # <<>> /\ cs.at # "checkout"

\* "While this instance is looking at the working tree, it is the only thing
\* that is": past _checkout(b), HEAD is b, and what a method reads, or bases
\* its write on, is the tip of b.
ReadsItsBranch ==
  Visiting => /\ head = Target
              /\ cs.at = "body" => tree = tip[Target]

\* A commit to dev that returned is never lost.
NoLostUpdate ==
  \A a \in Artifacts : acked[a] \subseteq tip["dev"].art[a].state

\* The ledger implements VersionedStore: each commit is one atomic step.
Contents(t) == IF t = None THEN None ELSE t.art
Promise == INSTANCE VersionedStore WITH
             store <- [b \in Branches |-> Contents(tip[b])]
ImplementsStore == Promise!Spec
=============================================================================
