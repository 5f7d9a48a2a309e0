--------------------------- MODULE VersionedStore ---------------------------
(***************************************************************************)
(* What the ledger promises: branches of versioned artifacts, each         *)
(* operation one atomic step.  A commit to dev adds to the states it       *)
(* replaces and bumps their versions by one; the stable branch only ever receives what  *)
(* dev holds.                                                              *)
(***************************************************************************)
EXTENDS Integers

CONSTANTS Artifacts, Registered, Heads, None

VARIABLE store   \* per branch: None, or each artifact's version and state

Branches == {"dev", "stable"} \cup Heads

\* Version 0: the artifact is not registered.
Start == [a \in Artifacts |->
            [version |-> IF a \in Registered THEN 1 ELSE 0, state |-> {}]]

Register(b, a) ==
  /\ store[b][a].version = 0
  /\ store' = [store EXCEPT ![b][a] = [version |-> 1, state |-> {}]]

\* One or several artifacts, all or nothing.  A head that was forked anew has
\* reused versions, so only a commit to dev is known to add to what it replaces.
Commit(b, ids) ==
  /\ store'[b] # None
  /\ \A a \in ids :
       /\ store'[b][a].version = store[b][a].version + 1
       /\ b = "dev" => store[b][a].state \subseteq store'[b][a].state
  /\ store' = [store EXCEPT ![b] =
                 [a \in Artifacts |-> IF a \in ids THEN store'[b][a] ELSE @[a]]]

Promote(a) ==
  /\ store["dev"][a].version > 0
  /\ store' = [store EXCEPT !["stable"][a] =
                 [version |-> @.version + 1, state |-> store["dev"][a].state]]

Fork(name, from) == store' = [store EXCEPT ![name] = store[from]]

Discard(name) == store' = [store EXCEPT ![name] = None]

Live == {b \in Branches : store[b] # None}

Init == store = [b \in Branches |-> IF b \in Heads THEN None ELSE Start]

Next ==
  \/ \E b \in {"dev", "stable"}, a \in Artifacts : Register(b, a)
  \/ \E b \in Live \ {"stable"}, ids \in (SUBSET Artifacts) \ {{}} : Commit(b, ids)
  \/ \E a \in Artifacts : Promote(a)
  \/ \E name \in Heads : Discard(name) \/ \E from \in Live : Fork(name, from)

Spec == Init /\ [][Next]_store
=============================================================================
