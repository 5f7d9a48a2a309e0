---------------------------- MODULE SandboxPool ----------------------------
(***************************************************************************)
(* The sandbox pool of agentdescent/sandbox.py: a ceiling on the sandboxes *)
(* of one process, kept with a condition variable.  Provisioning happens   *)
(* outside the lock, under a placeholder that holds the slot.              *)
(*                                                                         *)
(* This module is the pool's state and operations; who calls them is the   *)
(* business of the module that extends it.  All callers ask for the same   *)
(* SandboxSpec, so there is one fingerprint and one warm sandbox at most.  *)
(***************************************************************************)
EXTENDS Naturals, FiniteSets, Functions

CONSTANTS
    Threads,
    Sandboxes,      \* names for sandboxes; a name is used again once nobody holds its directory
    MaxSandboxes,   \* max_sandboxes
    WarmReuse,      \* spec.reuse
    None

ASSUME PoolAssumption ==
    /\ MaxSandboxes \in Nat \ {0}
    /\ WarmReuse \in BOOLEAN
    /\ Threads \intersect Sandboxes = {} /\ None \notin Threads \union Sandboxes

\* The code never runs out of new directories; here one name more than threads is enough.
ASSUME EnoughNames ==
    /\ IsFiniteSet(Threads) /\ IsFiniteSet(Sandboxes)
    /\ Cardinality(Sandboxes) > Cardinality(Threads)

VARIABLES
    live,           \* _live: lease ids; a placeholder is named by its thread
    idle,           \* _idle[fingerprint]
    place,          \* thread -> where it is in acquire and release
    held,           \* thread -> its sandbox
    disowned        \* history: threads whose slot was revoked or closed under them

poolVars == <<live, idle, place, held, disowned>>

Full == Cardinality(live) >= MaxSandboxes

Waiting == {t \in Threads : place[t] = "waiting"}

\* notify() wakes one waiter, if there is one; moved is where the caller goes.
Notify(moved) ==
    \/ Waiting = {} /\ place' = moved
    \/ \E t \in Waiting : place' = [moved EXCEPT ![t] = "woken"]

Moved(t, to) == [place EXCEPT ![t] = to]

\* lease(): a thread that needs a sandbox comes to acquire().
Ask(t) ==
    /\ place[t] = "out"
    /\ place' = Moved(t, "asking")
    /\ UNCHANGED <<live, idle, held, disowned>>

\* cond.wait() releases the lock; a woken thread looks again.
Wait(t) ==
    /\ place[t] \in {"asking", "woken"}
    /\ Full
    /\ place' = Moved(t, "waiting")
    /\ UNCHANGED <<live, idle, held, disowned>>

\* Bug: a woken thread takes the slot without looking again.
MayReserveWhenWoken(t) == ~Full \/ place[t] = "woken"

MayReserve(t) == ~Full

\* Bug: the warm sandbox is used, and left for the next one.
WarmKept == idle

WarmTaken == IF WarmReuse THEN None ELSE idle

Reserve(t) ==
    /\ place[t] \in {"asking", "woken"}
    /\ MayReserve(t)
    /\ live' = live \union {t}
    /\ held' = [held EXCEPT ![t] = IF WarmReuse THEN idle ELSE None]
    /\ idle' = WarmTaken
    /\ place' = Moved(t, "provisioning")
    /\ UNCHANGED disowned

Unused == Sandboxes \ (live \union {idle} \union Range(held))

\* The warm sandbox is reset, or a new one is made; it takes the placeholder's slot.
Provisioned(t) ==
    /\ place[t] = "provisioning"
    /\ LET s == IF held[t] # None THEN held[t] ELSE CHOOSE fresh \in Unused : TRUE
       IN  /\ live' = (live \ {t}) \union {s}
           /\ held' = [held EXCEPT ![t] = s]
    /\ place' = Moved(t, "using")
    /\ UNCHANGED <<idle, disowned>>

\* Bug: a failed provisioning gives its slot back without telling anyone.
TellNobody(moved) == place' = moved

Tell(moved) == Notify(moved)

ProvisionFails(t) ==
    /\ place[t] = "provisioning"
    /\ live' = live \ {t}
    /\ held' = [held EXCEPT ![t] = None]
    /\ Tell(Moved(t, "out"))
    /\ disowned' = disowned \ {t}
    /\ UNCHANGED idle

\* lease()'s finally; a sandbox that was revoked, or the pool closed, is not given back again.
Release(t) ==
    /\ place[t] = "using"
    /\ IF held[t] \in live
       THEN /\ live' = live \ {held[t]}
            /\ idle' = IF WarmReuse THEN held[t] ELSE idle
            /\ Notify(Moved(t, "out"))
       ELSE UNCHANGED <<live, idle>> /\ place' = Moved(t, "out")
    /\ held' = [held EXCEPT ![t] = None]
    /\ disowned' = disowned \ {t}

\* Somebody takes a sandbox back from an owner who is not going to return it.
Revoke(s) ==
    /\ s \in live \intersect Sandboxes
    /\ live' = live \ {s}
    /\ Notify(place)
    /\ disowned' = disowned \union {t \in Threads : held[t] = s}
    /\ UNCHANGED <<idle, held>>

\* close() forgets everything that is out and wakes everybody; stragglers run on.
Close ==
    /\ live' = {}
    /\ idle' = None
    /\ place' = [t \in Threads |-> IF t \in Waiting THEN "woken" ELSE place[t]]
    /\ disowned' = disowned \union {t \in Threads : place[t] \in {"provisioning", "using"}}
    /\ UNCHANGED held

PoolInit ==
    /\ live = {} /\ idle = None
    /\ place = [t \in Threads |-> "out"]
    /\ held = [t \in Threads |-> None]
    /\ disowned = {}

(***************************************************************************)
(* Properties                                                              *)
(***************************************************************************)
PoolTypeOK ==
    /\ live \subseteq Threads \union Sandboxes
    /\ idle \in Sandboxes \union {None}
    /\ place \in [Threads -> {"out", "asking", "waiting", "woken", "provisioning", "using"}]
    /\ held \in [Threads -> Sandboxes \union {None}]
    /\ disowned \subseteq Threads

Inside == {t \in Threads : place[t] \in {"provisioning", "using"}}

\* The threads that make or use a sandbox are at most max_sandboxes, but for stragglers whose
\* slot was taken back: neither a wake-up, nor a failure, nor a revocation frees a slot twice.
Ceiling == Cardinality(Inside \ disowned) <= MaxSandboxes

\* Nobody works in a sandbox that another thread has or the next one will get: one candidate's
\* files never reach another's score (acquire, release).
ExclusiveUse ==
    /\ \A t, u \in Threads : t # u /\ held[t] # None => held[t] # held[u]
    /\ idle \notin Range(held) \ {None}
=============================================================================
