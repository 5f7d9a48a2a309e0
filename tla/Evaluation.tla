---------------------------- MODULE Evaluation -----------------------------
(***************************************************************************)
(* Rollouts and gate evaluations over one sandbox pool and one evaluation  *)
(* cache: _Runtime.eval_one of agentdescent/evolution.py, the lease inside *)
(* the runners of agentdescent/runners.py, and the engine's                *)
(* invalidate_dependents() after a contract-breaking commit, which runs in *)
(* the merger's thread while the pipelined gate measures in others.        *)
(*                                                                         *)
(* An evaluation takes its sandbox inside its flight, so a thread can wait *)
(* at the pool while others wait for that thread.                          *)
(***************************************************************************)
EXTENDS SandboxPool, EvalCache

CONSTANTS
    Workers,        \* threads that roll out; Callers are those that evaluate
    Attempts,       \* _Runtime.ATTEMPTS (3 in the code)
    MaxRollouts,    \* bound: rollouts per worker
    MaxEvals,       \* bound: evaluations per caller
    MaxEvents       \* bound: revoke(), close() and contract-breaking commits together

ASSUME EvaluationAssumption ==
    /\ Threads = Workers \union Callers
    /\ Attempts \in Nat \ {0} /\ MaxRollouts \in Nat /\ MaxEvals \in Nat /\ MaxEvents \in Nat

VARIABLES
    tries,          \* thread -> attempts of the measurement under way
    asks,           \* thread -> what it has started
    reclaims        \* how often somebody called revoke() or close()

vars == <<poolVars, cacheVars, tries, asks, reclaims>>

Idle(t) == place[t] = "out" /\ (t \in Callers => stage[t] = "out")

Measuring(t) == t \in Callers /\ stage[t] = "measuring"

CountsAsk(t, bound) ==
    /\ asks[t] < bound
    /\ asks' = [asks EXCEPT ![t] = @ + 1]

\* A worker's rollout: run() leases a sandbox, whatever comes of it.
Rollout(t) ==
    /\ Idle(t)
    /\ CountsAsk(t, MaxRollouts)
    /\ Ask(t)
    /\ UNCHANGED <<cacheVars, tries, reclaims>>

\* eval_one()
Evaluate(t, k) ==
    /\ Idle(t)
    /\ CountsAsk(t, MaxEvals)
    /\ Hit(t, k) \/ Join(t, k) \/ Miss(t, k)
    /\ tries' = [tries EXCEPT ![t] = 0]
    /\ UNCHANGED <<poolVars, reclaims>>

\* _measure(): an attempt runs the artifact as it is under the contract now in force.
Attempt(t) ==
    /\ Measuring(t)
    /\ tries[t] < Attempts
    /\ Ask(t)
    /\ tries' = [tries EXCEPT ![t] = @ + 1]
    /\ answer' = [answer EXCEPT ![t] = contract]
    /\ UNCHANGED <<values, flights, stage, asked, waitsFor, file, dropVars, clean, measured, asks,
                   reclaims>>

\* What an attempt that raised does to the flight: another attempt, or the error of the last.
Raised(t) ==
    \/ tries[t] < Attempts /\ UNCHANGED cacheVars
    \/ tries[t] = Attempts /\ MeasureFails(t)

\* A ContractError is not tried again.
ContractError(t) == MeasureFails(t)

SandboxFails(t) ==
    /\ ProvisionFails(t)
    /\ IF Measuring(t) THEN Raised(t) ELSE UNCHANGED cacheVars
    /\ UNCHANGED <<tries, asks, reclaims>>

RunEnds(t) ==
    /\ Release(t)
    /\ IF Measuring(t)
       THEN Measured(t, answer[t]) \/ Raised(t) \/ ContractError(t)
       ELSE UNCHANGED cacheVars
    /\ UNCHANGED <<tries, asks, reclaims>>

InPool(t) ==
    /\ Wait(t) \/ Reserve(t) \/ Provisioned(t)
    /\ UNCHANGED <<cacheVars, tries, asks, reclaims>>

InCache(t) ==
    /\ ReadFile(t) \/ WriteFile(t) \/ Store(t) \/ Forget(t) \/ Announce(t) \/ Return(t)
    /\ UNCHANGED <<poolVars, tries, asks, reclaims>>

Eventful == reclaims + contract < MaxEvents

Reclaim ==
    /\ Eventful
    /\ reclaims' = reclaims + 1
    /\ Close \/ \E s \in Sandboxes : Revoke(s)
    /\ UNCHANGED <<cacheVars, tries, asks>>

Invalidate ==
    /\ DropMemory \/ \E k \in Keys : DeleteFile(k)
    /\ UNCHANGED <<poolVars, tries, asks, reclaims>>

Breaks == Eventful /\ ContractChanges /\ UNCHANGED <<poolVars, tries, asks, reclaims>>

Init ==
    /\ PoolInit /\ CacheInit
    /\ tries = [t \in Callers |-> 0]
    /\ asks = [t \in Threads |-> 0]
    /\ reclaims = 0

Moves(t) ==
    \/ SandboxFails(t) \/ RunEnds(t) \/ InPool(t)
    \/ t \in Callers /\ (Attempt(t) \/ InCache(t))

Next ==
    \/ \E t \in Workers : Rollout(t)
    \/ \E t \in Callers, k \in Keys : Evaluate(t, k)
    \/ \E t \in Threads : Moves(t)
    \/ Reclaim \/ Breaks \/ Invalidate

\* A thread in the middle of something is scheduled; a run ends (agents run under a timeout).
Spec == Init /\ [][Next]_vars /\ \A t \in Threads : WF_vars(Moves(t))

(***************************************************************************)
(* Properties                                                              *)
(***************************************************************************)
TypeOK ==
    /\ PoolTypeOK /\ CacheTypeOK
    /\ tries \in [Callers -> 0..Attempts]
    /\ asks \in [Threads -> Nat]
    /\ reclaims \in 0..MaxEvents

\* Every rollout and every evaluation returns: no wake-up of the pool is lost, no flight lands
\* without telling those who joined it, and waiting for a flight whose thread waits for a sandbox
\* is not a cycle (lease, get_or_eval, eval_one).
EveryoneReturns == \A t \in Threads : ~Idle(t) ~> Idle(t)
=============================================================================
