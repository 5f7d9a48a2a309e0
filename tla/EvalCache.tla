----------------------------- MODULE EvalCache -----------------------------
(***************************************************************************)
(* The evaluation cache of agentdescent/evalcache.py: FileCache, which is  *)
(* a directory of values around MemoryCache, single-flight in a process.   *)
(* A directory that cannot be read or written leaves a MemoryCache.        *)
(*                                                                         *)
(* Keys are the tasks measured on one rendered artifact, the unit of       *)
(* invalidation.  A value is named by the contract in force when its       *)
(* measurement began, which is all that invalidation is about.  An         *)
(* _Inflight is named by the thread that computes.                         *)
(***************************************************************************)
EXTENDS Naturals

CONSTANTS
    Callers,
    Keys,
    MaxContracts,   \* bound: how often the contract changes
    Nothing,
    Error           \* an exception, which a flight passes to all who joined it

ASSUME CacheAssumption ==
    /\ MaxContracts \in Nat
    /\ Nothing \notin Callers \union Nat /\ Error \notin Nat \union {Nothing}

VARIABLES
    values,         \* _values
    flights,        \* _inflight: key -> the thread that computes it
    stage,          \* thread -> where it is in get_or_eval
    asked,          \* thread -> the key
    waitsFor,       \* thread -> the thread whose flight it joined
    answer,         \* thread -> the value it is about to return, or Error
    file,           \* key -> the value on disk
    contract,       \* the contract in force
    changed,        \* the contract has changed and invalidate() has not begun
    doomed,         \* invalidate(): keys whose file it has not yet deleted
    clean,          \* history: key -> no value under an older contract may be kept
    measured        \* history: key -> measurements since it was last invalidated

cacheVars == <<values, flights, stage, asked, waitsFor, answer, file, contract, changed, doomed,
               clean, measured>>
threadVars == <<stage, asked, waitsFor, answer>>
dropVars == <<contract, changed, doomed>>

Contracts == 0..MaxContracts

At(t, from, to) == stage[t] = from /\ stage' = [stage EXCEPT ![t] = to]

AsksFor(t, k) == asked' = [asked EXCEPT ![t] = k]

(***************************************************************************)
(* get_or_eval                                                             *)
(***************************************************************************)
Hit(t, k) ==
    /\ values[k] # Nothing
    /\ At(t, "out", "answered")
    /\ AsksFor(t, k)
    /\ answer' = [answer EXCEPT ![t] = values[k]]
    /\ UNCHANGED <<values, flights, waitsFor, file, dropVars, clean, measured>>

Join(t, k) ==
    /\ values[k] = Nothing
    /\ flights[k] # Nothing
    /\ At(t, "out", "joined")
    /\ AsksFor(t, k)
    /\ waitsFor' = [waitsFor EXCEPT ![t] = flights[k]]
    /\ UNCHANGED <<values, flights, answer, file, dropVars, clean, measured>>

\* A flight that starts before invalidate() has deleted the file may read the old value back.
Miss(t, k) ==
    /\ values[k] = Nothing
    /\ flights[k] = Nothing
    /\ flights' = [flights EXCEPT ![k] = t]
    /\ At(t, "out", "reading")
    /\ AsksFor(t, k)
    /\ clean' = IF k \in doomed THEN [clean EXCEPT ![k] = 0] ELSE clean
    /\ UNCHANGED <<values, waitsFor, answer, file, dropVars, measured>>

\* A file that is missing or unreadable means a measurement.
ReadFile(t) ==
    /\ \/ At(t, "reading", "measuring") /\ UNCHANGED answer
       \/ /\ At(t, "reading", "storing")
          /\ file[asked[t]] # Nothing
          /\ answer' = [answer EXCEPT ![t] = file[asked[t]]]
    /\ UNCHANGED <<values, flights, asked, waitsFor, file, dropVars, clean, measured>>

\* fn() returns what it measured, or raises.
Measured(t, v) ==
    /\ At(t, "measuring", "writing")
    /\ answer' = [answer EXCEPT ![t] = v]
    /\ measured' = [measured EXCEPT ![asked[t]] = @ + 1]
    /\ UNCHANGED <<values, flights, asked, waitsFor, file, dropVars, clean>>

MeasureFails(t) ==
    /\ At(t, "measuring", "failing")
    /\ answer' = [answer EXCEPT ![t] = Error]
    /\ UNCHANGED <<values, flights, asked, waitsFor, file, dropVars, clean, measured>>

\* os.replace, whole or not at all: a value that is not finite, or a failed write, is dropped.
WriteFile(t) ==
    /\ At(t, "writing", "storing")
    /\ \/ file' = [file EXCEPT ![asked[t]] = answer[t]]
       \/ UNCHANGED file
    /\ UNCHANGED <<values, flights, asked, waitsFor, answer, dropVars, clean, measured>>

\* Bug: the value is published to those who wait, and not kept.
Unkept(t) == values

Kept(t) == [values EXCEPT ![asked[t]] = answer[t]]

Lands(t) == flights' = [flights EXCEPT ![asked[t]] = Nothing]

Store(t) ==
    /\ At(t, "storing", "announcing")
    /\ values' = Kept(t)
    /\ Lands(t)
    /\ UNCHANGED <<asked, waitsFor, answer, file, dropVars, clean, measured>>

Forget(t) ==
    /\ At(t, "failing", "announcing")
    /\ Lands(t)
    /\ UNCHANGED <<values, asked, waitsFor, answer, file, dropVars, clean, measured>>

Joiners(t) == {u \in Callers : waitsFor[u] = t}

\* Bug: those who wait are given what the table holds by then.
OutcomeFromTable(t) == values[asked[t]]

Outcome(t) == answer[t]

\* event.set(): everybody who joined returns what the flight returned, or raises what it raised.
Announce(t) ==
    /\ stage[t] = "announcing"
    /\ stage' = [u \in Callers |-> IF u \in Joiners(t) \union {t} THEN "answered" ELSE stage[u]]
    /\ answer' = [u \in Callers |-> IF u \in Joiners(t) THEN Outcome(t) ELSE answer[u]]
    /\ waitsFor' = [u \in Callers |-> IF u \in Joiners(t) THEN Nothing ELSE waitsFor[u]]
    /\ UNCHANGED <<values, flights, asked, file, dropVars, clean, measured>>

Return(t) ==
    /\ At(t, "answered", "out")
    /\ answer' = [answer EXCEPT ![t] = Nothing]
    /\ asked' = [asked EXCEPT ![t] = Nothing]
    /\ UNCHANGED <<values, flights, waitsFor, file, dropVars, clean, measured>>

(***************************************************************************)
(* A contract-breaking commit, and invalidate() in the thread that made it *)
(***************************************************************************)
ContractChanges ==
    /\ contract < MaxContracts
    /\ ~changed /\ doomed = {}
    /\ contract' = contract + 1
    /\ changed' = TRUE
    /\ UNCHANGED <<values, flights, threadVars, file, doomed, clean, measured>>

\* Bug: no file matches, so that none is deleted.
DoomsNothing == {}

Dooms == {k \in Keys : file[k] # Nothing}

\* The memory is dropped under its lock; a flight that is under way is left to land.
DropMemory ==
    /\ changed
    /\ changed' = FALSE
    /\ values' = [k \in Keys |-> Nothing]
    /\ doomed' = Dooms
    /\ clean' = [k \in Keys |-> IF flights[k] = Nothing THEN contract ELSE 0]
    /\ measured' = [k \in Keys |-> 0]
    /\ UNCHANGED <<flights, threadVars, file, contract>>

DeleteFile(k) ==
    /\ k \in doomed
    /\ doomed' = doomed \ {k}
    /\ file' = [file EXCEPT ![k] = Nothing]
    /\ UNCHANGED <<values, flights, threadVars, contract, changed, clean, measured>>

CacheInit ==
    /\ values = [k \in Keys |-> Nothing]
    /\ flights = [k \in Keys |-> Nothing]
    /\ stage = [t \in Callers |-> "out"]
    /\ asked = [t \in Callers |-> Nothing]
    /\ waitsFor = [t \in Callers |-> Nothing]
    /\ answer = [t \in Callers |-> Nothing]
    /\ file = [k \in Keys |-> Nothing]
    /\ contract = 0 /\ changed = FALSE /\ doomed = {}
    /\ clean = [k \in Keys |-> 0]
    /\ measured = [k \in Keys |-> 0]

(***************************************************************************)
(* Properties                                                              *)
(***************************************************************************)
Values == Contracts \union {Nothing}

Stages == {"out", "joined", "reading", "measuring", "writing", "storing", "failing", "announcing",
           "answered"}

\* Types; and a call that is about to return has something to return.
CacheTypeOK ==
    /\ values \in [Keys -> Values] /\ file \in [Keys -> Values]
    /\ flights \in [Keys -> Callers \union {Nothing}]
    /\ stage \in [Callers -> Stages]
    /\ asked \in [Callers -> Keys \union {Nothing}]
    /\ waitsFor \in [Callers -> Callers \union {Nothing}]
    /\ answer \in [Callers -> Values \union {Error}]
    /\ \A t \in Callers : stage[t] = "answered" => answer[t] # Nothing
    /\ contract \in Contracts /\ changed \in BOOLEAN /\ doomed \subseteq Keys
    /\ clean \in [Keys -> Contracts] /\ measured \in [Keys -> Nat]

\* A value is measured once, however many ask for it and however they interleave, until it is
\* invalidated (get_or_eval: single-flight, and what it lands is kept).
MeasuredOnce == \A k \in Keys : measured[k] <= 1

\* A key for which no flight was under way while it was invalidated is measured anew: neither
\* memory nor, once invalidate() is past it, the directory keeps a value of an older contract.
NothingOldKept ==
    \A k \in Keys :
        /\ values[k] # Nothing => values[k] >= clean[k]
        /\ file[k] # Nothing /\ k \notin doomed => file[k] >= clean[k]
=============================================================================
