------------------------------ MODULE Cache ------------------------------
(***************************************************************************)
(* cache/cache.go: the in-memory expiring map under every cache of the     *)
(* gateway.  Goroutines Get and Set under an RWMutex; StartCleaner, when   *)
(* it is called, sweeps expired items periodically.                        *)
(*                                                                         *)
(* The RWMutex is derived from the program counters: the holders of the    *)
(* read lock are the goroutines inside Get, the write lock is held for the *)
(* whole of Set (one step) and by the cleaner while it sweeps.  As in Go,  *)
(* a cleaner waiting for the write lock keeps new readers out.             *)
(***************************************************************************)
EXTENDS Integers, FiniteSets

CONSTANTS
  Key, Data, LifeTime, Goroutine, Absent,
  MaxTime      \* bound on the clock

ASSUME CacheAssumption ==
  /\ LifeTime \subseteq Int
  /\ MaxTime \in Nat
  /\ Absent \notin Data
  /\ Absent \notin Key
  /\ Absent \notin [data : Data, expiredAt : Int]

VARIABLES
  store,       \* c.store: store[k] is the item of k, or Absent
  clock,       \* what c.now() returns
  pc,          \* "check": inside Get, the map read and the deadline not yet compared
  key,         \* the key argument of the Get under way
  item,        \* the local variable item of that Get
  answer,      \* the last call a goroutine finished and what a Get returned
  cleaner,     \* where the goroutine running StartCleaner is
  sampled,     \* the local variable now of cleanup
  todo,        \* keys the range loop of cleanup has not visited
  ctxDone      \* the context of StartCleaner is cancelled

vars == <<store, clock, pc, key, item, answer, cleaner, sampled, todo, ctxDone>>
callerVars == <<pc, key, item, answer>>
cleanerVars == <<cleaner, sampled, todo, ctxDone>>

Item == [data : Data, expiredAt : Int]
NoAnswer == [call |-> "none", key |-> Absent, data |-> Absent]

Init ==
  /\ store = [k \in Key |-> Absent]
  /\ clock = 0
  /\ pc = [g \in Goroutine |-> "idle"]
  /\ key = [g \in Goroutine |-> Absent]
  /\ item = [g \in Goroutine |-> Absent]
  /\ answer = [g \in Goroutine |-> NoAnswer]
  /\ cleaner = "off"
  /\ sampled = 0
  /\ todo = {}
  /\ ctxDone = FALSE

---------------------------------------------------------------------------
(* The lock.                                                               *)

Readers == {g \in Goroutine : pc[g] = "check"}
\* Wrong variant: a lock that lets readers overtake a waiting writer.
CanRLockOvertaking == cleaner # "sweep"
CanRLock == cleaner \notin {"locking", "sweep"}
CanLock == Readers = {} /\ cleaner # "sweep"

\* now.After(expiredAt): strictly later.
After(now, i) == now > i.expiredAt

---------------------------------------------------------------------------
(* Get, in two steps: time may pass between reading the map and comparing  *)
(* the deadline, and other readers run meanwhile.                          *)

GetBegin(g, k) ==
  /\ pc[g] = "idle" /\ CanRLock
  /\ pc' = [pc EXCEPT ![g] = "check"]
  /\ key' = [key EXCEPT ![g] = k]
  /\ item' = [item EXCEPT ![g] = store[k]]
  /\ UNCHANGED <<store, clock, answer, cleanerVars>>

Found(i) == i # Absent /\ ~After(clock, i)

GetReturn(g) ==
  /\ pc[g] = "check"
  /\ answer' = [answer EXCEPT ![g] =
                  [call |-> "get", key |-> key[g],
                   data |-> IF Found(item[g]) THEN item[g].data ELSE Absent]]
  /\ pc' = [pc EXCEPT ![g] = "idle"]
  /\ key' = [key EXCEPT ![g] = Absent]
  /\ item' = [item EXCEPT ![g] = Absent]
  /\ UNCHANGED <<store, clock, cleanerVars>>

\* Wrong variant: Set without c.lock.
SetUnlocked(g, k, d, life) ==
  /\ pc[g] = "idle"
  /\ store' = [store EXCEPT ![k] = [data |-> d, expiredAt |-> clock + life]]
  /\ answer' = [answer EXCEPT ![g] = [call |-> "set", key |-> k, data |-> d]]
  /\ UNCHANGED <<clock, pc, key, item, cleanerVars>>

Set(g, k, d, life) ==
  /\ pc[g] = "idle" /\ CanLock
  /\ store' = [store EXCEPT ![k] = [data |-> d, expiredAt |-> clock + life]]
  /\ answer' = [answer EXCEPT ![g] = [call |-> "set", key |-> k, data |-> d]]
  /\ UNCHANGED <<clock, pc, key, item, cleanerVars>>

---------------------------------------------------------------------------
(* StartCleaner and cleanup.                                               *)

StartCleaner ==
  /\ cleaner = "off"
  /\ cleaner' = "waiting"
  /\ UNCHANGED <<store, clock, callerVars, sampled, todo, ctxDone>>

\* The ticker fires and cleanup asks for the write lock.
CleanupLock ==
  /\ cleaner = "waiting"
  /\ cleaner' = "locking"
  /\ UNCHANGED <<store, clock, callerVars, sampled, todo, ctxDone>>

\* The lock is granted; now is sampled once for the whole sweep.
CleanupBegin ==
  /\ cleaner = "locking" /\ Readers = {}
  /\ cleaner' = "sweep"
  /\ sampled' = clock
  /\ todo' = {k \in Key : store[k] # Absent}
  /\ UNCHANGED <<store, clock, callerVars, ctxDone>>

\* Wrong variant: !now.Before(expiredAt) also drops what is live at its deadline.
CleanupVisitAtDeadline(k) ==
  /\ cleaner = "sweep" /\ k \in todo
  /\ todo' = todo \ {k}
  /\ store' = [store EXCEPT ![k] = IF sampled >= store[k].expiredAt THEN Absent ELSE store[k]]
  /\ UNCHANGED <<clock, callerVars, cleaner, sampled, ctxDone>>

CleanupVisit(k) ==
  /\ cleaner = "sweep" /\ k \in todo
  /\ todo' = todo \ {k}
  /\ store' = [store EXCEPT ![k] = IF After(sampled, store[k]) THEN Absent ELSE store[k]]
  /\ UNCHANGED <<clock, callerVars, cleaner, sampled, ctxDone>>

\* Wrong variant: the cleaner sweeps once, without the loop around select.
CleanupEndReturns ==
  /\ cleaner = "sweep" /\ todo = {}
  /\ cleaner' = "returned"
  /\ UNCHANGED <<store, clock, callerVars, sampled, todo, ctxDone>>

CleanupEnd ==
  /\ cleaner = "sweep" /\ todo = {}
  /\ cleaner' = "waiting"
  /\ UNCHANGED <<store, clock, callerVars, sampled, todo, ctxDone>>

CleanerReturn ==
  /\ cleaner = "waiting" /\ ctxDone
  /\ cleaner' = "returned"
  /\ UNCHANGED <<store, clock, callerVars, sampled, todo, ctxDone>>

\* The application context is cancelled (shutdown).
Cancel ==
  /\ ~ctxDone
  /\ ctxDone' = TRUE
  /\ UNCHANGED <<store, clock, callerVars, cleaner, sampled, todo>>

Elapse ==
  /\ clock < MaxTime
  /\ clock' = clock + 1
  /\ UNCHANGED <<store, callerVars, cleanerVars>>

Next ==
  \/ \E g \in Goroutine, k \in Key : GetBegin(g, k)
  \/ \E g \in Goroutine : GetReturn(g)
  \/ \E g \in Goroutine, k \in Key, d \in Data, life \in LifeTime : Set(g, k, d, life)
  \/ StartCleaner
  \/ CleanupLock
  \/ CleanupBegin
  \/ \E k \in Key : CleanupVisit(k)
  \/ CleanupEnd
  \/ CleanerReturn
  \/ Cancel
  \/ Elapse

Spec == Init /\ [][Next]_vars

(* Get and the body of cleanup never block, the ticker keeps firing and a  *)
(* waiting writer is granted the lock.  A select with both channels ready  *)
(* picks at random, so a done context offered over and over is taken.      *)
Fairness ==
  /\ \A g \in Goroutine : WF_vars(GetReturn(g))
  /\ WF_vars(CleanupLock)
  /\ WF_vars(CleanupBegin)
  /\ WF_vars(\E k \in Key : CleanupVisit(k))
  /\ WF_vars(CleanupEnd)
  /\ SF_vars(CleanerReturn)

FairSpec == Spec /\ Fairness

---------------------------------------------------------------------------
(* Properties.                                                             *)

TypeOK ==
  /\ store \in [Key -> Item \cup {Absent}]
  /\ clock \in 0 .. MaxTime
  /\ pc \in [Goroutine -> {"idle", "check"}]
  /\ key \in [Goroutine -> Key \cup {Absent}]
  /\ item \in [Goroutine -> Item \cup {Absent}]
  /\ answer \in [Goroutine -> [call : {"none", "get", "set"}, key : Key \cup {Absent},
                                data : Data \cup {Absent}]]
  /\ cleaner \in {"off", "waiting", "locking", "sweep", "returned"}
  /\ sampled \in 0 .. MaxTime
  /\ todo \subseteq Key
  /\ ctxDone \in BOOLEAN

\* What a Get holds in its local variable is still what the map says: the
\* read lock keeps Set and cleanup out between the read and the return.
ReadersSeeTheMap ==
  \A g \in Readers : key[g] \in Key /\ item[g] = store[key[g]]

\* While cleanup sweeps it is alone: no Get is under way, its notion of now
\* is not ahead of the clock, and every key it still has to visit has an item.
SweepIsExclusive ==
  cleaner = "sweep" =>
    /\ Readers = {}
    /\ sampled <= clock
    /\ \A k \in todo : store[k] # Absent

\* The inductive invariant of the cache.
IndInv == TypeOK /\ ReadersSeeTheMap /\ SweepIsExclusive

\* The live entries of the map: the abstract state of CacheSpec.
live == [k \in Key |-> IF Found(store[k]) THEN store[k] ELSE Absent]

Abstract == INSTANCE CacheSpec WITH live <- live, clock <- clock, answer <- answer

\* Get, Set and the cleaner together implement CacheSpec: every answer is what
\* was live at one instant, and cleanup is invisible to callers.
ImplementsCacheSpec == Abstract!Spec

\* A key with an expired item does not keep it for ever once StartCleaner
\* runs: cleanup drops it, a Set replaces it, or the context is cancelled.
ExpiredIsPurged ==
  \A k \in Key :
    (cleaner # "off" /\ store[k] # Absent /\ ~Found(store[k]))
      ~> (store[k] = Absent \/ Found(store[k]) \/ ctxDone)

\* A cancelled context ends StartCleaner, whatever readers are doing.
CleanerStops == (cleaner # "off" /\ ctxDone) ~> (cleaner = "returned")
=============================================================================
