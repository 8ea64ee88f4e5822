--------------------------- MODULE CacheProofs ---------------------------
(***************************************************************************)
(* Cache implements CacheSpec, for every set of keys, payloads, goroutines *)
(* and lifetimes.                                                          *)
(***************************************************************************)
EXTENDS Cache, TLAPS

\* A new cache is empty and nobody is inside it.
LEMMA InitInv == Init => IndInv
<1> SUFFICES ASSUME Init PROVE IndInv
  OBVIOUS
<1>1. NoAnswer \in [call : {"none", "get", "set"}, key : Key \cup {Absent},
                     data : Data \cup {Absent}]
  BY DEF NoAnswer
<1>2. TypeOK
  <2>1. answer \in [Goroutine -> [call : {"none", "get", "set"}, key : Key \cup {Absent},
                                  data : Data \cup {Absent}]]
    BY <1>1 DEF Init
  <2>2. clock \in 0 .. MaxTime /\ sampled \in 0 .. MaxTime
    BY CacheAssumption DEF Init
  <2> QED
    BY <2>1, <2>2 DEF Init, TypeOK
<1>3. ReadersSeeTheMap /\ SweepIsExclusive
  BY DEF Init, ReadersSeeTheMap, SweepIsExclusive, Readers
<1> QED
  BY <1>2, <1>3 DEF IndInv

\* Every step of Get, Set, StartCleaner, cleanup and of time keeps the
\* invariant; the only delicate ones are those that the lock orders.
LEMMA StepInv == IndInv /\ [Next]_vars => IndInv'
<1> SUFFICES ASSUME IndInv, [Next]_vars PROVE IndInv'
  OBVIOUS
<1> USE CacheAssumption DEF IndInv, TypeOK, ReadersSeeTheMap, SweepIsExclusive,
                            Readers, Item, callerVars, cleanerVars
<1>1. ASSUME NEW g \in Goroutine, NEW k \in Key, GetBegin(g, k) PROVE IndInv'
  BY <1>1 DEF GetBegin, CanRLock
<1>2. ASSUME NEW g \in Goroutine, GetReturn(g) PROVE IndInv'
  BY <1>2 DEF GetReturn, Found, After
<1>3. ASSUME NEW g \in Goroutine, NEW k \in Key, NEW d \in Data, NEW life \in LifeTime,
             Set(g, k, d, life)
      PROVE IndInv'
  <2>1. [data |-> d, expiredAt |-> clock + life] \in Item
    BY <1>3
  <2>2. TypeOK'
    BY <1>3, <2>1 DEF Set
  <2>3. Readers' = {} /\ cleaner' # "sweep"
    BY <1>3 DEF Set, CanLock
  <2> QED
    BY <2>2, <2>3
<1>4. CASE StartCleaner
  BY <1>4 DEF StartCleaner
<1>5. CASE CleanupLock
  BY <1>5 DEF CleanupLock
<1>6. CASE CleanupBegin
  BY <1>6 DEF CleanupBegin
<1>7. ASSUME NEW k \in Key, CleanupVisit(k) PROVE IndInv'
  BY <1>7 DEF CleanupVisit, After
<1>8. CASE CleanupEnd
  BY <1>8 DEF CleanupEnd
<1>9. CASE CleanerReturn
  BY <1>9 DEF CleanerReturn
<1>10. CASE Cancel
  BY <1>10 DEF Cancel
<1>11. CASE Elapse
  BY <1>11 DEF Elapse
<1>12. CASE UNCHANGED vars
  BY <1>12 DEF vars
<1> QED
  BY <1>1, <1>2, <1>3, <1>4, <1>5, <1>6, <1>7, <1>8, <1>9, <1>10, <1>11, <1>12 DEF Next

\* Between its read of the map and its return a Get works on what the map
\* still says, and cleanup is alone while it sweeps (cache.go's RWMutex).
THEOREM CacheInvariant == Spec => []IndInv
  BY InitInv, StepInv, PTL DEF Spec

---------------------------------------------------------------------------
(* Refinement.                                                             *)

\* What Found does not depend on besides the clock: while the clock stands,
\* the live entries change only where the map does.
LEMMA LiveUnchanged ==
  ASSUME UNCHANGED <<store, clock>> PROVE UNCHANGED live
  BY DEF live, Found, After

\* An item a deadline has passed for is not live, and stays so.
LEMMA StepRefines ==
  IndInv /\ [Next]_vars => [Abstract!Next]_(Abstract!vars)
<1> SUFFICES ASSUME IndInv, [Next]_vars PROVE [Abstract!Next]_(Abstract!vars)
  OBVIOUS
<1> USE DEF callerVars, cleanerVars
<1>0. Absent \notin Item
  BY CacheAssumption DEF Item
<1>1. ASSUME NEW g \in Goroutine, NEW k \in Key, GetBegin(g, k)
      PROVE  UNCHANGED Abstract!vars
  BY <1>1, LiveUnchanged DEF GetBegin, Abstract!vars
<1>2. ASSUME NEW g \in Goroutine, GetReturn(g)
      PROVE  Abstract!Next
  <2>1. key[g] \in Key /\ item[g] = store[key[g]]
    BY <1>2 DEF IndInv, ReadersSeeTheMap, Readers, GetReturn
  <2>2. live[key[g]] = IF Found(item[g]) THEN item[g] ELSE Absent
    BY <2>1 DEF live
  <2>3. Found(item[g]) => item[g] # Absent
    BY DEF Found
  <2>4. (IF live[key[g]] = Absent THEN Absent ELSE live[key[g]].data)
          = (IF Found(item[g]) THEN item[g].data ELSE Absent)
    BY <2>2, <2>3
  <2>5. Abstract!Answer(g, key[g])
    BY <1>2, <2>4, LiveUnchanged DEF GetReturn, Abstract!Answer
  <2> QED
    BY <2>1, <2>5 DEF Abstract!Next
<1>3. ASSUME NEW g \in Goroutine, NEW k \in Key, NEW d \in Data, NEW life \in LifeTime,
             Set(g, k, d, life)
      PROVE  Abstract!Next
  <2> DEFINE i == [data |-> d, expiredAt |-> clock + life]
  <2>1. i \in Item /\ clock \in Int /\ life \in Int
    BY CacheAssumption DEF IndInv, TypeOK, Item
  <2>2. Found(i) <=> ~(life < 0)
    BY <1>0, <2>1 DEF Found, After
  <2>3. /\ store' = [store EXCEPT ![k] = i] /\ UNCHANGED clock
        /\ answer' = [answer EXCEPT ![g] = [call |-> "set", key |-> k, data |-> d]]
    BY <1>3 DEF Set
  <2>4. live' = [live EXCEPT ![k] = IF Found(i) THEN i ELSE Absent]
    <3> HIDE DEF i
    <3>1. store \in [Key -> Item \cup {Absent}]
      BY DEF IndInv, TypeOK
    <3> QED
      BY <2>3, <3>1 DEF live, Found, After
  <2>5. Abstract!Put(g, k, d, life)
    BY <2>2, <2>3, <2>4 DEF Abstract!Put
  <2> QED
    BY <2>5 DEF Abstract!Next
<1>4. CASE StartCleaner
  BY <1>4, LiveUnchanged DEF StartCleaner, Abstract!vars
<1>5. CASE CleanupLock
  BY <1>5, LiveUnchanged DEF CleanupLock, Abstract!vars
<1>6. CASE CleanupBegin
  BY <1>6, LiveUnchanged DEF CleanupBegin, Abstract!vars
<1>7. ASSUME NEW k \in Key, CleanupVisit(k)
      PROVE  UNCHANGED Abstract!vars
  <2>1. sampled <= clock /\ store[k] # Absent /\ store[k] \in Item
    BY <1>7 DEF CleanupVisit, IndInv, TypeOK, SweepIsExclusive
  <2>2. clock \in Int /\ sampled \in Int
    BY CacheAssumption DEF IndInv, TypeOK
  <2>3. After(sampled, store[k]) => ~Found(store[k])
    BY <2>1, <2>2 DEF After, Found, Item
  <2>4. ~Found(Absent)
    BY DEF Found
  <2>5. live' = live
    <3>1. store \in [Key -> Item \cup {Absent}]
      BY DEF IndInv, TypeOK
    <3> QED
      BY <1>7, <2>3, <2>4, <3>1 DEF CleanupVisit, live, Found, After
  <2> QED
    BY <1>7, <2>5 DEF CleanupVisit, Abstract!vars
<1>8. CASE CleanupEnd
  BY <1>8, LiveUnchanged DEF CleanupEnd, Abstract!vars
<1>9. CASE CleanerReturn
  BY <1>9, LiveUnchanged DEF CleanerReturn, Abstract!vars
<1>10. CASE Cancel
  BY <1>10, LiveUnchanged DEF Cancel, Abstract!vars
<1>11. CASE Elapse
  <2>1. store \in [Key -> Item \cup {Absent}] /\ clock \in Int
    BY CacheAssumption DEF IndInv, TypeOK
  <2>2. clock' = clock + 1 /\ UNCHANGED <<store, answer>>
    BY <1>11 DEF Elapse
  <2>3. ASSUME NEW k \in Key
        PROVE  live'[k] = IF live[k] = Absent THEN Absent
                          ELSE IF clock' > live[k].expiredAt THEN Absent
                          ELSE live[k]
    BY <1>0, <2>1, <2>2 DEF live, Found, After, Item
  <2>4. live' = [k \in Key |-> IF live[k] = Absent THEN Absent
                               ELSE IF clock' > live[k].expiredAt THEN Absent
                               ELSE live[k]]
    BY <2>3 DEF live
  <2>5. Abstract!Elapse
    BY <2>2, <2>4 DEF Abstract!Elapse
  <2> QED
    BY <2>5 DEF Abstract!Next
<1>12. CASE UNCHANGED vars
  BY <1>12, LiveUnchanged DEF vars, Abstract!vars
<1> QED
  BY <1>1, <1>2, <1>3, <1>4, <1>5, <1>6, <1>7, <1>8, <1>9, <1>10, <1>11, <1>12 DEF Next

\* An empty map has no live entry.
LEMMA InitRefines == Init => Abstract!Init
  BY DEF Init, Abstract!Init, live, Found, NoAnswer, Abstract!NoAnswer

\* The locked map with its lazy and its periodic expiry behaves as the map of
\* live entries: each Get answers what is live at one instant, and neither the
\* two-step Get nor cleanup is visible to callers.
THEOREM CacheRefinement == Spec => ImplementsCacheSpec
  BY CacheInvariant, InitRefines, StepRefines, PTL DEF Spec, ImplementsCacheSpec, Abstract!Spec
=============================================================================
