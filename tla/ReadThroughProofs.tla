------------------------ MODULE ReadThroughProofs ------------------------
(***************************************************************************)
(* The read-through services bound the age of what they grant, for every   *)
(* set of callers, keys and answers, every sequence of configured          *)
(* durations and every latency of the remote service.                      *)
(***************************************************************************)
EXTENDS ReadThrough, TLAPS

\* With empty caches and nobody waiting there is nothing stale.
LEMMA InitInv == Init => IndInv
<1> SUFFICES ASSUME Init PROVE IndInv
  OBVIOUS
<1> USE ReadThroughAssumption
<1>1. TypeOK
  <2>1. gen \in Gen /\ clock \in 0 .. MaxTime
    BY DEF Init, Gen
  <2>2. cache \in [Gen -> [Key -> Item \cup {Absent}]]
    BY DEF Init, EmptyCache
  <2>3. lastTrue \in [Key -> [Outcome -> Int]] /\ startedAt \in [Gen -> Int]
    BY DEF Init, Never
  <2>4. callGen \in [Caller -> Gen] /\ repliedAt \in [Caller -> Int]
    BY DEF Init, Gen
  <2>5. truth \in [Key -> Outcome] /\ duration \in [Gen -> Duration]
    BY DEF Init, Outcome
  <2> QED
    BY <2>1, <2>2, <2>3, <2>4, <2>5 DEF Init, TypeOK
<1>2. CallsAreOfExistingGenerations /\ RepliesAreRecent
  BY DEF Init, CallsAreOfExistingGenerations, RepliesAreRecent
<1>3. TruthIsCurrent /\ LastTrueIsPast /\ GenerationsStarted
  BY DEF Init, TruthIsCurrent, LastTrueIsPast, GenerationsStarted, Outcome, Never
<1>4. ItemsAreRecent
  BY DEF Init, ItemsAreRecent, EmptyCache
<1> QED
  BY <1>1, <1>2, <1>3, <1>4 DEF IndInv

\* A cached item only gets better supported when the service decides anew.
LEMMA FresherItems ==
  ASSUME TypeOK, TypeOK', ItemsAreRecent, UNCHANGED <<config, cache>>,
         \A q \in Key, p \in Outcome : lastTrue[q][p] <= lastTrue'[q][p]
  PROVE  ItemsAreRecent'
<1> SUFFICES ASSUME NEW n \in Gen, NEW k \in Key, cache[n][k] # Absent
             PROVE  /\ startedAt[n] <= lastTrue'[k][cache[n][k].data]
                    /\ cache[n][k].expiredAt
                         <= lastTrue'[k][cache[n][k].data] + MaxLatency + duration[n]
  BY DEF ItemsAreRecent, config
<1> DEFINE i == cache[n][k]
<1>1. i \in Item
  BY DEF TypeOK
<1>2. i.data \in Outcome /\ i.expiredAt \in Int
  BY <1>1 DEF Item, Outcome
<1>3. /\ startedAt[n] \in Int /\ MaxLatency \in Int
      /\ lastTrue[k][i.data] \in Int /\ lastTrue'[k][i.data] \in Int
  BY <1>2, ReadThroughAssumption DEF TypeOK
<1>4. duration[n] \in Int
  BY ReadThroughAssumption DEF TypeOK
<1>5. lastTrue[k][i.data] <= lastTrue'[k][i.data]
  BY <1>2
<1>6. startedAt[n] <= lastTrue[k][i.data]
      /\ i.expiredAt <= lastTrue[k][i.data] + MaxLatency + duration[n]
  BY DEF ItemsAreRecent
<1> QED
  BY <1>2, <1>3, <1>4, <1>5, <1>6

\* So does a reply on its way, while the clock stands.
LEMMA FresherTruth ==
  ASSUME TypeOK, TypeOK', ItemsAreRecent, RepliesAreRecent, CallsAreOfExistingGenerations,
         UNCHANGED <<clock, config, cache, pc, callGen, callKey, reply, repliedAt>>,
         \A q \in Key, p \in Outcome : lastTrue[q][p] <= lastTrue'[q][p]
  PROVE  RepliesAreRecent' /\ ItemsAreRecent'
<1>1. ItemsAreRecent'
  BY FresherItems
<1>2. RepliesAreRecent'
  <2> SUFFICES ASSUME NEW c \in Caller, pc[c] = "replied"
               PROVE  /\ reply[c] \in Outcome
                      /\ startedAt[callGen[c]] <= repliedAt[c]
                      /\ repliedAt[c] <= lastTrue'[callKey[c]][reply[c]]
                      /\ clock <= repliedAt[c] + MaxLatency
    BY DEF RepliesAreRecent, config
  <2>1. callKey[c] \in Key /\ reply[c] \in Outcome /\ repliedAt[c] \in Int
    BY DEF CallsAreOfExistingGenerations, RepliesAreRecent, TypeOK
  <2>2. repliedAt[c] <= lastTrue[callKey[c]][reply[c]]
    BY DEF RepliesAreRecent
  <2>3. lastTrue[callKey[c]][reply[c]] \in Int /\ lastTrue'[callKey[c]][reply[c]] \in Int
    BY <2>1 DEF TypeOK
  <2>4. repliedAt[c] <= lastTrue'[callKey[c]][reply[c]]
    BY <2>1, <2>2, <2>3
  <2> QED
    BY <2>4 DEF RepliesAreRecent
<1> QED
  BY <1>1, <1>2

\* Every step keeps the invariant.
LEMMA StepInv == IndInv /\ [Next]_vars => IndInv'
<1> SUFFICES ASSUME IndInv, [Next]_vars PROVE IndInv'
  OBVIOUS
<1> USE ReadThroughAssumption DEF world, config
<1>0. /\ TypeOK /\ CallsAreOfExistingGenerations /\ TruthIsCurrent
      /\ LastTrueIsPast /\ GenerationsStarted /\ RepliesAreRecent /\ ItemsAreRecent
  BY DEF IndInv
<1>1. ASSUME NEW c \in Caller, NEW k \in Key, Arrive(c, k) PROVE IndInv'
  BY <1>0, <1>1 DEF Arrive, IndInv, TypeOK, CallsAreOfExistingGenerations, TruthIsCurrent,
     LastTrueIsPast, GenerationsStarted, RepliesAreRecent, ItemsAreRecent, Gen
<1>2. ASSUME NEW c \in Caller, NEW r, Return(c, r), r \in Outcome \cup {Failed},
             UNCHANGED cache
      PROVE  IndInv'
  BY <1>0, <1>2 DEF Return, IndInv, TypeOK, CallsAreOfExistingGenerations, TruthIsCurrent,
     LastTrueIsPast, GenerationsStarted, RepliesAreRecent, ItemsAreRecent, Gen
<1>3. ASSUME NEW c \in Caller, LookupHit(c) PROVE IndInv'
  <2>1. callGen[c] \in Gen /\ callKey[c] \in Key
    BY <1>0, <1>3 DEF LookupHit, Hit, TypeOK, CallsAreOfExistingGenerations
  <2>2. cache[callGen[c]][callKey[c]] \in Item
    BY <1>0, <1>3, <2>1 DEF LookupHit, Hit, Live, TypeOK
  <2> QED
    BY <1>2, <1>3, <2>2 DEF LookupHit, Hit, Item, Outcome
<1>4. ASSUME NEW c \in Caller, LookupMiss(c) PROVE IndInv'
  BY <1>0, <1>4 DEF LookupMiss, IndInv, TypeOK, CallsAreOfExistingGenerations, TruthIsCurrent,
     LastTrueIsPast, GenerationsStarted, RepliesAreRecent, ItemsAreRecent, Gen
<1>5. ASSUME NEW c \in Caller, ReceiveError(c) PROVE IndInv'
  BY <1>2, <1>5 DEF ReceiveError
<1>6. ASSUME NEW c \in Caller, ReceiveRefused(c) PROVE IndInv'
  BY <1>2, <1>6 DEF ReceiveRefused, Outcome
<1>7. ASSUME NEW c \in Caller, ReceiveGranted(c) PROVE IndInv'
  <2> DEFINE n == callGen[c]
             k == callKey[c]
             i == [data |-> reply[c], expiredAt |-> clock + duration[n]]
  <2>1. n \in Gen /\ k \in Key /\ duration[n] \in Int /\ clock \in Int
    <3>1. n \in Gen /\ k \in Key
      BY <1>0, <1>7 DEF ReceiveGranted, TypeOK, CallsAreOfExistingGenerations
    <3>2. duration[n] \in Duration /\ clock \in Int
      BY <1>0, <3>1 DEF TypeOK
    <3> QED
      BY <3>1, <3>2
  <2>2. i \in Item
    BY <1>7, <2>1 DEF ReceiveGranted, Item
  <2>3. /\ startedAt[n] <= lastTrue[k][reply[c]]
        /\ clock + duration[n] <= lastTrue[k][reply[c]] + MaxLatency + duration[n]
    <3>1. /\ startedAt[n] <= repliedAt[c]
          /\ repliedAt[c] <= lastTrue[k][reply[c]]
          /\ clock <= repliedAt[c] + MaxLatency
      BY <1>0, <1>7 DEF ReceiveGranted, RepliesAreRecent
    <3>2. lastTrue[k][reply[c]] \in Int /\ repliedAt[c] \in Int /\ startedAt[n] \in Int
      BY <1>0, <1>7, <2>1 DEF ReceiveGranted, TypeOK, Outcome
    <3> QED
      BY <2>1, <3>1, <3>2
  <2>4. cache' = [cache EXCEPT ![n][k] = i] /\ UNCHANGED <<lastTrue, startedAt, duration>>
    BY <1>7 DEF ReceiveGranted, Return
  <2> HIDE DEF n, k
  <2>5. ItemsAreRecent'
    BY <1>0, <2>1, <2>2, <2>3, <2>4 DEF ItemsAreRecent, TypeOK
  <2>6. cache' \in [Gen -> [Key -> Item \cup {Absent}]]
    BY <1>0, <2>1, <2>2, <2>4 DEF TypeOK
  <2>7. /\ CallsAreOfExistingGenerations' /\ TruthIsCurrent' /\ LastTrueIsPast'
        /\ GenerationsStarted' /\ RepliesAreRecent'
    BY <1>0, <1>7 DEF ReceiveGranted, Return, TypeOK, CallsAreOfExistingGenerations,
       TruthIsCurrent, LastTrueIsPast, GenerationsStarted, RepliesAreRecent
  <2>8. TypeOK'
    <3>1. reply[c] \in Outcome /\ 0 \in Gen
      BY <1>7 DEF ReceiveGranted, Outcome, Gen
    <3> QED
      BY <1>0, <1>7, <2>6, <3>1 DEF ReceiveGranted, Return, TypeOK
  <2> QED
    BY <2>5, <2>7, <2>8 DEF IndInv
<1>8. ASSUME NEW c \in Caller, Decide(c) PROVE IndInv'
  <2>1. callKey[c] \in Key /\ callGen[c] \in Gen
    BY <1>0, <1>8 DEF Decide, TypeOK, CallsAreOfExistingGenerations
  <2>2. truth[callKey[c]] \in Outcome /\ clock \in Int
    BY <1>0, <2>1 DEF TypeOK
  <2>3. TypeOK'
    BY <1>0, <1>8, <2>2 DEF Decide, TypeOK
  <2>4. RepliesAreRecent'
    BY <1>0, <1>8, <2>1, <2>2
       DEF Decide, TypeOK, RepliesAreRecent, TruthIsCurrent, GenerationsStarted
  <2> QED
    BY <1>0, <1>8, <2>3, <2>4 DEF Decide, IndInv, CallsAreOfExistingGenerations, TruthIsCurrent,
       LastTrueIsPast, GenerationsStarted, ItemsAreRecent
<1>9. ASSUME NEW k \in Key, NEW o \in Outcome, Change(k, o) PROVE IndInv'
  <2>1. /\ lastTrue' \in [Key -> [Outcome -> Int]]
        /\ lastTrue'[k][o] = clock
        /\ \A q \in Key, p \in Outcome :
             q # k \/ p # o => lastTrue'[q][p] = lastTrue[q][p]
    BY <1>0, <1>9 DEF TypeOK, Change
  <2>2. TypeOK'
    BY <1>0, <1>9, <2>1 DEF TypeOK, Change
  <2>3. \A q \in Key, p \in Outcome : lastTrue[q][p] <= lastTrue'[q][p]
    <3> TAKE q \in Key, p \in Outcome
    <3>1. lastTrue[q][p] <= clock /\ lastTrue[q][p] \in Int
      BY <1>0 DEF LastTrueIsPast, TypeOK
    <3>2. CASE q = k /\ p = o
      BY <2>1, <3>1, <3>2
    <3>3. CASE q # k \/ p # o
      BY <2>1, <3>1, <3>3
    <3> QED
      BY <3>2, <3>3
  <2>4. TruthIsCurrent' /\ LastTrueIsPast'
    BY <1>0, <1>9, <2>1 DEF TruthIsCurrent, LastTrueIsPast, TypeOK, Change
  <2>5. RepliesAreRecent' /\ ItemsAreRecent'
    <3>1. UNCHANGED <<clock, config, cache, pc, callGen, callKey, reply, repliedAt>>
      BY <1>9 DEF Change
    <3> QED
      BY <1>0, <2>2, <2>3, <3>1, FresherTruth
  <2> QED
    BY <1>0, <1>9, <2>2, <2>4, <2>5 DEF Change, IndInv, CallsAreOfExistingGenerations,
       GenerationsStarted
<1>10. ASSUME NEW d \in Duration, Reload(d) PROVE IndInv'
  <2>1. gen + 1 \in Gen /\ gen \in Gen /\ clock \in Int
    BY <1>0, <1>10 DEF Reload, TypeOK, Gen
  <2>2. \A n \in Gen : n # gen + 1 =>
          /\ startedAt'[n] = startedAt[n] /\ duration'[n] = duration[n]
          /\ cache'[n] = cache[n]
    BY <1>0, <1>10 DEF Reload, TypeOK
  <2>3. startedAt'[gen + 1] = clock /\ cache'[gen + 1] = EmptyCache
    BY <1>0, <1>10, <2>1 DEF Reload, TypeOK
  <2>4. TypeOK'
    <3>1. EmptyCache \in [Key -> Item \cup {Absent}]
      BY DEF EmptyCache
    <3> QED
      BY <1>0, <1>10, <2>1, <3>1 DEF Reload, TypeOK
  <2>5. CallsAreOfExistingGenerations'
    BY <1>0, <1>10, <2>1 DEF Reload, CallsAreOfExistingGenerations, TypeOK, Gen
  <2>6. GenerationsStarted'
    BY <1>0, <1>10, <2>2, <2>3, <2>1 DEF Reload, GenerationsStarted
  <2>7. RepliesAreRecent'
    <3>1. ASSUME NEW c \in Caller, pc[c] = "replied"
          PROVE  callGen[c] \in Gen /\ callGen[c] # gen + 1
      <4>1. callGen[c] \in Gen /\ callGen[c] <= gen
        BY <1>0, <3>1 DEF CallsAreOfExistingGenerations, TypeOK
      <4> QED
        BY <2>1, <4>1 DEF Gen
    <3> QED
      BY <1>0, <1>10, <2>2, <3>1 DEF Reload, RepliesAreRecent
  <2>8. ItemsAreRecent'
    BY <1>0, <1>10, <2>2, <2>3 DEF Reload, ItemsAreRecent, EmptyCache
  <2> QED
    BY <1>0, <1>10, <2>4, <2>5, <2>6, <2>7, <2>8
       DEF Reload, IndInv, TruthIsCurrent, LastTrueIsPast
<1>11. CASE Elapse
  <2>1. /\ lastTrue' \in [Key -> [Outcome -> Int]]
        /\ \A q \in Key : lastTrue'[q][truth[q]] = clock + 1
        /\ \A q \in Key, p \in Outcome : p # truth[q] => lastTrue'[q][p] = lastTrue[q][p]
    BY <1>0, <1>11 DEF TypeOK, Elapse
  <2>2. TypeOK' /\ clock \in Int /\ clock' = clock + 1
    BY <1>0, <1>11, <2>1 DEF TypeOK, Elapse
  <2>3. \A q \in Key, p \in Outcome : lastTrue[q][p] <= lastTrue'[q][p]
    <3> TAKE q \in Key, p \in Outcome
    <3>1. lastTrue[q][p] <= clock /\ lastTrue[q][p] \in Int
      BY <1>0 DEF LastTrueIsPast, TypeOK
    <3>2. CASE p = truth[q]
      BY <2>1, <2>2, <3>1, <3>2
    <3>3. CASE p # truth[q]
      BY <2>1, <3>1, <3>3
    <3> QED
      BY <3>2, <3>3
  <2>4. TruthIsCurrent' /\ LastTrueIsPast' /\ GenerationsStarted'
    <3>1. TruthIsCurrent'
      BY <1>11, <2>1 DEF Elapse, TruthIsCurrent
    <3>2. LastTrueIsPast'
      BY <1>0, <1>11, <2>1, <2>2 DEF Elapse, LastTrueIsPast, TypeOK
    <3>3. GenerationsStarted'
      BY <1>0, <1>11, <2>2 DEF Elapse, GenerationsStarted, TypeOK
    <3> QED
      BY <3>1, <3>2, <3>3
  <2>5. ItemsAreRecent'
    <3>1. UNCHANGED <<config, cache>>
      BY <1>11 DEF Elapse
    <3> QED
      BY <1>0, <2>2, <2>3, <3>1, FresherItems
  <2>6. RepliesAreRecent'
    <3> SUFFICES ASSUME NEW c \in Caller, pc'[c] = "replied"
                 PROVE  /\ reply'[c] \in Outcome
                        /\ startedAt'[callGen'[c]] <= repliedAt'[c]
                        /\ repliedAt'[c] <= lastTrue'[callKey'[c]][reply'[c]]
                        /\ clock' <= repliedAt'[c] + MaxLatency
      BY DEF RepliesAreRecent
    <3>1. pc[c] = "replied" /\ UNCHANGED <<reply, startedAt, callGen, callKey, repliedAt>>
      BY <1>11 DEF Elapse
    <3>2. callKey[c] \in Key /\ reply[c] \in Outcome /\ repliedAt[c] \in Int
      BY <1>0, <3>1 DEF CallsAreOfExistingGenerations, RepliesAreRecent, TypeOK
    <3>3. clock < repliedAt[c] + MaxLatency
      BY <1>11, <3>1 DEF Elapse
    <3>4. startedAt[callGen[c]] <= repliedAt[c] /\ repliedAt[c] <= lastTrue[callKey[c]][reply[c]]
      BY <1>0, <3>1 DEF RepliesAreRecent
    <3>5. repliedAt[c] <= lastTrue'[callKey[c]][reply[c]]
      BY <1>0, <2>1, <2>3, <3>2, <3>4 DEF TypeOK
    <3> QED
      BY <2>2, <3>1, <3>2, <3>3, <3>4, <3>5
  <2> QED
    BY <1>0, <1>11, <2>2, <2>4, <2>5, <2>6 DEF Elapse, IndInv, CallsAreOfExistingGenerations
<1>12. CASE UNCHANGED vars
  BY <1>0, <1>12 DEF vars, IndInv, TypeOK, CallsAreOfExistingGenerations, TruthIsCurrent,
     LastTrueIsPast, GenerationsStarted, RepliesAreRecent, ItemsAreRecent
<1> QED
  BY <1>1, <1>3, <1>4, <1>5, <1>6, <1>7, <1>8, <1>9, <1>10, <1>11, <1>12 DEF Next

\* The invariant holds for ever: whatever a cache holds and whatever reply is
\* on its way was the service's decision, recently enough.
THEOREM ReadThroughInvariant == Spec => []IndInv
  BY InitInv, StepInv, PTL DEF Spec

---------------------------------------------------------------------------
(* What a caller is told.                                                  *)

\* A step that tells a caller something is a hit or the receipt of a reply.
LEMMA WhoTells ==
  ASSUME IndInv, [Next]_vars, NEW c \in Caller, Told(c, Outcome)
  PROVE  \/ /\ Hit(c)
            /\ verdict'[c] = cache[callGen[c]][callKey[c]].data
            /\ verdict'[c] \in Data
         \/ /\ pc[c] = "replied"
            /\ verdict'[c] = reply[c]
<1> USE ReadThroughAssumption DEF Told
<1>0. verdict \in [Caller -> Outcome \cup {Failed, Absent}]
  BY DEF IndInv, TypeOK
<1>1. ASSUME NEW b \in Caller, NEW k \in Key, Arrive(b, k) PROVE FALSE
  BY <1>0, <1>1 DEF Arrive
<1>2. ASSUME NEW b \in Caller, NEW r, Return(b, r) PROVE b = c /\ verdict'[c] = r
  BY <1>0, <1>2 DEF Return
<1>3. ASSUME NEW b \in Caller, LookupHit(b)
      PROVE  Hit(c) /\ verdict'[c] = cache[callGen[c]][callKey[c]].data /\ verdict'[c] \in Data
  <2>1. b = c /\ Hit(c) /\ verdict'[c] = cache[callGen[c]][callKey[c]].data
    BY <1>2, <1>3 DEF LookupHit, Hit
  <2>2. cache[callGen[c]][callKey[c]] \in Item
    BY <2>1 DEF Hit, Live, IndInv, TypeOK, CallsAreOfExistingGenerations
  <2> QED
    BY <2>1, <2>2 DEF Item
<1>4. ASSUME NEW b \in Caller, ReceiveError(b) PROVE FALSE
  BY <1>2, <1>4 DEF ReceiveError
<1>5. ASSUME NEW b \in Caller, ReceiveRefused(b) \/ ReceiveGranted(b)
      PROVE  pc[c] = "replied" /\ verdict'[c] = reply[c]
  BY <1>2, <1>5 DEF ReceiveRefused, ReceiveGranted
<1>6. ASSUME UNCHANGED verdict PROVE FALSE
  BY <1>6
<1> QED
  BY <1>1, <1>3, <1>4, <1>5, <1>6 DEF Next, vars, LookupMiss, Decide, Change, Reload, Elapse

\* The arithmetic of both cases, for one step and one caller.
LEMMA ToldIsRecent ==
  ASSUME IndInv, [Next]_vars, NEW c \in Caller, Told(c, Outcome)
  PROVE  /\ lastTrue[callKey[c]][verdict'[c]] >= startedAt[callGen[c]]
         /\ Age(c) <= Grace(c) + MaxLatency
         /\ verdict'[c] = Refused => Age(c) <= MaxLatency
<1> DEFINE n == callGen[c]
           k == callKey[c]
           v == verdict'[c]
<1>1. /\ n \in Gen /\ k \in Key /\ v \in Outcome
  BY WhoTells DEF Told, Hit, IndInv, TypeOK, CallsAreOfExistingGenerations
<1>2. duration[n] \in Duration
  BY <1>1 DEF IndInv, TypeOK
<1>3. /\ duration[n] \in Int /\ MaxLatency \in Nat /\ clock \in Int
      /\ lastTrue[k][v] \in Int /\ startedAt[n] \in Int
  <2>1. duration[n] \in Int /\ MaxLatency \in Nat
    BY <1>2, ReadThroughAssumption
  <2>2. lastTrue[k][v] \in Int /\ startedAt[n] \in Int /\ clock \in Int
    <3> HIDE DEF v
    <3> QED
      BY <1>1 DEF IndInv, TypeOK
  <2> QED
    BY <2>1, <2>2
<1>4. CASE Hit(c) /\ v = cache[n][k].data /\ v \in Data
  <2>1. cache[n][k] \in Item /\ clock <= cache[n][k].expiredAt
    BY <1>1, <1>4 DEF Hit, Live, IndInv, TypeOK
  <2>2. /\ startedAt[n] <= lastTrue[k][v]
        /\ cache[n][k].expiredAt <= lastTrue[k][v] + MaxLatency + duration[n]
    BY <1>1, <1>4 DEF Hit, Live, IndInv, ItemsAreRecent
  <2>3. cache[n][k].expiredAt \in Int
    BY <2>1 DEF Item
  <2>4. v # Refused
    BY <1>4, ReadThroughAssumption
  <2> QED
    BY <1>3, <2>1, <2>2, <2>3, <2>4 DEF Age, Grace
<1>5. CASE pc[c] = "replied" /\ v = reply[c]
  <2>1. /\ startedAt[n] <= repliedAt[c] /\ repliedAt[c] <= lastTrue[k][v]
        /\ clock <= repliedAt[c] + MaxLatency
    BY <1>5 DEF IndInv, RepliesAreRecent
  <2>2. repliedAt[c] \in Int
    BY DEF IndInv, TypeOK
  <2> QED
    BY <1>3, <2>1, <2>2 DEF Age, Grace
<1> QED
  BY <1>4, <1>5, WhoTells

\* A grant is at most one cache duration and one latency old, for every
\* interleaving of requests, late replies, revocations and reloads.
THEOREM Staleness == Spec => BoundedStaleness
<1>1. IndInv /\ [Next]_vars =>
        [\A c \in Caller : Told(c, Data) => Age(c) <= Grace(c) + MaxLatency]_vars
  BY ToldIsRecent DEF Told, Outcome
<1> QED
  BY <1>1, ReadThroughInvariant, PTL DEF Spec, BoundedStaleness

\* Nothing granted before a configuration was received is granted under it.
THEOREM Flush == Spec => ReloadFlushes
<1>1. IndInv /\ [Next]_vars =>
        [\A c \in Caller : Told(c, Data) =>
           lastTrue[callKey[c]][verdict'[c]] >= startedAt[callGen[c]]]_vars
  BY ToldIsRecent DEF Told, Outcome
<1> QED
  BY <1>1, ReadThroughInvariant, PTL DEF Spec, ReloadFlushes

\* A refusal comes from the service, never from a cache.
THEOREM FreshRefusal == Spec => RefusalsAreFresh
<1>1. IndInv /\ [Next]_vars =>
        [\A c \in Caller : Told(c, {Refused}) => Age(c) <= MaxLatency]_vars
  BY ToldIsRecent DEF Told, Outcome
<1> QED
  BY <1>1, ReadThroughInvariant, PTL DEF Spec, RefusalsAreFresh
=============================================================================
