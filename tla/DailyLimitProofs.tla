------------------------- MODULE DailyLimitProofs -------------------------
(***************************************************************************)
(* The daily limit holds for any number of requests, replicas, days and    *)
(* limits.                                                                 *)
(***************************************************************************)
EXTENDS DailyLimit, FiniteSetTheorems, Functions, TLAPS

\* Nobody is counted yet.
LEMMA InitNumbered == Init => Numbered
<1> SUFFICES ASSUME Init PROVE Numbered
  OBVIOUS
<1> USE DailyLimitAssumption
<1>1. TypeOK
  <2>1. day \in Day /\ keyDay \in [Request -> Day]
    BY DEF Init, Day
  <2>2. counter \in [App -> [Day -> Nat]] /\ dropped \in [App -> SUBSET Day]
    BY DEF Init
  <2> QED
    BY <2>1, <2>2 DEF Init, TypeOK
<1>2. KeysAreCurrent
  BY DEF Init, KeysAreCurrent, Asked
<1>3. NumbersAreDistinct /\ AdmittedWithinNumber
  BY DEF Init, NumbersAreDistinct, AdmittedWithinNumber, Decided, Asked
<1> QED
  BY <1>1, <1>2, <1>3 DEF Numbered

\* Every step keeps the invariant.
LEMMA StepNumbered == Numbered /\ [Next]_vars => Numbered'
<1> SUFFICES ASSUME Numbered, [Next]_vars PROVE Numbered'
  OBVIOUS
<1> USE DailyLimitAssumption
<1>0. TypeOK /\ KeysAreCurrent /\ NumbersAreDistinct /\ AdmittedWithinNumber
  BY DEF Numbered
<1>1. ASSUME NEW r \in Request, NEW a \in App, Pass(r, a) PROVE Numbered'
  BY <1>0, <1>1 DEF Pass, Numbered, TypeOK, KeysAreCurrent, NumbersAreDistinct,
     AdmittedWithinNumber, Asked, Decided, SameKey, Allows
<1>2. ASSUME NEW r \in Request, NEW a \in App, MakeKey(r, a) PROVE Numbered'
  <2>1. limits[a] \in Int
    BY <1>0, <1>2 DEF MakeKey, TypeOK
  <2>2. TypeOK'
    BY <1>0, <1>2, <2>1 DEF MakeKey, TypeOK
  <2>3. KeysAreCurrent'
    <3>1. day \in Day /\ day \notin dropped[a] /\ day <= day
      BY <1>0 DEF KeysAreCurrent, TypeOK, Day
    <3> QED
      BY <1>0, <1>2, <3>1 DEF MakeKey, TypeOK, KeysAreCurrent, Asked
  <2>4. NumbersAreDistinct' /\ AdmittedWithinNumber'
    BY <1>0, <1>2 DEF MakeKey, TypeOK, KeysAreCurrent, NumbersAreDistinct,
       AdmittedWithinNumber, Asked, Decided, SameKey, Allows
  <2> QED
    BY <2>2, <2>3, <2>4 DEF Numbered
<1>3. ASSUME NEW r \in Request, Send(r) PROVE Numbered'
  BY <1>0, <1>3 DEF Send, Numbered, TypeOK, KeysAreCurrent, NumbersAreDistinct,
     AdmittedWithinNumber, Asked, Decided, SameKey, Allows
<1>4. ASSUME NEW r \in Request, Receive(r) PROVE Numbered'
  BY <1>0, <1>4 DEF Receive, Numbered, TypeOK, KeysAreCurrent, NumbersAreDistinct,
     AdmittedWithinNumber, Asked, Decided, SameKey, Allows
<1>5. ASSUME NEW r \in Request, ReceiveError(r) PROVE Numbered'
  BY <1>0, <1>5 DEF ReceiveError, Numbered, TypeOK, KeysAreCurrent, NumbersAreDistinct,
     AdmittedWithinNumber, Asked, Decided, SameKey, Allows
<1>6. ASSUME NEW r \in Request, Increment(r) PROVE Numbered'
  <2>1. app[r] \in App /\ keyDay[r] \in Day /\ Asked(r)
    BY <1>0, <1>6 DEF Increment, KeysAreCurrent, TypeOK
  <2> DEFINE n == counter[app[r]][keyDay[r]] + 1
  <2>2. n \in Nat /\ n >= 1
    BY <1>0, <2>1 DEF TypeOK
  <2>3. /\ counter' = [counter EXCEPT ![app[r]][keyDay[r]] = n]
        /\ number' = [number EXCEPT ![r] = n]
        /\ pc' = [pc EXCEPT ![r] = IF pc[r] = "sent" THEN "counted" ELSE pc[r]]
        /\ UNCHANGED <<day, limits, dropped, app, keyDay, limit>>
        /\ pc[r] \in {"sent", "failed"} /\ number[r] = 0
    BY <1>6 DEF Increment
  <2>4. \A a \in App, d \in Day :
          /\ counter'[a][d] \in Nat
          /\ counter'[a][d] = IF a = app[r] /\ d = keyDay[r] THEN n ELSE counter[a][d]
    BY <1>0, <2>1, <2>2, <2>3 DEF TypeOK
  <2>5. TypeOK'
    BY <1>0, <2>1, <2>2, <2>3 DEF TypeOK
  <2>6. KeysAreCurrent'
    BY <1>0, <2>3 DEF TypeOK, KeysAreCurrent, Asked
  <2>7. ASSUME NEW q \in Request, q # r, Decided(q)', Asked(q)'
        PROVE  /\ Decided(q) /\ Asked(q) /\ app[q] \in App /\ keyDay[q] \in Day
               /\ number'[q] = number[q] /\ number[q] >= 1
               /\ keyDay[q] \notin dropped[app[q]] =>
                    number[q] <= counter[app[q]][keyDay[q]]
    BY <1>0, <2>3, <2>7 DEF TypeOK, KeysAreCurrent, NumbersAreDistinct, Decided, Asked
  <2>8. ASSUME Decided(r)', NEW q \in Request, q # r, Decided(q)', Asked(q)', SameKey(q, r)'
        PROVE  number'[q] # number'[r]
    <3>1. pc[r] = "sent"
      BY <1>0, <2>3, <2>8 DEF TypeOK, Decided
    <3>2. keyDay[r] \notin dropped[app[r]]
      BY <1>0, <3>1 DEF KeysAreCurrent
    <3>3. SameKey(q, r) /\ number'[r] = n
      BY <1>0, <2>3, <2>8 DEF SameKey, TypeOK
    <3>4. number[q] < n
      BY <1>0, <2>1, <2>2, <2>7, <2>8, <3>2, <3>3 DEF SameKey, TypeOK
    <3> QED
      BY <1>0, <2>2, <2>7, <2>8, <3>3, <3>4 DEF TypeOK
  <2>9. ASSUME NEW q \in Request, Decided(q)', Asked(q)'
        PROVE  /\ number'[q] >= 1
               /\ keyDay'[q] \notin dropped'[app'[q]] =>
                    number'[q] <= counter'[app'[q]][keyDay'[q]]
    <3>1. CASE q = r
      BY <1>0, <2>1, <2>2, <2>3, <2>4, <3>1 DEF TypeOK
    <3>2. CASE q # r
      <4>1. number[q] \in Nat /\ counter[app[q]][keyDay[q]] \in Nat
        BY <1>0, <2>7, <2>9, <3>2 DEF TypeOK
      <4>2. counter[app[q]][keyDay[q]] <= counter'[app[q]][keyDay[q]]
        BY <2>2, <2>4, <2>7, <2>9, <3>2, <4>1
      <4>3. counter'[app[q]][keyDay[q]] \in Nat
        BY <2>4, <2>7, <2>9, <3>2
      <4> QED
        BY <2>3, <2>7, <2>9, <3>2, <4>1, <4>2, <4>3
    <3> QED
      BY <3>1, <3>2
  <2>10. ASSUME NEW p \in Request, NEW q \in Request, p # q, Decided(p)', Decided(q)',
                Asked(p)', Asked(q)', SameKey(p, q)'
         PROVE  number'[p] # number'[q]
    <3>1. CASE p = r
      BY <2>8, <2>10, <3>1 DEF SameKey
    <3>2. CASE q = r
      BY <2>8, <2>10, <3>2
    <3>3. CASE p # r /\ q # r
      <4>1. SameKey(p, q)
        BY <2>3, <2>10 DEF SameKey
      <4>2. number[p] # number[q]
        BY <1>0, <2>7, <2>10, <3>3, <4>1 DEF NumbersAreDistinct
      <4> QED
        BY <2>7, <2>10, <3>3, <4>2
    <3> QED
      BY <3>1, <3>2, <3>3
  <2>11. NumbersAreDistinct'
    BY <2>9, <2>10 DEF NumbersAreDistinct
  <2>12. AdmittedWithinNumber'
    BY <1>0, <2>3 DEF AdmittedWithinNumber, Allows, Asked, TypeOK
  <2> QED
    BY <2>5, <2>6, <2>11, <2>12 DEF Numbered
<1>7. ASSUME NEW a \in App, NEW d \in Day, DropCounter(a, d) PROVE Numbered'
  <2>1. \A b \in App, e \in Day : b # a \/ e # d => counter'[b][e] = counter[b][e]
    BY <1>0, <1>7 DEF DropCounter, TypeOK
  <2>2. /\ dropped' = [dropped EXCEPT ![a] = dropped[a] \cup {d}]
        /\ d < day /\ ~Awaited(a, d)
        /\ UNCHANGED <<day, limits, pc, app, keyDay, limit, number>>
    BY <1>7 DEF DropCounter
  <2>3. TypeOK'
    BY <1>0, <1>7 DEF DropCounter, TypeOK
  <2>4. KeysAreCurrent'
    BY <1>0, <2>2 DEF KeysAreCurrent, Awaited, Asked, TypeOK
  <2>5. NumbersAreDistinct'
    <3>1. ASSUME NEW r \in Request, Decided(r)', Asked(r)'
          PROVE  /\ number'[r] >= 1
                 /\ keyDay'[r] \notin dropped'[app'[r]] =>
                      number'[r] <= counter'[app'[r]][keyDay'[r]]
      <4>1. Decided(r) /\ Asked(r) /\ app[r] \in App /\ keyDay[r] \in Day
        BY <1>0, <2>2, <3>1 DEF Decided, Asked, KeysAreCurrent, TypeOK
      <4>2. keyDay[r] \notin dropped'[app[r]] =>
              keyDay[r] \notin dropped[app[r]] /\ ~(app[r] = a /\ keyDay[r] = d)
        BY <1>0, <2>2, <4>1 DEF TypeOK
      <4> QED
        BY <1>0, <2>1, <2>2, <4>1, <4>2 DEF NumbersAreDistinct
    <3>2. ASSUME NEW q \in Request, NEW r \in Request, q # r, Decided(q)', Decided(r)',
                 Asked(q)', Asked(r)', SameKey(q, r)'
          PROVE  number'[q] # number'[r]
      BY <1>0, <2>2, <3>2 DEF NumbersAreDistinct, Decided, Asked, SameKey
    <3> QED
      BY <3>1, <3>2 DEF NumbersAreDistinct
  <2>6. AdmittedWithinNumber'
    BY <1>0, <2>2 DEF AdmittedWithinNumber, Allows, Asked
  <2> QED
    BY <2>3, <2>4, <2>5, <2>6 DEF Numbered
<1>8. ASSUME NEW table \in LimitTable, ReceiveConfig(table) PROVE Numbered'
  BY <1>0, <1>8 DEF ReceiveConfig, Numbered, TypeOK, KeysAreCurrent, NumbersAreDistinct,
     AdmittedWithinNumber, Asked, Decided, SameKey, Allows
<1>9. CASE Midnight
  <2>1. day \in Int /\ day' = day + 1
    BY <1>0, <1>9 DEF Midnight, TypeOK, Day
  <2>2. TypeOK'
    BY <1>0, <1>9 DEF Midnight, TypeOK, Day
  <2>3. KeysAreCurrent'
    <3>1. \A r \in Request : keyDay[r] \in Int
      BY <1>0 DEF TypeOK, Day
    <3>2. \A a \in App : \A d \in dropped[a] : d \in Int
      BY <1>0 DEF TypeOK, Day
    <3> QED
      BY <1>0, <1>9, <2>1, <3>1, <3>2 DEF Midnight, KeysAreCurrent, Asked
  <2>4. NumbersAreDistinct' /\ AdmittedWithinNumber'
    BY <1>0, <1>9 DEF Midnight, NumbersAreDistinct, AdmittedWithinNumber, Asked, Decided,
       SameKey, Allows
  <2> QED
    BY <2>2, <2>3, <2>4 DEF Numbered
<1>10. CASE UNCHANGED vars
  BY <1>0, <1>10 DEF vars, Numbered, TypeOK, KeysAreCurrent, NumbersAreDistinct,
     AdmittedWithinNumber, Asked, Decided, SameKey, Allows
<1> QED
  BY <1>1, <1>2, <1>3, <1>4, <1>5, <1>6, <1>7, <1>8, <1>9, <1>10 DEF Next

\* Nobody has a number yet.
LEMMA InitGaps == Init => NumbersHaveNoGaps /\ FinitelyManyCounted
<1> SUFFICES ASSUME Init PROVE NumbersHaveNoGaps /\ FinitelyManyCounted
  OBVIOUS
<1>1. \A a \in App, d \in Day : counter[a][d] = 0
  BY DEF Init
<1>2. \A r \in Request : number[r] = 0
  BY DEF Init
<1>3. NumbersHaveNoGaps
  BY <1>1, <1>2 DEF NumbersHaveNoGaps
<1>4. {q \in Request : number[q] > 0} = {}
  BY <1>2
<1> QED
  BY <1>3, <1>4, FS_EmptySet DEF FinitelyManyCounted

\* A step that gives out no number and raises no counter leaves no gap.
LEMMA GapFrame ==
  ASSUME Numbered, NumbersHaveNoGaps, FinitelyManyCounted,
         number' = number,
         \A q \in Request : number[q] > 0 => app'[q] = app[q] /\ keyDay'[q] = keyDay[q],
         \A a \in App, d \in Day : counter'[a][d] \in Nat /\ counter'[a][d] <= counter[a][d]
  PROVE  NumbersHaveNoGaps' /\ FinitelyManyCounted'
<1> DEFINE TakenNext(a, d, m) == \E q \in Request : app'[q] = a /\ keyDay'[q] = d /\ number'[q] = m
<1>0. \A r \in Request : number[r] \in Nat
  BY DEF Numbered, TypeOK
<1>1. ASSUME NEW a, NEW d, NEW m \in Nat \ {0}, Taken(a, d, m)
      PROVE  TakenNext(a, d, m)
  <2>1. PICK q \in Request : app[q] = a /\ keyDay[q] = d /\ number[q] = m
    BY <1>1 DEF Taken
  <2>2. number[q] > 0
    BY <2>1
  <2> QED
    BY <2>1, <2>2
<1> HIDE DEF TakenNext
<1>2. ASSUME NEW a \in App, NEW d \in Day, NEW m \in 1 .. counter'[a][d]
      PROVE  TakenNext(a, d, m)
  <2>1. counter[a][d] \in Nat /\ m \in 1 .. counter[a][d] /\ m \in Nat \ {0}
    BY DEF Numbered, TypeOK
  <2> QED
    BY <1>1, <2>1 DEF NumbersHaveNoGaps
<1>3. ASSUME NEW r \in Request, NEW m \in 1 .. number'[r]
      PROVE  TakenNext(app'[r], keyDay'[r], m)
  <2>1. number[r] > 0 /\ m \in 1 .. number[r] /\ m \in Nat \ {0}
    BY <1>0
  <2>2. Taken(app[r], keyDay[r], m)
    BY <2>1 DEF NumbersHaveNoGaps
  <2>3. app'[r] = app[r] /\ keyDay'[r] = keyDay[r]
    BY <2>1
  <2> QED
    BY <1>1, <2>1, <2>2, <2>3
<1>4. FinitelyManyCounted'
  BY DEF FinitelyManyCounted
<1> QED
  BY <1>2, <1>3, <1>4 DEF NumbersHaveNoGaps, Taken, TakenNext

\* Increment gives out the number that comes next.
LEMMA GapIncrement ==
  ASSUME Numbered, NumbersHaveNoGaps, FinitelyManyCounted, NEW r \in Request, Increment(r)
  PROVE  NumbersHaveNoGaps' /\ FinitelyManyCounted'
<1>0. /\ \A q \in Request : number[q] \in Nat
      /\ \A a \in App, d \in Day : counter[a][d] \in Nat
      /\ app[r] \in App /\ keyDay[r] \in Day
  BY DEF Numbered, TypeOK, KeysAreCurrent, Increment
<1> DEFINE TakenNext(a, d, m) == \E q \in Request : app'[q] = a /\ keyDay'[q] = d /\ number'[q] = m
<1> DEFINE k == counter[app[r]][keyDay[r]] + 1
<1>1. /\ counter' = [counter EXCEPT ![app[r]][keyDay[r]] = k]
      /\ number' = [number EXCEPT ![r] = k]
      /\ app' = app /\ keyDay' = keyDay /\ number[r] = 0
  BY DEF Increment
<1>2. /\ number'[r] = k
      /\ \A q \in Request \ {r} : number'[q] = number[q]
      /\ \A a \in App, d \in Day :
           counter'[a][d] = IF a = app[r] /\ d = keyDay[r] THEN k ELSE counter[a][d]
      /\ k \in Nat /\ k > 0
  BY <1>0, <1>1 DEF Numbered, TypeOK
<1>3. ASSUME NEW a, NEW d, NEW m \in Nat \ {0}, Taken(a, d, m)
      PROVE  TakenNext(a, d, m)
  <2>1. PICK q \in Request : app[q] = a /\ keyDay[q] = d /\ number[q] = m
    BY <1>3 DEF Taken
  <2>2. q # r
    BY <1>1, <2>1
  <2> QED
    BY <1>1, <1>2, <2>1, <2>2
<1>4. TakenNext(app[r], keyDay[r], k)
  BY <1>1, <1>2
<1>5. ASSUME NEW m \in 1 .. k PROVE TakenNext(app[r], keyDay[r], m)
  <2>1. CASE m = k
    BY <1>4, <2>1
  <2>2. CASE m # k
    <3>1. m \in 1 .. counter[app[r]][keyDay[r]] /\ m \in Nat \ {0}
      BY <1>0, <1>2, <2>2
    <3>2. Taken(app[r], keyDay[r], m)
      BY <1>0, <3>1 DEF NumbersHaveNoGaps
    <3> QED
      BY <1>3, <3>1, <3>2
  <2> QED
    BY <2>1, <2>2
<1> HIDE DEF k, TakenNext
<1>6. ASSUME NEW a \in App, NEW d \in Day, NEW m \in 1 .. counter'[a][d]
      PROVE  TakenNext(a, d, m)
  <2>1. CASE a = app[r] /\ d = keyDay[r]
    BY <1>2, <1>5, <2>1
  <2>2. CASE ~(a = app[r] /\ d = keyDay[r])
    <3>1. m \in 1 .. counter[a][d] /\ m \in Nat \ {0}
      BY <1>0, <1>2, <2>2
    <3> QED
      BY <1>3, <3>1 DEF NumbersHaveNoGaps
  <2> QED
    BY <2>1, <2>2
<1>7. ASSUME NEW q \in Request, NEW m \in 1 .. number'[q]
      PROVE  TakenNext(app'[q], keyDay'[q], m)
  <2>1. CASE q = r
    BY <1>1, <1>2, <1>5, <2>1
  <2>2. CASE q # r
    <3>1. m \in 1 .. number[q] /\ m \in Nat \ {0}
      BY <1>0, <1>2, <2>2
    <3>2. Taken(app[q], keyDay[q], m)
      BY <3>1 DEF NumbersHaveNoGaps
    <3> QED
      BY <1>1, <1>3, <3>1, <3>2
  <2> QED
    BY <2>1, <2>2
<1>8. FinitelyManyCounted'
  <2>1. {q \in Request : number'[q] > 0} = {q \in Request : number[q] > 0} \cup {r}
    BY <1>0, <1>2
  <2>2. IsFiniteSet({q \in Request : number[q] > 0} \cup {r})
    BY FS_AddElement DEF FinitelyManyCounted
  <2> QED
    BY <2>1, <2>2 DEF FinitelyManyCounted
<1> QED
  BY <1>6, <1>7, <1>8 DEF NumbersHaveNoGaps, Taken, TakenNext

\* Every step leaves the numbers without a gap.
LEMMA StepGaps ==
  ASSUME Numbered, NumbersHaveNoGaps, FinitelyManyCounted, [Next]_vars
  PROVE  NumbersHaveNoGaps' /\ FinitelyManyCounted'
<1>0. /\ counter \in [App -> [Day -> Nat]]
      /\ \A q \in Request : number[q] > 0 => pc[q] # "idle"
  BY DEF Numbered, TypeOK, KeysAreCurrent
<1>1. ASSUME UNCHANGED <<counter, app, keyDay, number>>
      PROVE  NumbersHaveNoGaps' /\ FinitelyManyCounted'
  <2>1. \A a \in App, d \in Day : counter'[a][d] \in Nat /\ counter'[a][d] <= counter[a][d]
    BY <1>0, <1>1
  <2> QED
    BY <1>1, <2>1, GapFrame
<1>2. ASSUME NEW r \in Request, NEW a \in App, MakeKey(r, a)
      PROVE  NumbersHaveNoGaps' /\ FinitelyManyCounted'
  <2>1. /\ number' = number /\ counter' = counter /\ pc[r] = "idle"
        /\ app' = [app EXCEPT ![r] = a] /\ keyDay' = [keyDay EXCEPT ![r] = day]
    BY <1>2 DEF MakeKey
  <2>2. \A q \in Request : number[q] > 0 => app'[q] = app[q] /\ keyDay'[q] = keyDay[q]
    BY <1>0, <2>1 DEF Numbered, TypeOK
  <2>3. \A b \in App, d \in Day : counter'[b][d] \in Nat /\ counter'[b][d] <= counter[b][d]
    BY <1>0, <2>1
  <2> QED
    BY <2>1, <2>2, <2>3, GapFrame
<1>3. ASSUME NEW a \in App, NEW d \in Day, DropCounter(a, d)
      PROVE  NumbersHaveNoGaps' /\ FinitelyManyCounted'
  <2>1. /\ number' = number /\ app' = app /\ keyDay' = keyDay
        /\ counter' = [counter EXCEPT ![a][d] = 0]
    BY <1>3 DEF DropCounter
  <2>2. \A b \in App, e \in Day : counter'[b][e] \in Nat /\ counter'[b][e] <= counter[b][e]
    BY <1>0, <2>1
  <2> QED
    BY <2>1, <2>2, GapFrame
<1> QED
  BY <1>1, <1>2, <1>3, GapIncrement DEF Next, vars, Pass, Send, Receive, ReceiveError,
     ReceiveConfig, Midnight

LEMMA InitInv == Init => IndInv
  BY InitNumbered, InitGaps DEF IndInv

LEMMA StepInv == IndInv /\ [Next]_vars => IndInv'
  BY StepNumbered, StepGaps DEF IndInv

\* Requests of one application and day have different numbers without a gap,
\* and those admitted have one within their limit.
THEOREM DailyLimitInvariant == Spec => []IndInv
  BY InitInv, StepInv, PTL DEF Spec

\* Different numbers from 1 to l: there are at most l of them.
LEMMA NumbersBound ==
  ASSUME Numbered
  PROVE  AdmittedWithinLimit
<1> SUFFICES ASSUME NEW a \in App, NEW d \in Day, NEW l \in {limit[r] : r \in Request}
             PROVE  Cardinality({r \in Request : /\ pc[r] = "admitted" /\ Asked(r)
                                                 /\ app[r] = a /\ keyDay[r] = d /\ limit[r] <= l})
                      <= AtLeastZero(l)
  BY DEF AdmittedWithinLimit
<1> DEFINE S == {r \in Request : /\ pc[r] = "admitted" /\ Asked(r)
                                 /\ app[r] = a /\ keyDay[r] = d /\ limit[r] <= l}
           f == [r \in S |-> number[r]]
<1>1. l \in Int
  BY DEF Numbered, TypeOK
<1>2. ASSUME NEW r \in S PROVE number[r] \in 1 .. l
  <2>1. number[r] \in Nat /\ limit[r] \in Int /\ limit[r] <= l
    BY DEF Numbered, TypeOK
  <2>2. number[r] >= 1 /\ number[r] <= limit[r]
    BY DEF Numbered, NumbersAreDistinct, AdmittedWithinNumber, Decided, Allows
  <2> QED
    BY <1>1, <2>1, <2>2
<1>3. ASSUME NEW q \in S, NEW r \in S, q # r PROVE number[q] # number[r]
  BY <1>3 DEF Numbered, NumbersAreDistinct, Decided, SameKey
<1>4. f \in Injection(S, 1 .. l)
  <2>1. f \in [S -> 1 .. l]
    BY <1>2
  <2>2. IsInjective(f)
    BY <1>3 DEF IsInjective
  <2> QED
    BY <2>1, <2>2 DEF Injection
<1>5. IsFiniteSet(1 .. l) /\ Cardinality(1 .. l) = IF 1 > l THEN 0 ELSE l - 1 + 1
  BY <1>1, FS_Interval
<1>6. Cardinality(S) <= Cardinality(1 .. l)
  BY <1>4, <1>5, FS_Injection
<1> QED
  BY <1>1, <1>5, <1>6 DEF AtLeastZero

\* No application gets more requests of one day admitted than its limit says.
THEOREM LimitHolds == Spec => []AdmittedWithinLimit
<1>1. IndInv => AdmittedWithinLimit
  BY NumbersBound DEF IndInv
<1> QED
  BY <1>1, DailyLimitInvariant, PTL

\* Who is refused has a number above the limit, and the smaller ones are taken:
\* one holder for each number up to the limit, all of them different.
LEMMA LimitIsSpent ==
  ASSUME IndInv, NEW r \in Request, Receive(r), ~Allows(r)
  PROVE  Cardinality({q \in Request \ {r} : Asked(q) /\ SameKey(q, r) /\ number[q] > 0})
           >= AtLeastZero(limit[r])
<1> DEFINE S == {q \in Request \ {r} : Asked(q) /\ SameKey(q, r) /\ number[q] > 0}
           T == 1 .. limit[r]
<1>1. limit[r] \in Int /\ number[r] \in Nat /\ limit[r] < number[r] /\ app[r] # None
  BY DEF IndInv, Numbered, TypeOK, KeysAreCurrent, Receive, Allows, Asked
<1>2. ASSUME NEW m \in T PROVE \E q \in S : number[q] = m
  <2>1. m \in 1 .. number[r] /\ m # number[r] /\ m > 0
    BY <1>1
  <2>2. PICK q \in Request : app[q] = app[r] /\ keyDay[q] = keyDay[r] /\ number[q] = m
    BY <2>1 DEF IndInv, NumbersHaveNoGaps, Taken
  <2>3. q \in S
    BY <1>1, <2>1, <2>2 DEF Asked, SameKey
  <2> QED
    BY <2>2, <2>3
<1> DEFINE f == [m \in T |-> CHOOSE q \in S : number[q] = m]
<1>3. \A m \in T : f[m] \in S /\ number[f[m]] = m
  BY <1>2
<1>4. f \in Injection(T, S)
  <2>1. f \in [T -> S]
    BY <1>3
  <2>2. IsInjective(f)
    BY <1>3 DEF IsInjective
  <2> QED
    BY <2>1, <2>2 DEF Injection
<1>5. IsFiniteSet(S)
  <2>1. S \subseteq {q \in Request : number[q] > 0}
    OBVIOUS
  <2> QED
    BY <2>1, FS_Subset DEF IndInv, FinitelyManyCounted
<1>6. Cardinality(T) <= Cardinality(S)
  BY <1>4, <1>5, FS_Injection
<1>7. Cardinality(T) = IF 1 > limit[r] THEN 0 ELSE limit[r] - 1 + 1
  <2>1. \A l \in Int : Cardinality(1 .. l) = IF 1 > l THEN 0 ELSE l - 1 + 1
    BY FS_Interval
  <2> QED
    BY <1>1, <2>1
<1>8. Cardinality(S) \in Nat
  BY <1>5, FS_CardinalityType
<1> HIDE DEF S, T
<1>9. Cardinality(S) >= AtLeastZero(limit[r])
  BY <1>1, <1>6, <1>7, <1>8 DEF AtLeastZero
<1> QED
  BY <1>9 DEF S

\* A request turns refused in Receive only.
LEMMA RefusedByReceive ==
  ASSUME TypeOK, [Next]_vars, NEW r \in Request, pc[r] # "refused", pc'[r] = "refused"
  PROVE  Receive(r) /\ ~Allows(r)
BY DEF TypeOK, Next, vars, Pass, MakeKey, Send, Receive, ReceiveError, Increment,
   DropCounter, ReceiveConfig, Midnight

\* No request is refused while its application's limit of the day is not used up.
THEOREM RefusalIsDue == Spec => RefusedOnlyWhenSpent
<1>1. ASSUME IndInv, [Next]_vars
      PROVE  [\A r \in Request : pc[r] # "refused" /\ pc'[r] = "refused" =>
                Cardinality({q \in Request \ {r} : Asked(q) /\ SameKey(q, r) /\ number[q] > 0})
                  >= AtLeastZero(limit[r])]_vars
  BY <1>1, LimitIsSpent, RefusedByReceive DEF IndInv, Numbered
<1> QED
  BY <1>1, DailyLimitInvariant, PTL DEF Spec, RefusedOnlyWhenSpent
=============================================================================
