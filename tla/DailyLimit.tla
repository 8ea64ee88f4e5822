---------------------------- MODULE DailyLimit ----------------------------
(***************************************************************************)
(* service.DailyLimit.IncrementAndCheck of every replica of the gateway    *)
(* against the one counter isp-lock-service keeps per application and day. *)
(* Replies are lost, calls are counted after their caller has given up,    *)
(* midnight passes between any two steps, and configurations change.       *)
(*                                                                         *)
(* isp-lock-service is external: Increment adds one and returns the new    *)
(* value; a counter of a past day is dropped at some moment after the      *)
(* calls that wait for it are over.  The value keeps no width: the uint64  *)
(* it travels in is out of reach of a day's requests.                      *)
(***************************************************************************)
EXTENDS Integers, FiniteSets

CONSTANTS
  Request,     \* requests, of all replicas
  App,
  LimitTable,  \* configurations of the limits: App -> limit or Unlimited
  Unlimited,
  None,
  MaxDay       \* bound on the days

Day == 0 .. MaxDay

ASSUME DailyLimitAssumption ==
  /\ MaxDay \in Nat
  /\ Unlimited \notin Int
  /\ LimitTable \subseteq [App -> Int \cup {Unlimited}]
  /\ None \notin App /\ None \notin Int

VARIABLES
  day,         \* time.Now(), as far as Date() tells
  limits,      \* the limits of the configuration new requests are served under
  counter,     \* counter[a][d]: isp-lock-service's counter of that key
  dropped,     \* dropped[a]: the days whose counter is gone
  pc,          \* idle, keyed, sent, counted; admitted, refused, failed
  app,         \* the application of a request
  keyDay,      \* the day in its key
  limit,       \* the limit it is checked against
  number       \* the value Increment gave it, 0 before

vars == <<day, limits, counter, dropped, pc, app, keyDay, limit, number>>

Init ==
  /\ day = 0
  /\ limits \in LimitTable
  /\ counter = [a \in App |-> [d \in Day |-> 0]]
  /\ dropped = [a \in App |-> {}]
  /\ pc = [r \in Request |-> "idle"]
  /\ app = [r \in Request |-> None]
  /\ keyDay = [r \in Request |-> 0]
  /\ limit = [r \in Request |-> 0]
  /\ number = [r \in Request |-> 0]

---------------------------------------------------------------------------
(* IncrementAndCheck.                                                      *)

\* No limit for the application: nothing is asked and nothing counted.
Pass(r, a) ==
  /\ pc[r] = "idle" /\ limits[a] = Unlimited
  /\ pc' = [pc EXCEPT ![r] = "admitted"]
  /\ UNCHANGED <<day, limits, counter, dropped, app, keyDay, limit, number>>

\* The key is made from the first of the two readings of time.Now.
MakeKey(r, a) ==
  /\ pc[r] = "idle" /\ limits[a] # Unlimited
  /\ pc' = [pc EXCEPT ![r] = "keyed"]
  /\ app' = [app EXCEPT ![r] = a]
  /\ keyDay' = [keyDay EXCEPT ![r] = day]
  /\ limit' = [limit EXCEPT ![r] = limits[a]]
  /\ UNCHANGED <<day, limits, counter, dropped, number>>

\* The call leaves; its Today, the second reading, only tells the service
\* how long to keep the counter.
Send(r) ==
  /\ pc[r] = "keyed"
  /\ pc' = [pc EXCEPT ![r] = "sent"]
  /\ UNCHANGED <<day, limits, counter, dropped, app, keyDay, limit, number>>

Allows(r) == number[r] <= limit[r]

\* Wrong variants: the comparison off by one, to either side.
ReceiveGenerous(r) ==
  /\ pc[r] = "counted"
  /\ pc' = [pc EXCEPT ![r] = IF number[r] <= limit[r] + 1 THEN "admitted" ELSE "refused"]
  /\ UNCHANGED <<day, limits, counter, dropped, app, keyDay, limit, number>>
ReceiveMean(r) ==
  /\ pc[r] = "counted"
  /\ pc' = [pc EXCEPT ![r] = IF number[r] < limit[r] THEN "admitted" ELSE "refused"]
  /\ UNCHANGED <<day, limits, counter, dropped, app, keyDay, limit, number>>

Receive(r) ==
  /\ pc[r] = "counted"
  /\ pc' = [pc EXCEPT ![r] = IF Allows(r) THEN "admitted" ELSE "refused"]
  /\ UNCHANGED <<day, limits, counter, dropped, app, keyDay, limit, number>>

\* The call or its reply is lost, or times out: the request fails.
ReceiveError(r) ==
  /\ pc[r] \in {"sent", "counted"}
  /\ pc' = [pc EXCEPT ![r] = "failed"]
  /\ UNCHANGED <<day, limits, counter, dropped, app, keyDay, limit, number>>

---------------------------------------------------------------------------
(* isp-lock-service, configurations and midnight.                          *)

\* Wrong variant: the counter is read and written in two round trips, so that
\* concurrent calls get the same value.
IncrementRacy(r) ==
  /\ pc[r] \in {"sent", "failed"} /\ number[r] = 0
  /\ \E seen \in {counter[app[r]][keyDay[r]], counter[app[r]][keyDay[r]] - 1} :
       /\ seen >= 0
       /\ number' = [number EXCEPT ![r] = seen + 1]
       /\ counter' = [counter EXCEPT ![app[r]][keyDay[r]] = seen + 1]
  /\ pc' = [pc EXCEPT ![r] = IF @ = "sent" THEN "counted" ELSE @]
  /\ UNCHANGED <<day, limits, dropped, app, keyDay, limit>>

\* A call is counted also when its caller no longer waits for it.
Increment(r) ==
  /\ pc[r] \in {"sent", "failed"} /\ number[r] = 0
  /\ counter' = [counter EXCEPT ![app[r]][keyDay[r]] = @ + 1]
  /\ number' = [number EXCEPT ![r] = counter[app[r]][keyDay[r]] + 1]
  /\ pc' = [pc EXCEPT ![r] = IF @ = "sent" THEN "counted" ELSE @]
  /\ UNCHANGED <<day, limits, dropped, app, keyDay, limit>>

Awaited(a, d) ==
  \E r \in Request : pc[r] \in {"keyed", "sent"} /\ app[r] = a /\ keyDay[r] = d

DropCounter(a, d) ==
  /\ d < day /\ d \notin dropped[a] /\ ~Awaited(a, d)
  /\ counter' = [counter EXCEPT ![a][d] = 0]
  /\ dropped' = [dropped EXCEPT ![a] = @ \cup {d}]
  /\ UNCHANGED <<day, limits, pc, app, keyDay, limit, number>>

ReceiveConfig(table) ==
  /\ limits' = table
  /\ UNCHANGED <<day, counter, dropped, pc, app, keyDay, limit, number>>

Midnight ==
  /\ day < MaxDay
  /\ day' = day + 1
  /\ UNCHANGED <<limits, counter, dropped, pc, app, keyDay, limit, number>>

Next ==
  \/ \E r \in Request, a \in App : Pass(r, a)
  \/ \E r \in Request, a \in App : MakeKey(r, a)
  \/ \E r \in Request : Send(r)
  \/ \E r \in Request : Receive(r)
  \/ \E r \in Request : ReceiveError(r)
  \/ \E r \in Request : Increment(r)
  \/ \E a \in App, d \in Day : DropCounter(a, d)
  \/ \E table \in LimitTable : ReceiveConfig(table)
  \/ Midnight

Spec == Init /\ [][Next]_vars

---------------------------------------------------------------------------
(* Properties.                                                             *)

TypeOK ==
  /\ day \in Day
  /\ limits \in LimitTable
  /\ counter \in [App -> [Day -> Nat]]
  /\ dropped \in [App -> SUBSET Day]
  /\ pc \in [Request -> {"idle", "keyed", "sent", "counted", "admitted", "refused", "failed"}]
  /\ app \in [Request -> App \cup {None}]
  /\ keyDay \in [Request -> Day]
  /\ limit \in [Request -> Int]
  /\ number \in [Request -> Nat]

Asked(r) == app[r] # None
Decided(r) == pc[r] \in {"counted", "admitted", "refused"}
SameKey(q, r) == app[q] = app[r] /\ keyDay[q] = keyDay[r]

\* The key of a request is of a day that has begun, and while a request waits
\* for its number the counter of its key is not dropped.
KeysAreCurrent ==
  \A r \in Request :
    /\ pc[r] \in {"keyed", "sent", "counted", "refused", "failed"} => Asked(r)
    /\ Asked(r) => app[r] \in App /\ keyDay[r] <= day
    /\ pc[r] \in {"idle", "keyed", "sent"} => number[r] = 0
    /\ pc[r] = "idle" => ~Asked(r)
    /\ pc[r] \in {"keyed", "sent"} => keyDay[r] \notin dropped[app[r]]
    /\ \A a \in App : \A d \in dropped[a] : d < day

\* Increment numbers the requests of a key 1, 2, 3, ... without a repetition.
NumbersAreDistinct ==
  \A q, r \in Request :
    /\ Decided(r) /\ Asked(r) =>
         /\ number[r] >= 1
         /\ keyDay[r] \notin dropped[app[r]] => number[r] <= counter[app[r]][keyDay[r]]
    /\ q # r /\ Decided(q) /\ Decided(r) /\ Asked(q) /\ Asked(r) /\ SameKey(q, r) =>
         number[q] # number[r]

\* A limited request is admitted only with a number within its limit.
AdmittedWithinNumber ==
  \A r \in Request : pc[r] = "admitted" /\ Asked(r) => Allows(r)

\* Somebody has the number m of the key of a and d.
Taken(a, d, m) == \E q \in Request : app[q] = a /\ keyDay[q] = d /\ number[q] = m

\* Whatever number a request has or would get next, all smaller ones of its key
\* have been given out, also when late calls start a dropped counter anew.
NumbersHaveNoGaps ==
  /\ \A a \in App, d \in Day : \A m \in 1 .. counter[a][d] : Taken(a, d, m)
  /\ \A r \in Request : \A m \in 1 .. number[r] : Taken(app[r], keyDay[r], m)

FinitelyManyCounted == IsFiniteSet({q \in Request : number[q] > 0})

\* The inductive invariant of the daily limit: the first part bounds what is
\* admitted, the second what is refused.
Numbered == TypeOK /\ KeysAreCurrent /\ NumbersAreDistinct /\ AdmittedWithinNumber
IndInv == Numbered /\ NumbersHaveNoGaps /\ FinitelyManyCounted

AtLeastZero(n) == IF n < 0 THEN 0 ELSE n

\* Of an application's requests that carry one day, no more are admitted under
\* a limit than it says, over all replicas together, with failures, midnight
\* and changes of the limit in between.
AdmittedWithinLimit ==
  \A a \in App, d \in Day :
    \A l \in {limit[r] : r \in Request} :
      Cardinality({r \in Request : /\ pc[r] = "admitted" /\ Asked(r)
                                   /\ app[r] = a /\ keyDay[r] = d /\ limit[r] <= l})
        <= AtLeastZero(l)

\* A request is refused only when as many others of its application and day as
\* the limit allows were counted before it.
RefusedOnlyWhenSpent ==
  [][\A r \in Request : pc[r] # "refused" /\ pc'[r] = "refused" =>
       Cardinality({q \in Request \ {r} : Asked(q) /\ SameKey(q, r) /\ number[q] > 0})
         >= AtLeastZero(limit[r])]_vars
=============================================================================
