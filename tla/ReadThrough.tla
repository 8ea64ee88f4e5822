--------------------------- MODULE ReadThrough ---------------------------
(***************************************************************************)
(* service.Authentication (and, with the same control, Authorization and   *)
(* Admin.AdminAuthorize): ask the cache, on a miss ask the remote service, *)
(* cache an answer only when it is positive.                               *)
(*                                                                         *)
(* Every configuration received builds a new handler with caches of its    *)
(* own (locator.go), so there is one cache per GENERATION; a request keeps *)
(* the handler it arrived with, and requests of several generations are in *)
(* flight together.  The remote service is external: what it knows about a *)
(* key changes at any moment, independently of the gateway.  A cache is    *)
(* used as the map of live entries that CacheSpec promises.                *)
(***************************************************************************)
EXTENDS Integers

CONSTANTS
  Caller,      \* requests being served
  Key,         \* tokens, or application and endpoint
  Data,        \* positive answers: the application data, or "allowed"
  Refused,     \* the negative answer
  Failed,      \* the call of the remote service returned an error
  Absent,      \* nothing there
  Duration,    \* configured cache durations, not validated to be positive
  MaxLatency,  \* longest time from the service's decision to its use here
  MaxTime,     \* bound on the clock
  MaxGen       \* bound on the configurations received

Outcome == Data \cup {Refused}

ASSUME ReadThroughAssumption ==
  /\ Duration \subseteq Int
  /\ MaxLatency \in Nat /\ MaxTime \in Nat /\ MaxGen \in Nat
  /\ Refused \notin Data /\ Failed \notin Outcome /\ Absent \notin Outcome
  /\ Absent # Failed /\ Absent \notin Key
  /\ Absent \notin [data : Data, expiredAt : Int]

Gen == 0 .. MaxGen
Item == [data : Data, expiredAt : Int]
Never == -1

VARIABLES
  clock,
  truth,       \* truth[k]: what the remote service decides about k now
  lastTrue,    \* lastTrue[k][o]: last instant at which o was the decision
  gen,         \* generation of the handler new requests get
  duration,    \* duration[n]: cache duration of generation n
  startedAt,   \* startedAt[n]: when generation n was built
  cache,       \* cache[n][k]: the item of k in generation n's cache, or Absent
  pc,          \* idle, arrived, calling, replied
  callGen,     \* the generation a caller's request belongs to
  callKey,     \* the key it asks about
  reply,       \* the remote answer on its way back
  repliedAt,   \* when the service decided it
  verdict      \* what the caller was told, Absent while it waits

vars == <<clock, truth, lastTrue, gen, duration, startedAt, cache,
          pc, callGen, callKey, reply, repliedAt, verdict>>
world == <<clock, truth, lastTrue>>
config == <<gen, duration, startedAt>>

EmptyCache == [k \in Key |-> Absent]

Init ==
  /\ clock = 0
  /\ truth = [k \in Key |-> Refused]
  /\ lastTrue = [k \in Key |-> [o \in Outcome |-> IF o = Refused THEN 0 ELSE Never]]
  /\ gen = 0
  /\ \E d \in Duration : duration = [n \in Gen |-> d]
  /\ startedAt = [n \in Gen |-> 0]
  /\ cache = [n \in Gen |-> EmptyCache]
  /\ pc = [c \in Caller |-> "idle"]
  /\ callGen = [c \in Caller |-> 0]
  /\ callKey = [c \in Caller |-> Absent]
  /\ reply = [c \in Caller |-> Absent]
  /\ repliedAt = [c \in Caller |-> 0]
  /\ verdict = [c \in Caller |-> Absent]

---------------------------------------------------------------------------
(* The request.                                                            *)

\* The server hands the request to the current handler.
Arrive(c, k) ==
  /\ pc[c] = "idle"
  /\ pc' = [pc EXCEPT ![c] = "arrived"]
  /\ callGen' = [callGen EXCEPT ![c] = gen]
  /\ callKey' = [callKey EXCEPT ![c] = k]
  /\ verdict' = [verdict EXCEPT ![c] = Absent]
  /\ UNCHANGED <<world, config, cache, reply, repliedAt>>

\* The call returns r; its locals are gone.
Return(c, r) ==
  /\ verdict' = [verdict EXCEPT ![c] = r]
  /\ pc' = [pc EXCEPT ![c] = "idle"]
  /\ callGen' = [callGen EXCEPT ![c] = 0]
  /\ callKey' = [callKey EXCEPT ![c] = Absent]
  /\ reply' = [reply EXCEPT ![c] = Absent]
  /\ repliedAt' = [repliedAt EXCEPT ![c] = 0]
  /\ UNCHANGED <<world, config>>

Live(i) == i # Absent /\ clock <= i.expiredAt

\* cache.Get: a hit answers at once, a miss goes to the remote service.
Hit(c) ==
  /\ pc[c] = "arrived"
  /\ Live(cache[callGen[c]][callKey[c]])
  /\ Return(c, cache[callGen[c]][callKey[c]].data)

\* Wrong variant: a hit renews the deadline of the item.
LookupHitSliding(c) ==
  /\ Hit(c)
  /\ cache' = [cache EXCEPT ![callGen[c]][callKey[c]].expiredAt = clock + duration[callGen[c]]]

LookupHit(c) ==
  /\ Hit(c)
  /\ UNCHANGED cache

LookupMiss(c) ==
  /\ pc[c] = "arrived"
  /\ ~Live(cache[callGen[c]][callKey[c]])
  /\ pc' = [pc EXCEPT ![c] = "calling"]
  /\ UNCHANGED <<world, config, cache, callGen, callKey, reply, repliedAt, verdict>>

\* repo.Authenticate returns an error: it is passed on, nothing is cached.
ReceiveError(c) ==
  /\ pc[c] = "calling"
  /\ Return(c, Failed)
  /\ UNCHANGED cache

\* Wrong variant: the refusal is cached too.
ReceiveRefusedCached(c) ==
  /\ pc[c] = "replied" /\ reply[c] = Refused
  /\ cache' = [cache EXCEPT ![callGen[c]][callKey[c]] =
                 [data |-> Refused, expiredAt |-> clock + duration[callGen[c]]]]
  /\ Return(c, reply[c])

\* !resp.Authenticated: the refusal is returned and not cached.
ReceiveRefused(c) ==
  /\ pc[c] = "replied" /\ reply[c] = Refused
  /\ Return(c, reply[c])
  /\ UNCHANGED cache

\* A positive answer is cached in the request's own generation, whatever
\* the cache holds by now, and returned.
ReceiveGranted(c) ==
  /\ pc[c] = "replied" /\ reply[c] \in Data
  /\ cache' = [cache EXCEPT ![callGen[c]][callKey[c]] =
                 [data |-> reply[c], expiredAt |-> clock + duration[callGen[c]]]]
  /\ Return(c, reply[c])

---------------------------------------------------------------------------
(* The remote service, the configuration and time.                         *)

Decide(c) ==
  /\ pc[c] = "calling"
  /\ pc' = [pc EXCEPT ![c] = "replied"]
  /\ reply' = [reply EXCEPT ![c] = truth[callKey[c]]]
  /\ repliedAt' = [repliedAt EXCEPT ![c] = clock]
  /\ UNCHANGED <<world, config, cache, callGen, callKey, verdict>>

Change(k, o) ==
  /\ truth[k] # o
  /\ truth' = [truth EXCEPT ![k] = o]
  /\ lastTrue' = [lastTrue EXCEPT ![k][o] = clock]
  /\ UNCHANGED <<clock, config, cache, pc, callGen, callKey, reply, repliedAt, verdict>>

\* Wrong variant: the new handler is given the caches of the old one.
ReloadKeepsCache(d) ==
  /\ gen < MaxGen
  /\ gen' = gen + 1
  /\ duration' = [duration EXCEPT ![gen + 1] = d]
  /\ startedAt' = [startedAt EXCEPT ![gen + 1] = clock]
  /\ cache' = [cache EXCEPT ![gen + 1] = cache[gen]]
  /\ UNCHANGED <<world, pc, callGen, callKey, reply, repliedAt, verdict>>

\* ReceiveConfig: Locator.Handler makes new caches with the configured duration.
Reload(d) ==
  /\ gen < MaxGen
  /\ gen' = gen + 1
  /\ duration' = [duration EXCEPT ![gen + 1] = d]
  /\ startedAt' = [startedAt EXCEPT ![gen + 1] = clock]
  /\ cache' = [cache EXCEPT ![gen + 1] = EmptyCache]
  /\ UNCHANGED <<world, pc, callGen, callKey, reply, repliedAt, verdict>>

\* Time passes, but no reply is on its way for longer than MaxLatency.
Elapse ==
  /\ clock < MaxTime
  /\ \A c \in Caller : pc[c] = "replied" => clock < repliedAt[c] + MaxLatency
  /\ clock' = clock + 1
  /\ lastTrue' = [k \in Key |-> [lastTrue[k] EXCEPT ![truth[k]] = clock + 1]]
  /\ UNCHANGED <<truth, config, cache, pc, callGen, callKey, reply, repliedAt, verdict>>

Next ==
  \/ \E c \in Caller, k \in Key : Arrive(c, k)
  \/ \E c \in Caller : LookupHit(c)
  \/ \E c \in Caller : LookupMiss(c)
  \/ \E c \in Caller : ReceiveError(c)
  \/ \E c \in Caller : ReceiveRefused(c)
  \/ \E c \in Caller : ReceiveGranted(c)
  \/ \E c \in Caller : Decide(c)
  \/ \E k \in Key, o \in Outcome : Change(k, o)
  \/ \E d \in Duration : Reload(d)
  \/ Elapse

Spec == Init /\ [][Next]_vars

---------------------------------------------------------------------------
(* Properties.                                                             *)

TypeOK ==
  /\ clock \in 0 .. MaxTime
  /\ truth \in [Key -> Outcome]
  /\ lastTrue \in [Key -> [Outcome -> Int]]
  /\ gen \in Gen
  /\ duration \in [Gen -> Duration]
  /\ startedAt \in [Gen -> Int]
  /\ cache \in [Gen -> [Key -> Item \cup {Absent}]]
  /\ pc \in [Caller -> {"idle", "arrived", "calling", "replied"}]
  /\ callGen \in [Caller -> Gen]
  /\ callKey \in [Caller -> Key \cup {Absent}]
  /\ reply \in [Caller -> Outcome \cup {Absent}]
  /\ repliedAt \in [Caller -> Int]
  /\ verdict \in [Caller -> Outcome \cup {Failed, Absent}]

\* A request in flight belongs to a generation that exists and has a key.
CallsAreOfExistingGenerations ==
  \A c \in Caller : pc[c] # "idle" => callGen[c] <= gen /\ callKey[c] \in Key

\* The current decision is true now, and no decision or generation is ahead
\* of the clock.
TruthIsCurrent == \A k \in Key : lastTrue[k][truth[k]] = clock
LastTrueIsPast == \A k \in Key, o \in Outcome : lastTrue[k][o] <= clock
GenerationsStarted == \A n \in Gen : startedAt[n] <= clock

\* A reply on its way was the service's decision when it was given, since the
\* start of the request's generation and at most MaxLatency ago.
RepliesAreRecent ==
  \A c \in Caller : pc[c] = "replied" =>
    /\ reply[c] \in Outcome
    /\ startedAt[callGen[c]] <= repliedAt[c]
    /\ repliedAt[c] <= lastTrue[callKey[c]][reply[c]]
    /\ clock <= repliedAt[c] + MaxLatency

\* An item of a cache was the service's decision during the cache's
\* generation, and its deadline is not later than the duration allows.
ItemsAreRecent ==
  \A n \in Gen, k \in Key : cache[n][k] # Absent =>
    /\ startedAt[n] <= lastTrue[k][cache[n][k].data]
    /\ cache[n][k].expiredAt <= lastTrue[k][cache[n][k].data] + MaxLatency + duration[n]

\* The inductive invariant of the read-through services.
IndInv ==
  /\ TypeOK
  /\ CallsAreOfExistingGenerations
  /\ TruthIsCurrent
  /\ LastTrueIsPast
  /\ GenerationsStarted
  /\ RepliesAreRecent
  /\ ItemsAreRecent

Age(c) == clock - lastTrue[callKey[c]][verdict'[c]]
Grace(c) == IF duration[callGen[c]] < 0 THEN 0 ELSE duration[callGen[c]]
Told(c, outcomes) == verdict'[c] # verdict[c] /\ verdict'[c] \in outcomes

\* A caller is granted what the remote service granted at most one cache
\* duration and one latency ago, concurrent misses, late replies overwriting
\* newer ones and reloads included.
BoundedStaleness ==
  [][\A c \in Caller : Told(c, Data) => Age(c) <= Grace(c) + MaxLatency]_vars

\* A new configuration flushes the caches: what a request is granted was
\* granted by the service since the request's generation was built.
ReloadFlushes ==
  [][\A c \in Caller : Told(c, Data) =>
       lastTrue[callKey[c]][verdict'[c]] >= startedAt[callGen[c]]]_vars

\* A refusal is never remembered: it is at most one latency old, so an access
\* that was just granted works at once.
RefusalsAreFresh ==
  [][\A c \in Caller : Told(c, {Refused}) => Age(c) <= MaxLatency]_vars
=============================================================================
