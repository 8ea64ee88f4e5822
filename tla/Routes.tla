------------------------------ MODULE Routes ------------------------------
(***************************************************************************)
(* routes.Routes.  ReceiveRoutes fills a new router, one registration at a *)
(* time, swallows the panics of registrations the router refuses, and then *)
(* replaces the pointer that ResolveEndpoint reads.  Neither side locks:   *)
(* the pointer is one word, and what a request does with the router it got *)
(* may overlap with any number of reloads.                                 *)
(***************************************************************************)
EXTENDS RoutePaths

CONSTANTS
  Request,  \* requests being resolved
  MaxLoads  \* bound on the configurations received

ASSUME RoutesAssumption ==
  /\ MaxLoads \in Nat
  /\ None \notin [descriptor : Nat, method : Nat]
  /\ \A cfg \in Config \cup {<< >>} : None \notin Answer(cfg)

Router == 0 .. MaxLoads     \* routers by number, 0 that of NewRoutes

VARIABLES
  router,  \* Routes.router
  loads,   \* the newest router made
  config,  \* config[t]: the configuration router t is made from
  entries, \* entries[t]: what it holds
  at,      \* the descriptor and method to register next, None: not in ReceiveRoutes
  call     \* call[r]: the resolution of request r

vars == <<router, loads, config, entries, at, call>>

Idle == [pc |-> "idle", router |-> 0, in |-> None, answer |-> None]

Init ==
  /\ router = 0 /\ loads = 0
  /\ config = [t \in Router |-> << >>]
  /\ entries = [t \in Router |-> {}]
  /\ at = None
  /\ call = [r \in Request |-> Idle]

---------------------------------------------------------------------------
(* ReceiveRoutes, one at a time: the cluster client calls it.              *)

\* Wrong variant: the router in use is filled in place.
ReceiveRoutesInPlace(cfg) ==
  /\ at = None /\ loads < MaxLoads
  /\ loads' = loads + 1
  /\ config' = [config EXCEPT ![loads + 1] = cfg]
  /\ entries' = [entries EXCEPT ![loads + 1] = {}]
  /\ at' = [descriptor |-> 1, method |-> 1]
  /\ router' = loads + 1
  /\ UNCHANGED call

ReceiveRoutes(cfg) ==
  /\ at = None /\ loads < MaxLoads
  /\ loads' = loads + 1
  /\ config' = [config EXCEPT ![loads + 1] = cfg]
  /\ entries' = [entries EXCEPT ![loads + 1] = {}]
  /\ at' = [descriptor |-> 1, method |-> 1]
  /\ UNCHANGED <<router, call>>

Cfg == config[loads]
Registering == at # None /\ at.descriptor \in DOMAIN Cfg
Current == Entry(Cfg, at.descriptor, at.method)

\* router.Handle panics, and the recover of registerEndpoint ends the call.
Refused == Malformed(Current.path) \/ \E f \in entries[loads] : Conflict(Current, f)

\* The loops over descriptors and methods.
Advance ==
  at' = IF at.method < Len(MethodsOf(Cfg[at.descriptor]))
        THEN [at EXCEPT !.method = at.method + 1]
        ELSE [descriptor |-> at.descriptor + 1, method |-> 1]

\* Wrong variant: a new registration replaces those it conflicts with.
RegisterReplacing ==
  /\ Registering
  /\ entries' = [entries EXCEPT ![loads] =
                   {f \in entries[loads] : ~Conflict(Current, f)} \cup {Current}]
  /\ Advance
  /\ UNCHANGED <<router, loads, config, call>>

\* Wrong variant: nothing is refused.
RegisterUnchecked ==
  /\ Registering
  /\ entries' = [entries EXCEPT ![loads] = entries[loads] \cup {Current}]
  /\ Advance
  /\ UNCHANGED <<router, loads, config, call>>

\* Wrong variant: the panic ends ReceiveRoutes.
RegisterPanics ==
  /\ Registering /\ ~Refused
  /\ entries' = [entries EXCEPT ![loads] = entries[loads] \cup {Current}]
  /\ Advance
  /\ UNCHANGED <<router, loads, config, call>>

RegisterEndpoint ==
  /\ Registering
  /\ entries' = [entries EXCEPT ![loads] =
                   IF Refused THEN entries[loads] ELSE entries[loads] \cup {Current}]
  /\ Advance
  /\ UNCHANGED <<router, loads, config, call>>

Publish ==
  /\ at # None /\ ~Registering
  /\ router' = loads
  /\ at' = None
  /\ UNCHANGED <<loads, config, entries, call>>

---------------------------------------------------------------------------
(* ResolveEndpoint.                                                        *)

\* The pointer is read once.
ReadRouter(r, in) ==
  /\ call[r].pc = "idle"
  /\ call' = [call EXCEPT ![r] = [pc |-> "looking", router |-> router, in |-> in,
                                  answer |-> None]]
  /\ UNCHANGED <<router, loads, config, entries, at>>

ResolvedIn(t, in) == Resolve(config[t], Found(entries[t], in), in)

\* The lookup and what follows it, in the router that was read.
ResolveEndpoint(r) ==
  /\ call[r].pc = "looking"
  /\ call' = [call EXCEPT ![r].pc = "answered",
                          ![r].answer = ResolvedIn(call[r].router, call[r].in)]
  /\ UNCHANGED <<router, loads, config, entries, at>>

\* The request is over; the next one may come.
Leave(r) ==
  /\ call[r].pc = "answered"
  /\ call' = [call EXCEPT ![r] = Idle]
  /\ UNCHANGED <<router, loads, config, entries, at>>

Next ==
  \/ \E cfg \in Config : ReceiveRoutes(cfg)
  \/ RegisterEndpoint
  \/ Publish
  \/ \E r \in Request, in \in Input : ReadRouter(r, in)
  \/ \E r \in Request : ResolveEndpoint(r)
  \/ \E r \in Request : Leave(r)

Spec == Init /\ [][Next]_vars

\* ReceiveRoutes never waits for anything.
FairSpec == Spec /\ WF_vars(RegisterEndpoint) /\ WF_vars(Publish)

---------------------------------------------------------------------------
(* Properties.                                                             *)

EntryType == [method : Method, path : Path, from : Nat]
Position == [descriptor : Nat \ {0}, method : Nat \ {0}]
AnyAnswer == UNION {Answer(cfg) : cfg \in Config \cup {<< >>}}
CallType ==
  [pc : {"idle", "looking", "answered"}, router : Router, in : Input \cup {None},
   answer : AnyAnswer \cup {None}]

TypeOK ==
  /\ router \in Router /\ loads \in Router
  /\ config \in [Router -> Config \cup {<< >>}]
  /\ entries \in [Router -> SUBSET EntryType]
  /\ \A t \in Router : entries[t] \subseteq Declared(config[t])
  /\ at \in Position \cup {None}
  /\ call \in [Request -> CallType]

\* Every router ever made is free of conflicts, so that a request matches at
\* most one of its entries, the one being filled included.
ConflictFree ==
  \A t \in Router : \A e, f \in entries[t] : Conflict(e, f) => e = f

WellFormed == \A t \in Router : \A e \in entries[t] : ~Malformed(e.path)

\* Before the position the loops have reached, all that is missing is what
\* the router refused.
Visited(e) ==
  \/ at = None
  \/ e.from < at.descriptor
  \/ /\ e.from = at.descriptor
     /\ \E m \in 1 .. at.method - 1 : e.method = MethodsOf(Cfg[e.from])[m]

MissingWereRefused(t) ==
  \A e \in Declared(config[t]) \ entries[t] :
    \/ t = loads /\ ~Visited(e)
    \/ Malformed(e.path)
    \/ \E f \in entries[t] : f.from < e.from /\ Conflict(e, f)

\* The newest router is the only unfinished one, and it is not in use yet.
LoadingIsPrivate ==
  /\ router = (IF at = None THEN loads ELSE loads - 1)
  /\ \A r \in Request : call[r].pc # "idle" => call[r].router <= router
  /\ \A r \in Request : call[r].pc = "looking" => call[r].in \in Input
  /\ \A r \in Request : call[r].pc = "answered" => call[r].answer # None
  /\ at # None => /\ loads > 0 /\ Cfg \in Config
                  /\ \A e \in entries[loads] : Visited(e)
                  /\ at.descriptor <= Len(Cfg) + 1
                  /\ Registering => at.method <= Len(MethodsOf(Cfg[at.descriptor]))

\* The inductive invariant of the routing tables.
IndInv ==
  /\ TypeOK /\ ConflictFree /\ WellFormed /\ LoadingIsPrivate
  /\ \A t \in Router : MissingWereRefused(t)

\* No request is ambiguous in any router it can meet: which module, inner flag
\* and permission it gets does not depend on the order of lookup.
Unambiguous ==
  \A in \in Input, t \in 0 .. loads : \A e, f \in Found(entries[t], in) : e = f

\* What a request was told, or will be whatever happens until then.
Told(r) ==
  IF call[r].pc = "idle" THEN None
  ELSE IF call[r].pc = "looking" THEN ResolvedIn(call[r].router, call[r].in)
  ELSE call[r].answer

\* Requests are answered from whole configurations.
Abstract ==
  INSTANCE RoutesSpec WITH
    inForce <- [config |-> config[router], entries |-> entries[router]],
    answer <- [r \in Request |-> Told(r)]
ImplementsRoutesSpec == Abstract!Spec

\* Whatever a configuration holds, it comes into force.
ComesIntoForce == \A t \in Router : loads = t ~> router >= t
=============================================================================
