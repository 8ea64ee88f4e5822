--------------------------- MODULE RoutesProofs ---------------------------
(***************************************************************************)
(* Routing tables are free of conflicts, requests are never ambiguous, and *)
(* requests are answered from whole configurations: for every routing      *)
(* configuration, every set of requests and any number of reloads.         *)
(***************************************************************************)
EXTENDS Routes, WellFoundedInduction, TLAPS

\* A set of naturals has a least element.
LEMMA Least ==
  ASSUME NEW T \in SUBSET Nat, T # {}
  PROVE  \E x \in T : \A y \in T : x <= y
<1>1. IsWellFoundedOn(OpToRel(<, Nat), Nat)
  BY NatLessThanWellFounded, Zenon
<1>2. PICK x \in T : \A y \in T : ~(<<y, x>> \in OpToRel(<, Nat))
  BY <1>1, WFMin, Zenon
<1>3. \A y \in T : ~(y < x)
  BY <1>2, Zenon DEF OpToRel
<1> QED
  BY <1>3

\* A *name segment ends its path.
RestIsLast(p) == \A k \in DOMAIN p : p[k].kind = "rest" => k = Len(p)

\* Of two paths that match the same request neither continues the other.
LEMMA NoContinuation ==
  ASSUME NEW p \in Seq(Segment), NEW q \in Seq(Segment), NEW s \in Seq(Name),
         Matches(p, s), Matches(q, s), RestIsLast(q),
         \A k \in DOMAIN p \cap DOMAIN q : p[k] = q[k]
  PROVE  ~(Len(p) < Len(q))
<1> SUFFICES ASSUME Len(p) < Len(q) PROVE FALSE
  OBVIOUS
<1>1. Len(q) <= Len(s) /\ Len(p) \in Nat /\ Len(q) \in Nat /\ Len(s) \in Nat
  BY DEF Matches
<1>2. Len(p) > 0 /\ p[Len(p)].kind = "rest"
  BY <1>1 DEF Matches
<1>3. Len(p) \in DOMAIN p \cap DOMAIN q
  BY <1>1, <1>2
<1>4. q[Len(p)].kind = "rest" /\ Len(p) # Len(q)
  BY <1>1, <1>2, <1>3
<1> QED
  BY <1>3, <1>4 DEF RestIsLast

\* Paths the router holds together never match the same request.
LEMMA MatchUnique ==
  ASSUME NEW p \in Seq(Segment), NEW q \in Seq(Segment), NEW s \in Seq(Name),
         Matches(p, s), Matches(q, s), RestIsLast(p), RestIsLast(q)
  PROVE  Clash(p, q)
<1> SUFFICES ASSUME ~Clash(p, q) PROVE FALSE
  OBVIOUS
<1>1. p # q
  BY DEF Clash
<1> DEFINE D == {k \in DOMAIN p \cap DOMAIN q : p[k] # q[k]}
<1>2. CASE D = {}
  <2>1. \A k \in DOMAIN p \cap DOMAIN q : p[k] = q[k]
    BY <1>2
  <2>2. ~(Len(p) < Len(q)) /\ ~(Len(q) < Len(p))
    BY <2>1, NoContinuation
  <2>3. Len(p) = Len(q)
    BY <2>2
  <2>4. DOMAIN p = DOMAIN q /\ \A k \in DOMAIN p : p[k] = q[k]
    BY <2>1, <2>3
  <2> QED
    BY <1>1, <2>3, <2>4
<1>3. CASE D # {}
  <2>1. D \in SUBSET Nat
    OBVIOUS
  <2>2. PICK k \in D : \A j \in D : k <= j
    BY <1>3, <2>1, Least
  <2>3. k \in DOMAIN p \cap DOMAIN q /\ p[k] # q[k] /\ k \in Nat /\ k >= 1
    BY <2>2
  <2>4. \A j \in 1 .. k - 1 : p[j] = q[j]
    <3> TAKE j \in 1 .. k - 1
    <3>1. j \in DOMAIN p \cap DOMAIN q /\ ~(k <= j)
      BY <2>3
    <3> QED
      BY <2>2, <3>1
  <2>5. p[k].kind = "static" /\ q[k].kind = "static"
    BY <2>3, <2>4 DEF Clash
  <2>6. p[k].name = s[k] /\ q[k].name = s[k]
    BY <2>3, <2>5 DEF Matches
  <2>7. p[k] \in Segment /\ q[k] \in Segment
    BY <2>3
  <2> QED
    BY <2>3, <2>5, <2>6, <2>7 DEF Segment
<1> QED
  BY <1>2, <1>3

\* Conflicts have no direction.
LEMMA ConflictSymmetric ==
  ASSUME NEW e, NEW f
  PROVE  Conflict(e, f) <=> Conflict(f, e)
BY DEF Conflict, Clash

---------------------------------------------------------------------------

\* The loop over methods has a method to visit, and none of them twice.
LEMMA MethodsType ==
  ASSUME NEW cfg \in Config, NEW d \in DOMAIN cfg
  PROVE  /\ MethodsOf(cfg[d]) \in Seq(Method)
         /\ Len(MethodsOf(cfg[d])) \in Nat /\ 1 <= Len(MethodsOf(cfg[d]))
         /\ \A k, m \in DOMAIN MethodsOf(cfg[d]) :
              MethodsOf(cfg[d])[k] = MethodsOf(cfg[d])[m] => k = m
<1>1. cfg \in Seq(Descriptor)
  BY RoutePathsAssumption DEF ConfigType
<1>2. cfg[d] \in Descriptor
  BY <1>1
<1>3. cfg[d].method \in Method \cup {AnyMethod}
  BY <1>2 DEF Descriptor
<1>4. CASE cfg[d].method = AnyMethod
  <2>1. MethodsOf(cfg[d]) = AllHttpMethods
    BY <1>4 DEF MethodsOf
  <2>2. AllHttpMethods \in Seq(Method) /\ AllHttpMethods # << >>
    BY RoutePathsAssumption
  <2>3. Len(AllHttpMethods) \in Nat /\ 1 <= Len(AllHttpMethods)
    BY <2>2
  <2> QED
    BY <2>1, <2>2, <2>3, RoutePathsAssumption
<1>5. CASE cfg[d].method # AnyMethod
  <2>1. MethodsOf(cfg[d]) = <<cfg[d].method>> /\ cfg[d].method \in Method
    BY <1>3, <1>5 DEF MethodsOf
  <2> QED
    BY <2>1
<1> QED
  BY <1>4, <1>5

\* Where an entry comes from.
LEMMA DeclaredFrom ==
  ASSUME NEW cfg, NEW e \in Declared(cfg)
  PROVE  /\ e.from \in DOMAIN cfg
         /\ \E m \in DOMAIN MethodsOf(cfg[e.from]) :
              e = Entry(cfg, e.from, m) /\ e.method = MethodsOf(cfg[e.from])[m]
BY DEF Declared, Entry

\* What a sequence holds is of its type.
LEMMA LastElement ==
  ASSUME NEW S, NEW s \in Seq(S), Len(s) \in {1, 2}
  PROVE  s[Len(s)] \in S
<1>1. Len(s) \in 1 .. Len(s)
  OBVIOUS
<1> QED
  BY <1>1

\* What an entry is.
LEMMA EntryIsTyped ==
  ASSUME NEW cfg \in Config, NEW d \in DOMAIN cfg, NEW m \in DOMAIN MethodsOf(cfg[d])
  PROVE  /\ Entry(cfg, d, m) \in EntryType
         /\ Entry(cfg, d, m) \in Declared(cfg)
         /\ Entry(cfg, d, m).from = d
         /\ Entry(cfg, d, m).method = MethodsOf(cfg[d])[m]
<1>1. cfg \in Seq(Descriptor) /\ Len(cfg[d].words) \in {1, 2}
  BY RoutePathsAssumption DEF ConfigType
<1>2. cfg[d] \in Descriptor /\ d \in Nat
  BY <1>1
<1>3. cfg[d].words \in Seq(Path)
  BY <1>2 DEF Descriptor
<1>4. cfg[d].words[Len(cfg[d].words)] \in Path
  <2> DEFINE w == cfg[d].words
  <2>1. w \in Seq(Path) /\ Len(w) \in {1, 2}
    BY <1>1, <1>3
  <2> HIDE DEF w
  <2>3. w[Len(w)] \in Path
    BY <2>1, LastElement, Zenon
  <2> QED
    BY <2>3 DEF w
<1>5. NormalizeDescriptorPath(cfg[d]) \in Path
  BY <1>4 DEF NormalizeDescriptorPath, Path
<1>6. MethodsOf(cfg[d])[m] \in Method
  BY MethodsType
<1> QED
  BY <1>2, <1>5, <1>6 DEF Entry, EntryType, Declared

\* Nothing is declared by the configuration a gateway starts with.
LEMMA NothingDeclared == Declared(<< >>) = {}
BY DEF Declared

---------------------------------------------------------------------------

\* Initially there is one router, and it is empty.
LEMMA InitInv == Init => IndInv
<1> SUFFICES ASSUME Init PROVE IndInv
  OBVIOUS
<1>1. 0 \in Router /\ << >> \in Config \cup {<< >>}
  BY RoutesAssumption DEF Router
<1>2. \A t \in Router : config[t] = << >> /\ entries[t] = {}
  BY DEF Init
<1>3. Idle \in CallType
  BY <1>1 DEF Idle, CallType
<1>4. TypeOK
  <2>1. router \in Router /\ loads \in Router /\ at \in Position \cup {None}
    BY <1>1 DEF Init
  <2>2. config \in [Router -> Config \cup {<< >>}] /\ entries \in [Router -> SUBSET EntryType]
    BY <1>1 DEF Init
  <2>3. call \in [Request -> CallType]
    BY <1>3 DEF Init
  <2> QED
    BY <1>2, <2>1, <2>2, <2>3 DEF TypeOK
<1>5. LoadingIsPrivate
  BY DEF Init, LoadingIsPrivate, Idle
<1>6. \A t \in Router : MissingWereRefused(t)
  BY <1>2, NothingDeclared DEF MissingWereRefused
<1> QED
  BY <1>2, <1>4, <1>5, <1>6 DEF IndInv, ConflictFree, WellFormed

\* Requests do not touch the tables.
LEMMA TablesKept ==
  ASSUME IndInv, UNCHANGED <<router, loads, config, entries, at>>,
         call' \in [Request -> CallType],
         \A r \in Request : /\ call'[r].pc # "idle" => call'[r].router <= router
                            /\ call'[r].pc = "looking" => call'[r].in \in Input
                            /\ call'[r].pc = "answered" => call'[r].answer # None
  PROVE  IndInv'
<1>1. TypeOK'
  BY DEF IndInv, TypeOK
<1>2. ConflictFree' /\ WellFormed'
  BY DEF IndInv, ConflictFree, WellFormed
<1>3. \A e : Visited(e)' <=> Visited(e)
  BY DEF Visited, Cfg
<1>4. LoadingIsPrivate'
  BY <1>3 DEF IndInv, LoadingIsPrivate, Registering, Cfg
<1>5. \A t \in Router : MissingWereRefused(t)'
  BY <1>3 DEF IndInv, MissingWereRefused
<1> QED
  BY <1>1, <1>2, <1>4, <1>5 DEF IndInv

\* Every answer is typed.
LEMMA ResolveTyped ==
  ASSUME NEW cfg, NEW found \in SUBSET Declared(cfg), NEW in
  PROVE  Resolve(cfg, found, in) \in Answer(cfg)
<1>1. CASE found = {}
  BY <1>1 DEF Resolve, Answer
<1>2. CASE found # {}
  <2> DEFINE e == CHOOSE e \in found : TRUE
  <2>1. e \in found
    BY <1>2
  <2>2. e.from \in DOMAIN cfg
    BY <2>1, DeclaredFrom
  <2> QED
    BY <1>2, <2>2 DEF Resolve, Answer
<1> QED
  BY <1>1, <1>2

LEMMA ReadRouterInv ==
  ASSUME IndInv, NEW r \in Request, NEW in \in Input, ReadRouter(r, in)
  PROVE  IndInv'
<1> DEFINE c == [pc |-> "looking", router |-> router, in |-> in, answer |-> None]
<1>1. c \in CallType
  BY DEF IndInv, TypeOK, CallType
<1>2. call' = [call EXCEPT ![r] = c] /\ call \in [Request -> CallType]
  BY DEF ReadRouter, IndInv, TypeOK
<1>3. call' \in [Request -> CallType]
  BY <1>1, <1>2
<1>4. router <= router
  BY DEF IndInv, TypeOK, Router
<1>5. \A q \in Request : /\ call'[q].pc # "idle" => call'[q].router <= router
                         /\ call'[q].pc = "looking" => call'[q].in \in Input
                         /\ call'[q].pc = "answered" => call'[q].answer # None
  BY <1>2, <1>4 DEF IndInv, LoadingIsPrivate
<1> QED
  BY <1>3, <1>5, TablesKept DEF ReadRouter

LEMMA ResolveEndpointInv ==
  ASSUME IndInv, NEW r \in Request, ResolveEndpoint(r)
  PROVE  IndInv'
<1> DEFINE t == call[r].router
<1> DEFINE a == ResolvedIn(t, call[r].in)
<1>1. call \in [Request -> CallType] /\ t \in Router /\ config[t] \in Config \cup {<< >>}
  BY DEF IndInv, TypeOK, CallType
<1>2. a \in Answer(config[t])
  <2>1. entries[t] \subseteq Declared(config[t])
    BY <1>1 DEF IndInv, TypeOK
  <2>2. Found(entries[t], call[r].in) \in SUBSET Declared(config[t])
    BY <2>1 DEF Found
  <2> QED
    BY <2>2, ResolveTyped DEF ResolvedIn
<1>3. a \in AnyAnswer /\ a # None
  BY <1>1, <1>2, RoutesAssumption DEF AnyAnswer
<1> HIDE DEF a
<1>4. call' = [call EXCEPT ![r].pc = "answered", ![r].answer = a]
  BY DEF ResolveEndpoint, a
<1>5. call' \in [Request -> CallType]
  <2> DEFINE c == [call[r] EXCEPT !.pc = "answered", !.answer = a]
  <2>1. call[r] \in CallType
    BY <1>1
  <2>2. c \in CallType
    BY <1>3, <2>1 DEF CallType
  <2>3. call' = [call EXCEPT ![r] = c]
    BY <1>1, <1>4
  <2> HIDE DEF c
  <2> QED
    BY <1>1, <2>2, <2>3
<1>6. \A q \in Request : /\ call'[q].pc # "idle" => call'[q].router <= router
                         /\ call'[q].pc = "looking" => call'[q].in \in Input
                         /\ call'[q].pc = "answered" => call'[q].answer # None
  BY <1>1, <1>3, <1>4 DEF IndInv, LoadingIsPrivate, CallType, ResolveEndpoint
<1> QED
  BY <1>5, <1>6, TablesKept DEF ResolveEndpoint

LEMMA LeaveInv ==
  ASSUME IndInv, NEW r \in Request, Leave(r)
  PROVE  IndInv'
<1>1. call' = [call EXCEPT ![r] = Idle] /\ call \in [Request -> CallType]
  BY DEF Leave, IndInv, TypeOK
<1>2. Idle \in CallType
  BY RoutesAssumption DEF Idle, CallType, Router
<1>3. call' \in [Request -> CallType]
  BY <1>1, <1>2
<1>4. \A q \in Request : /\ call'[q].pc # "idle" => call'[q].router <= router
                         /\ call'[q].pc = "looking" => call'[q].in \in Input
                         /\ call'[q].pc = "answered" => call'[q].answer # None
  BY <1>1 DEF IndInv, LoadingIsPrivate, Idle
<1> QED
  BY <1>3, <1>4, TablesKept DEF Leave

---------------------------------------------------------------------------

\* What may be assumed of a router that is being filled.
LEMMA Filling ==
  ASSUME IndInv, at # None
  PROVE  /\ Cfg \in Config /\ Cfg \in Seq(Descriptor) /\ loads \in Router /\ loads \in Nat
         /\ loads > 0 /\ router = loads - 1
         /\ at \in Position /\ at.descriptor \in Nat /\ at.method \in Nat
         /\ at.descriptor >= 1 /\ at.method >= 1 /\ at.descriptor <= Len(Cfg) + 1
         /\ entries[loads] \in SUBSET EntryType /\ entries[loads] \subseteq Declared(Cfg)
<1>1. Cfg \in Config /\ loads > 0 /\ router = loads - 1 /\ at.descriptor <= Len(Cfg) + 1
  BY DEF IndInv, LoadingIsPrivate
<1>2. Cfg \in Seq(Descriptor)
  BY <1>1, RoutePathsAssumption DEF ConfigType
<1>3. loads \in Router /\ loads \in Nat
  BY DEF IndInv, TypeOK, Router
<1>4. at \in Position
  BY DEF IndInv, TypeOK
<1>5. /\ at.descriptor \in Nat /\ at.method \in Nat
      /\ at.descriptor >= 1 /\ at.method >= 1
  BY <1>4 DEF Position
<1>6. entries[loads] \in SUBSET EntryType /\ entries[loads] \subseteq Declared(Cfg)
  BY <1>3 DEF IndInv, TypeOK, Cfg
<1> QED
  BY <1>1, <1>2, <1>3, <1>4, <1>5, <1>6

\* A new router has everything before it.
LEMMA ReceiveRoutesInv ==
  ASSUME IndInv, NEW cfg \in Config, ReceiveRoutes(cfg)
  PROVE  IndInv'
<1> DEFINE n == loads + 1
<1>1. loads \in Nat /\ n \in Router /\ loads \in Router /\ n # loads /\ n > 0 /\ n - 1 = loads
  BY RoutesAssumption DEF IndInv, TypeOK, Router, ReceiveRoutes
<1> HIDE DEF n
<1>2. /\ loads' = n /\ at = None
      /\ config' = [config EXCEPT ![n] = cfg]
      /\ entries' = [entries EXCEPT ![n] = {}]
      /\ at' = [descriptor |-> 1, method |-> 1]
      /\ router' = router /\ call' = call
  BY DEF ReceiveRoutes, n
<1>3. /\ config'[n] = cfg /\ entries'[n] = {} /\ Cfg' = cfg
      /\ \A t \in Router : t # n => config'[t] = config[t] /\ entries'[t] = entries[t]
  BY <1>1, <1>2 DEF IndInv, TypeOK, Cfg
<1>4. at' \in Position /\ at' # None
  BY <1>2, RoutesAssumption DEF Position
<1>5. TypeOK'
  <2>1. router' \in Router /\ loads' \in Router
    BY <1>1, <1>2 DEF IndInv, TypeOK
  <2>2. config' \in [Router -> Config \cup {<< >>}] /\ entries' \in [Router -> SUBSET EntryType]
    BY <1>2 DEF IndInv, TypeOK
  <2>3. \A t \in Router : entries'[t] \subseteq Declared(config'[t])
    <3> TAKE t \in Router
    <3>1. CASE t = n
      BY <1>3, <3>1
    <3>2. CASE t # n
      BY <1>3, <3>2 DEF IndInv, TypeOK
    <3> QED
      BY <3>1, <3>2
  <2>4. call' \in [Request -> CallType]
    BY <1>2 DEF IndInv, TypeOK
  <2> QED
    BY <1>4, <2>1, <2>2, <2>3, <2>4 DEF TypeOK
<1>6. ConflictFree' /\ WellFormed'
  <2>1. \A t \in Router : entries'[t] = {} \/ entries'[t] = entries[t]
    BY <1>3
  <2> QED
    BY <2>1 DEF IndInv, ConflictFree, WellFormed
<1>7. LoadingIsPrivate'
  <2>1. router' = loads' - 1 /\ loads' > 0
    BY <1>1, <1>2 DEF IndInv, LoadingIsPrivate
  <2>2. Len(cfg) \in Nat /\ 1 <= Len(cfg) + 1
    BY RoutePathsAssumption DEF ConfigType
  <2>3. Registering' => 1 <= Len(MethodsOf(cfg[1]))
    BY <1>2, <1>3, MethodsType DEF Registering
  <2>4. \A e \in entries'[loads'] : Visited(e)'
    BY <1>2, <1>3
  <2>5. \A r \in Request : /\ call'[r].pc # "idle" => call'[r].router <= router'
                           /\ call'[r].pc = "looking" => call'[r].in \in Input
                           /\ call'[r].pc = "answered" => call'[r].answer # None
    BY <1>2 DEF IndInv, LoadingIsPrivate
  <2>6. at'.descriptor = 1 /\ at'.method = 1
    BY <1>2
  <2> QED
    BY <1>3, <1>4, <2>1, <2>2, <2>3, <2>4, <2>5, <2>6 DEF LoadingIsPrivate
<1>8. \A t \in Router : MissingWereRefused(t)'
  <2> TAKE t \in Router
  <2>1. CASE t = n
    <3>1. \A e \in Declared(cfg) : ~Visited(e)'
      <4> TAKE e \in Declared(cfg)
      <4>1. e.from \in DOMAIN cfg
        BY DeclaredFrom
      <4>2. e.from \in Nat /\ ~(e.from < 1)
        BY <4>1, RoutePathsAssumption DEF ConfigType
      <4>3. at'.descriptor = 1 /\ at'.method = 1 /\ 1 .. 1 - 1 = {}
        BY <1>2
      <4> QED
        BY <1>4, <4>2, <4>3 DEF Visited
    <3> QED
      BY <1>2, <1>3, <2>1, <3>1 DEF MissingWereRefused
  <2>2. CASE t # n
    <3>1. \A e : Visited(e)
      BY <1>2 DEF Visited
    <3>2. MissingWereRefused(t)
      BY DEF IndInv
    <3> QED
      BY <1>3, <2>2, <3>1, <3>2 DEF MissingWereRefused
  <2> QED
    BY <2>1, <2>2
<1> QED
  BY <1>5, <1>6, <1>7, <1>8 DEF IndInv

\* A router is published when everything was visited.
LEMMA PublishInv ==
  ASSUME IndInv, Publish
  PROVE  IndInv'
<1>1. /\ at # None /\ ~Registering /\ at' = None /\ router' = loads
      /\ loads' = loads /\ config' = config /\ entries' = entries /\ call' = call
  BY DEF Publish
<1>2. \A e \in Declared(Cfg) : Visited(e)
  <2> TAKE e \in Declared(Cfg)
  <2>1. e.from \in DOMAIN Cfg
    BY DeclaredFrom
  <2>2. at.descriptor \notin DOMAIN Cfg
    BY <1>1 DEF Registering
  <2>3. e.from < at.descriptor
    BY <1>1, <2>1, <2>2, Filling
  <2> QED
    BY <2>3 DEF Visited
<1>3. TypeOK'
  BY <1>1 DEF IndInv, TypeOK
<1>4. ConflictFree' /\ WellFormed'
  BY <1>1 DEF IndInv, ConflictFree, WellFormed
<1>5. LoadingIsPrivate'
  <2>1. \A r \in Request : call'[r].pc # "idle" => call'[r].router <= router'
    <3> SUFFICES ASSUME NEW r \in Request, call'[r].pc # "idle"
                 PROVE  call'[r].router <= router'
      OBVIOUS
    <3>1. call[r].router <= router /\ call[r].router \in Nat /\ router \in Nat
      BY <1>1 DEF IndInv, LoadingIsPrivate, TypeOK, CallType, Router
    <3> QED
      BY <1>1, <3>1, Filling
  <2> QED
    BY <1>1, <2>1 DEF IndInv, LoadingIsPrivate
<1>6. \A t \in Router : MissingWereRefused(t)'
  <2> TAKE t \in Router
  <2>1. MissingWereRefused(t)
    BY DEF IndInv
  <2> QED
    BY <1>1, <1>2, <2>1 DEF MissingWereRefused, Cfg
<1> QED
  BY <1>3, <1>4, <1>5, <1>6 DEF IndInv

\* Where the loops are when they register.
LEMMA AtEntry ==
  ASSUME IndInv, Registering
  PROVE  /\ at # None /\ at.descriptor \in DOMAIN Cfg
         /\ at.method \in DOMAIN MethodsOf(Cfg[at.descriptor])
         /\ Current \in EntryType /\ Current \in Declared(Cfg)
         /\ Current.from = at.descriptor
         /\ Current.method = MethodsOf(Cfg[at.descriptor])[at.method]
<1>1. at # None /\ at.descriptor \in DOMAIN Cfg /\ Cfg \in Config
  BY Filling DEF Registering
<1>2. MethodsOf(Cfg[at.descriptor]) \in Seq(Method)
  BY <1>1, MethodsType
<1>3. at.method <= Len(MethodsOf(Cfg[at.descriptor])) /\ at.method \in Nat /\ at.method >= 1
  BY <1>1, Filling DEF IndInv, LoadingIsPrivate
<1>4. at.method \in DOMAIN MethodsOf(Cfg[at.descriptor])
  BY <1>2, <1>3
<1> QED
  BY <1>1, <1>4, EntryIsTyped DEF Current

\* A declared entry of a descriptor is known by its method.
LEMMA KnownByMethod ==
  ASSUME NEW cfg \in Config, NEW e \in Declared(cfg), NEW m \in DOMAIN MethodsOf(cfg[e.from]),
         e.method = MethodsOf(cfg[e.from])[m]
  PROVE  e = Entry(cfg, e.from, m)
<1>1. e.from \in DOMAIN cfg
  BY DeclaredFrom
<1>2. PICK k \in DOMAIN MethodsOf(cfg[e.from]) :
        e = Entry(cfg, e.from, k) /\ e.method = MethodsOf(cfg[e.from])[k]
  BY DeclaredFrom
<1>3. k = m
  BY <1>1, <1>2, MethodsType
<1> QED
  BY <1>2, <1>3

\* One registration visits one entry.
LEMMA AdvanceVisits ==
  ASSUME IndInv, Registering, Advance, UNCHANGED <<loads, config>>
  PROVE  /\ at' \in Position /\ at' # None
         /\ at'.descriptor <= Len(Cfg) + 1
         /\ Registering' => at'.method <= Len(MethodsOf(Cfg[at'.descriptor]))
         /\ \A e \in Declared(Cfg) : Visited(e) \/ e = Current => Visited(e)'
         /\ \A e \in Declared(Cfg) : Visited(e)' /\ ~Visited(e) => e = Current
<1> DEFINE d == at.descriptor
<1> DEFINE m == at.method
<1> DEFINE ms == MethodsOf(Cfg[d])
<1>1. Cfg' = Cfg /\ Cfg \in Config /\ Cfg \in Seq(Descriptor)
  BY AtEntry, Filling DEF Cfg
<1>2. d \in DOMAIN Cfg /\ d \in Nat /\ d >= 1 /\ d <= Len(Cfg) /\ at # None
  BY <1>1, AtEntry, Filling
<1>3. /\ m \in Nat /\ m >= 1 /\ m \in DOMAIN ms /\ ms \in Seq(Method) /\ Len(ms) \in Nat
      /\ m <= Len(ms)
  BY <1>1, <1>2, AtEntry, Filling, MethodsType
<1>4. Current = Entry(Cfg, d, m) /\ Current.from = d /\ Current.method = ms[m]
  BY AtEntry DEF Current
<1>5. at \in Position
  BY <1>2, Filling
<1>6. \A e \in Declared(Cfg) : e.from \in Nat
  BY <1>1, DeclaredFrom
<1>7. CASE m < Len(ms)
  <2>1. at' = [at EXCEPT !.method = m + 1]
    BY <1>7 DEF Advance
  <2>2. at' \in Position /\ at'.descriptor = d /\ at'.method = m + 1
    BY <1>2, <1>3, <1>5, <2>1 DEF Position
  <2> HIDE DEF ms, d, m
  <2>3. at' # None
    BY <2>2, RoutesAssumption DEF Position
  <2>4. ASSUME NEW e \in Declared(Cfg), Visited(e)
        PROVE  Visited(e)'
    <3>1. 1 .. at.method - 1 \subseteq 1 .. at'.method - 1
      BY <1>3, <2>2 DEF m
    <3> QED
      BY <1>1, <1>2, <2>2, <2>4, <3>1 DEF Visited, d
  <2>5. ASSUME NEW e \in Declared(Cfg), e = Current
        PROVE  Visited(e)'
    <3>1. m \in 1 .. at'.method - 1
      BY <1>3, <2>2
    <3>2. e.from = at'.descriptor /\ e.method = MethodsOf(Cfg'[e.from])[m]
      BY <1>1, <1>4, <2>2, <2>5 DEF ms
    <3> QED
      BY <3>1, <3>2 DEF Visited
  <2>6. ASSUME NEW e \in Declared(Cfg), Visited(e)', ~Visited(e)
        PROVE  e = Current
    <3>1. e.from = d
      BY <1>1, <1>2, <2>2, <2>3, <2>6 DEF Visited, d
    <3>2. \E k \in 1 .. m : e.method = ms[k]
      BY <1>1, <1>2, <1>3, <2>2, <2>3, <2>6, <3>1 DEF Visited, d, ms
    <3>3. e.method = ms[m]
      BY <1>2, <1>3, <2>6, <3>1, <3>2 DEF Visited, d, ms, m
    <3> QED
      BY <1>1, <1>3, <1>4, <3>1, <3>3, KnownByMethod DEF ms
  <2>7. /\ at'.descriptor <= Len(Cfg) + 1
        /\ Registering' => at'.method <= Len(MethodsOf(Cfg[at'.descriptor]))
    BY <1>1, <1>2, <1>3, <1>7, <2>2 DEF ms
  <2> QED
    BY <2>2, <2>3, <2>4, <2>5, <2>6, <2>7
<1>8. CASE ~(m < Len(ms))
  <2>1. at' = [descriptor |-> d + 1, method |-> 1] /\ m = Len(ms)
    BY <1>3, <1>8 DEF Advance
  <2>2. at' \in Position /\ at'.descriptor = d + 1 /\ at'.method = 1
    BY <1>2, <2>1 DEF Position
  <2> HIDE DEF ms, d, m
  <2>3. at' # None /\ 1 .. at'.method - 1 = {}
    BY <2>2, RoutesAssumption DEF Position
  <2>4. ASSUME NEW e \in Declared(Cfg), Visited(e)
        PROVE  Visited(e)'
    BY <1>2, <1>6, <2>2, <2>4 DEF Visited, d
  <2>5. ASSUME NEW e \in Declared(Cfg), e = Current
        PROVE  Visited(e)'
    <3>1. e.from < at'.descriptor
      BY <1>2, <1>4, <2>2, <2>5
    <3> QED
      BY <3>1 DEF Visited
  <2>6. ASSUME NEW e \in Declared(Cfg), Visited(e)', ~Visited(e)
        PROVE  e = Current
    <3>1. e.from < d + 1
      BY <2>2, <2>3, <2>6 DEF Visited
    <3>2. e.from = d
      BY <1>2, <1>6, <2>6, <3>1 DEF Visited, d
    <3>3. PICK k \in DOMAIN MethodsOf(Cfg[e.from]) :
            e = Entry(Cfg, e.from, k) /\ e.method = MethodsOf(Cfg[e.from])[k]
      BY DeclaredFrom
    <3>4. k \notin 1 .. m - 1
      BY <1>2, <2>6, <3>2, <3>3 DEF Visited, d, m
    <3>5. k = m
      BY <1>3, <2>1, <3>2, <3>3, <3>4 DEF ms
    <3> QED
      BY <1>4, <3>2, <3>3, <3>5
  <2>7. at'.descriptor <= Len(Cfg) + 1
    BY <1>1, <1>2, <2>2
  <2>8. Registering' => at'.method <= Len(MethodsOf(Cfg[at'.descriptor]))
    BY <1>1, <2>2, MethodsType DEF Registering
  <2> QED
    BY <2>2, <2>3, <2>4, <2>5, <2>6, <2>7, <2>8
<1> QED
  BY <1>7, <1>8

\* What is kept of a descriptor so far cannot refuse its next method.
LEMMA RefusedByEarlier ==
  ASSUME IndInv, Registering, NEW f \in entries[loads], Conflict(Current, f)
  PROVE  f.from < Current.from
<1>1. Visited(f) /\ f \in Declared(Cfg) /\ at # None /\ Cfg \in Config
  BY AtEntry, Filling DEF IndInv, LoadingIsPrivate
<1>2. /\ at.descriptor \in DOMAIN Cfg
      /\ at.method \in DOMAIN MethodsOf(Cfg[at.descriptor])
      /\ Current.from = at.descriptor
      /\ Current.method = MethodsOf(Cfg[at.descriptor])[at.method]
  BY AtEntry
<1>3. MethodsOf(Cfg[at.descriptor]) \in Seq(Method)
  BY <1>1, <1>2, MethodsType
<1>4. f.method = MethodsOf(Cfg[at.descriptor])[at.method]
  BY <1>2 DEF Conflict
<1>5. ~(f.from = at.descriptor)
  <2> SUFFICES ASSUME f.from = at.descriptor PROVE FALSE
    OBVIOUS
  <2>1. at.descriptor \in Nat /\ ~(f.from < at.descriptor)
    BY <1>1, Filling
  <2>2. PICK k \in 1 .. at.method - 1 : f.method = MethodsOf(Cfg[at.descriptor])[k]
    BY <1>1, <2>1 DEF Visited
  <2>3. k \in DOMAIN MethodsOf(Cfg[at.descriptor]) /\ k # at.method
    BY <1>2, <1>3, <2>2
  <2> QED
    BY <1>1, <1>2, <1>4, <2>2, <2>3, MethodsType
<1> QED
  BY <1>1, <1>2, <1>5 DEF Visited

\* A registration refuses exactly what conflicts with something kept.
LEMMA RegisterEndpointInv ==
  ASSUME IndInv, RegisterEndpoint
  PROVE  IndInv'
<1> DEFINE E == IF Refused THEN entries[loads] ELSE entries[loads] \cup {Current}
<1>1. /\ Registering /\ Advance
      /\ entries' = [entries EXCEPT ![loads] = E]
      /\ UNCHANGED <<router, loads, config, call>>
  BY DEF RegisterEndpoint
<1>2. /\ at # None /\ loads \in Router /\ Cfg' = Cfg
      /\ entries[loads] \in SUBSET EntryType /\ entries[loads] \subseteq Declared(Cfg)
      /\ Current \in EntryType /\ Current \in Declared(Cfg)
  BY <1>1, AtEntry, Filling DEF Cfg
<1>3. E \in SUBSET EntryType /\ E \subseteq Declared(Cfg) /\ entries[loads] \subseteq E
  BY <1>2
<1>4. Refused <=> (Malformed(Current.path) \/ \E f \in entries[loads] : Conflict(Current, f))
  BY DEF Refused
<1>5. Refused => E = entries[loads]
  OBVIOUS
<1>6. ~Refused => E = entries[loads] \cup {Current}
  OBVIOUS
<1> HIDE DEF E
<1>7. entries'[loads] = E /\ \A t \in Router : t # loads => entries'[t] = entries[t]
  BY <1>1, <1>2 DEF IndInv, TypeOK
<1>8. TypeOK'
  <2>1. entries' \in [Router -> SUBSET EntryType]
    BY <1>1, <1>3 DEF IndInv, TypeOK
  <2>2. \A t \in Router : entries'[t] \subseteq Declared(config'[t])
    BY <1>1, <1>3, <1>7 DEF IndInv, TypeOK, Cfg
  <2>3. at' \in Position
    BY <1>1, AdvanceVisits
  <2> QED
    BY <1>1, <2>1, <2>2, <2>3 DEF IndInv, TypeOK
<1>9. ConflictFree'
  <2> SUFFICES ASSUME NEW t \in Router, NEW e \in entries'[t], NEW f \in entries'[t],
                      Conflict(e, f)
               PROVE  e = f
    BY <1>1 DEF ConflictFree
  <2>1. CASE t # loads \/ Refused
    BY <1>5, <1>7, <2>1 DEF IndInv, ConflictFree
  <2>2. CASE t = loads /\ ~Refused
    <3>1. e \in entries[loads] \cup {Current} /\ f \in entries[loads] \cup {Current}
      BY <1>6, <1>7, <2>2
    <3>2. CASE e \in entries[loads] /\ f \in entries[loads]
      BY <1>2, <3>2 DEF IndInv, ConflictFree
    <3>3. CASE e = Current /\ f \in entries[loads]
      BY <1>4, <2>2, <3>3
    <3>4. CASE f = Current /\ e \in entries[loads]
      <4>1. Conflict(Current, e)
        BY <3>4, ConflictSymmetric
      <4> QED
        BY <1>4, <2>2, <3>4, <4>1
    <3> QED
      BY <3>1, <3>2, <3>3, <3>4
  <2> QED
    BY <2>1, <2>2
<1>10. WellFormed'
  <2> SUFFICES ASSUME NEW t \in Router, NEW e \in entries'[t]
               PROVE  ~Malformed(e.path)
    BY DEF WellFormed
  <2>1. e \in entries[t] \/ (~Refused /\ e = Current)
    BY <1>5, <1>6, <1>7
  <2> QED
    BY <1>4, <2>1 DEF IndInv, WellFormed
<1>11. LoadingIsPrivate'
  <2>1. \A e \in entries'[loads'] : Visited(e)'
    <3> SUFFICES ASSUME NEW e \in E PROVE Visited(e)'
      BY <1>1, <1>7
    <3>1. e \in Declared(Cfg) /\ (Visited(e) \/ e = Current)
      BY <1>2, <1>3, <1>5, <1>6 DEF IndInv, LoadingIsPrivate
    <3> QED
      BY <1>1, <3>1, AdvanceVisits
  <2>2. /\ at' # None /\ at'.descriptor <= Len(Cfg') + 1
        /\ Registering' => at'.method <= Len(MethodsOf(Cfg'[at'.descriptor]))
    BY <1>1, <1>2, AdvanceVisits
  <2>3. router' = loads' - 1 /\ loads' > 0 /\ Cfg' \in Config
    BY <1>1, <1>2, Filling
  <2>4. \A r \in Request : /\ call'[r].pc # "idle" => call'[r].router <= router'
                           /\ call'[r].pc = "looking" => call'[r].in \in Input
                           /\ call'[r].pc = "answered" => call'[r].answer # None
    BY <1>1 DEF IndInv, LoadingIsPrivate
  <2> QED
    BY <2>1, <2>2, <2>3, <2>4 DEF LoadingIsPrivate
<1>12. \A t \in Router : MissingWereRefused(t)'
  <2> SUFFICES ASSUME NEW t \in Router, NEW e \in Declared(config[t]), e \notin entries'[t]
               PROVE  \/ t = loads /\ ~Visited(e)'
                      \/ Malformed(e.path)
                      \/ \E f \in entries'[t] : f.from < e.from /\ Conflict(e, f)
    BY <1>1 DEF MissingWereRefused
  <2>1. MissingWereRefused(t)
    BY DEF IndInv
  <2>2. entries[t] \subseteq entries'[t]
    BY <1>3, <1>7
  <2>3. \/ t = loads /\ ~Visited(e)
        \/ Malformed(e.path)
        \/ \E f \in entries'[t] : f.from < e.from /\ Conflict(e, f)
    BY <2>1, <2>2 DEF MissingWereRefused
  <2>4. CASE t = loads /\ ~Visited(e)
    <3>1. e \in Declared(Cfg)
      BY <2>4 DEF Cfg
    <3>2. CASE e = Current
      <4>1. Refused
        BY <1>6, <1>7, <2>4, <3>2
      <4>2. CASE \E f \in entries[loads] : Conflict(Current, f)
        <5>1. PICK f \in entries[loads] : Conflict(Current, f)
          BY <4>2
        <5>2. f.from < e.from /\ Conflict(e, f)
          BY <1>1, <3>2, <5>1, RefusedByEarlier
        <5> QED
          BY <2>2, <2>4, <5>2
      <4> QED
        BY <1>4, <3>2, <4>1, <4>2
    <3>3. CASE e # Current
      <4>1. ~Visited(e)'
        BY <1>1, <2>4, <3>1, <3>3, AdvanceVisits
      <4> QED
        BY <2>4, <4>1
    <3> QED
      BY <3>2, <3>3
  <2> QED
    BY <2>3, <2>4
<1> QED
  BY <1>8, <1>9, <1>10, <1>11, <1>12 DEF IndInv

\* Every step keeps the inductive invariant.
LEMMA NextInv == IndInv /\ [Next]_vars => IndInv'
<1> SUFFICES ASSUME IndInv, [Next]_vars PROVE IndInv'
  OBVIOUS
<1>1. ASSUME NEW cfg \in Config, ReceiveRoutes(cfg) PROVE IndInv'
  BY <1>1, ReceiveRoutesInv
<1>2. CASE RegisterEndpoint
  BY <1>2, RegisterEndpointInv
<1>3. CASE Publish
  BY <1>3, PublishInv
<1>4. ASSUME NEW r \in Request, NEW in \in Input, ReadRouter(r, in) PROVE IndInv'
  BY <1>4, ReadRouterInv
<1>5. ASSUME NEW r \in Request, ResolveEndpoint(r) PROVE IndInv'
  BY <1>5, ResolveEndpointInv
<1>6. ASSUME NEW r \in Request, Leave(r) PROVE IndInv'
  BY <1>6, LeaveInv
<1>7. CASE UNCHANGED vars
  <2>1. UNCHANGED <<router, loads, config, entries, at>> /\ call' = call
    BY <1>7 DEF vars
  <2> QED
    BY <2>1, TablesKept DEF IndInv, TypeOK, LoadingIsPrivate
<1> QED
  BY <1>1, <1>2, <1>3, <1>4, <1>5, <1>6, <1>7 DEF Next

\* The tables of routes.go satisfy IndInv in every reachable state: whatever
\* the configurations are, no two entries of a router conflict, and the only
\* endpoints missing from one in use are those httprouter refused, each
\* because of itself or of one declared before it.
THEOREM RoutesInvariant == Spec => []IndInv
<1>1. Init => IndInv
  BY InitInv
<1>2. IndInv /\ [Next]_vars => IndInv'
  BY NextInv
<1> QED
  BY <1>1, <1>2, PTL DEF Spec

---------------------------------------------------------------------------

\* What is looked up is a path.
LEMMA LookupPathType ==
  ASSUME NEW in \in Input
  PROVE  LookupPath(in) \in Seq(Name)
<1>1. in.path \in Seq(Name) /\ in.prefix \in Seq(Name)
  BY RoutePathsAssumption DEF InputType
<1> DEFINE p == in.path
<1> DEFINE q == in.prefix
<1>2. Len(p) \in Nat /\ Len(q) \in Nat
  BY <1>1
<1>3. SubSeq(p, Len(q) + 1, Len(p)) \in Seq(Name)
  BY <1>1, <1>2
<1> QED
  BY <1>1, <1>3 DEF LookupPath

LEMMA UnambiguousInv == IndInv => Unambiguous
<1> SUFFICES ASSUME IndInv, NEW in \in Input, NEW t \in 0 .. loads,
                    NEW e \in Found(entries[t], in), NEW f \in Found(entries[t], in)
             PROVE  e = f
  BY DEF Unambiguous
<1>1. t \in Router
  BY RoutesAssumption DEF IndInv, TypeOK, Router
<1>2. e \in entries[t] /\ f \in entries[t] /\ e.method = f.method
  BY DEF Found
<1>3. e \in EntryType /\ f \in EntryType
  BY <1>1, <1>2 DEF IndInv, TypeOK
<1> DEFINE p == e.path.segments
<1> DEFINE q == f.path.segments
<1>4. p \in Seq(Segment) /\ q \in Seq(Segment)
  BY <1>3 DEF EntryType, Path
<1>5. Matches(p, LookupPath(in)) /\ Matches(q, LookupPath(in))
  BY DEF Found
<1>6. RestIsLast(p) /\ RestIsLast(q)
  BY <1>1, <1>2 DEF IndInv, WellFormed, Malformed, RestIsLast
<1> HIDE DEF p, q
<1>7. Clash(p, q)
  BY <1>4, <1>5, <1>6, LookupPathType, MatchUnique
<1>8. Conflict(e, f)
  BY <1>2, <1>7 DEF Conflict, p, q
<1> QED
  BY <1>1, <1>2, <1>8 DEF IndInv, ConflictFree

\* Whatever the routing configurations are, ResolveEndpoint never has two
\* endpoints to choose from: Unambiguous.
THEOREM NoAmbiguity == Spec => []Unambiguous
BY RoutesInvariant, UnambiguousInv, PTL

---------------------------------------------------------------------------

\* The specification and the code speak of the same paths.
LEMMA SameDeclared == \A cfg : Abstract!Declared(cfg) = Declared(cfg)
BY DEF Abstract!Declared, Abstract!Entry, Abstract!MethodsOf,
       Abstract!NormalizeDescriptorPath,
       Declared, Entry, MethodsOf, NormalizeDescriptorPath

LEMMA SameConflict ==
  /\ \A e, f : Abstract!Conflict(e, f) <=> Conflict(e, f)
  /\ \A path : Abstract!Malformed(path) <=> Malformed(path)
BY DEF Abstract!Conflict, Abstract!Clash, Abstract!Malformed, Conflict, Clash, Malformed

LEMMA SameFound == \A E, in : Abstract!Found(E, in) = Found(E, in)
BY DEF Abstract!Found, Abstract!Matches, Abstract!LookupPath, Abstract!IsPrefix,
       Found, Matches, LookupPath, IsPrefix

LEMMA SameResolve ==
  \A cfg, found, in : Abstract!Resolve(cfg, found, in) = Resolve(cfg, found, in)
BY DEF Abstract!Resolve, Abstract!Unknown, Abstract!Unlisted, Abstract!Aborted,
       Abstract!Listed, Abstract!LookupPath, Abstract!IsPrefix,
       Resolve, Unknown, Unlisted, Aborted, Listed, LookupPath, IsPrefix

InForce == [config |-> config[router], entries |-> entries[router]]
Answers == [r \in Request |-> Told(r)]

\* The routers requests look into are the finished ones.
LEMMA RoutersInUse ==
  ASSUME IndInv
  PROVE  /\ router \in Router /\ (at # None => router # loads)
         /\ router # loads + 1
         /\ \A r \in Request : call[r].pc = "looking" =>
              /\ call[r].router \in Router
              /\ call[r].router # loads + 1
              /\ at # None => call[r].router # loads
<1>1. router \in Nat /\ loads \in Nat /\ router \in Router
  BY DEF IndInv, TypeOK, Router
<1>2. router = loads \/ router = loads - 1
  BY DEF IndInv, LoadingIsPrivate
<1>3. at # None => router = loads - 1
  BY DEF IndInv, LoadingIsPrivate
<1>4. ASSUME NEW r \in Request, call[r].pc = "looking"
      PROVE  call[r].router \in Router /\ call[r].router \in Nat /\ call[r].router <= router
  BY <1>4 DEF IndInv, TypeOK, CallType, Router, LoadingIsPrivate
<1> QED
  BY <1>1, <1>2, <1>3, <1>4

\* A change of routers not in use is not seen.
LEMMA Unseen ==
  ASSUME IndInv, UNCHANGED <<router, call>>,
         config'[router] = config[router], entries'[router] = entries[router],
         \A r \in Request : call[r].pc = "looking" =>
           /\ config'[call[r].router] = config[call[r].router]
           /\ entries'[call[r].router] = entries[call[r].router]
  PROVE  UNCHANGED <<InForce, Answers>>
<1>1. \A r \in Request : Told(r)' = Told(r)
  BY DEF Told, ResolvedIn
<1> QED
  BY <1>1 DEF InForce, Answers

LEMMA RefineInit == Init => Abstract!Init
<1> SUFFICES ASSUME Init PROVE Abstract!Init
  OBVIOUS
<1>1. config[router] = << >> /\ entries[router] = {}
  BY RoutesAssumption DEF Init, Router
<1>2. \A r \in Request : Told(r) = None
  BY DEF Init, Idle, Told
<1> QED
  BY <1>1, <1>2 DEF Abstract!Init

LEMMA RefinePublish ==
  ASSUME IndInv, Publish
  PROVE  \E cfg \in Config : Abstract!Publish(cfg)
<1>1. /\ at # None /\ ~Registering /\ at' = None /\ router' = loads
      /\ loads' = loads /\ config' = config /\ entries' = entries /\ call' = call
  BY DEF Publish
<1>2. Cfg \in Config /\ loads \in Router /\ entries[loads] \subseteq Declared(Cfg)
  BY <1>1, Filling
<1>3. Abstract!Kept(Cfg, entries[loads])
  <2>1. \A e, f \in entries[loads] : Conflict(e, f) => e = f
    BY <1>2 DEF IndInv, ConflictFree
  <2>2. \A e \in Declared(Cfg) \ entries[loads] :
          \/ Malformed(e.path)
          \/ \E f \in entries[loads] : f.from < e.from /\ Conflict(e, f)
    <3>1. IndInv'
      BY PublishInv
    <3>2. MissingWereRefused(loads)' /\ \A e : Visited(e)'
      BY <1>1, <1>2, <3>1 DEF IndInv, Visited
    <3> QED
      BY <1>1, <3>2 DEF MissingWereRefused, Cfg
  <2> QED
    BY <1>2, <2>1, <2>2, SameDeclared, SameConflict DEF Abstract!Kept
<1>4. \A r \in Request : Told(r)' = Told(r)
  BY <1>1 DEF Told, ResolvedIn
<1>5. config'[router'] = Cfg /\ entries'[router'] = entries[loads]
  BY <1>1 DEF Cfg
<1>6. Abstract!Publish(Cfg)
  BY <1>2, <1>3, <1>4, <1>5, SameDeclared DEF Abstract!Publish
<1> QED
  BY <1>2, <1>6

LEMMA RefineReadRouter ==
  ASSUME IndInv, NEW r \in Request, NEW in \in Input, ReadRouter(r, in)
  PROVE  Abstract!Ask(r, in)
<1>1. /\ call[r].pc = "idle" /\ UNCHANGED <<router, loads, config, entries, at>>
      /\ call' = [call EXCEPT ![r] = [pc |-> "looking", router |-> router, in |-> in,
                                      answer |-> None]]
      /\ call \in [Request -> CallType]
  BY DEF ReadRouter, IndInv, TypeOK
<1>2. Told(r) = None
  BY <1>1 DEF Told
<1>3. Told(r)' = Resolve(config[router], Found(entries[router], in), in)
  <2>1. /\ call'[r].pc = "looking" /\ call'[r].router = router /\ call'[r].in = in
    BY <1>1
  <2> QED
    BY <1>1, <2>1 DEF Told, ResolvedIn
<1>4. \A q \in Request : q # r => Told(q)' = Told(q)
  BY <1>1 DEF Told, ResolvedIn
<1>5. Answers' = [Answers EXCEPT ![r] = Resolve(InForce.config, Found(InForce.entries, in), in)]
  BY <1>3, <1>4 DEF Answers, InForce
<1>6. InForce' = InForce /\ Answers[r] = None
  BY <1>1, <1>2 DEF InForce, Answers
<1> QED
  BY <1>5, <1>6, SameResolve, SameFound DEF Abstract!Ask, InForce, Answers

LEMMA RefineLeave ==
  ASSUME IndInv, NEW r \in Request, Leave(r)
  PROVE  Abstract!Forget(r)
<1>1. /\ call[r].pc = "answered" /\ UNCHANGED <<router, loads, config, entries, at>>
      /\ call' = [call EXCEPT ![r] = Idle] /\ call \in [Request -> CallType]
  BY DEF Leave, IndInv, TypeOK
<1>2. Told(r) # None
  BY <1>1 DEF Told, IndInv, LoadingIsPrivate
<1>3. Told(r)' = None /\ \A q \in Request : q # r => Told(q)' = Told(q)
  BY <1>1 DEF Told, ResolvedIn, Idle
<1>4. Answers' = [Answers EXCEPT ![r] = None] /\ InForce' = InForce /\ Answers[r] # None
  BY <1>1, <1>2, <1>3 DEF Answers, InForce
<1> QED
  BY <1>4 DEF Abstract!Forget, InForce, Answers

\* The other steps change nothing the specification speaks of.
LEMMA RefineStutter ==
  ASSUME IndInv,
         \/ \E cfg \in Config : ReceiveRoutes(cfg)
         \/ RegisterEndpoint
         \/ \E r \in Request : ResolveEndpoint(r)
         \/ UNCHANGED vars
  PROVE  UNCHANGED <<InForce, Answers>>
<1>1. ASSUME NEW cfg \in Config, ReceiveRoutes(cfg) PROVE UNCHANGED <<InForce, Answers>>
  <2>1. \A t \in Router : t # loads + 1 => config'[t] = config[t] /\ entries'[t] = entries[t]
    BY <1>1 DEF ReceiveRoutes, IndInv, TypeOK
  <2>2. router' = router /\ call' = call
    BY <1>1 DEF ReceiveRoutes
  <2> QED
    BY <2>1, <2>2, RoutersInUse, Unseen
<1>2. CASE RegisterEndpoint
  <2>1. \A t \in Router : t # loads => config'[t] = config[t] /\ entries'[t] = entries[t]
    BY <1>2 DEF RegisterEndpoint, IndInv, TypeOK
  <2>2. router' = router /\ call' = call /\ at # None
    BY <1>2 DEF RegisterEndpoint, Registering
  <2> QED
    BY <2>1, <2>2, RoutersInUse, Unseen
<1>3. ASSUME NEW r \in Request, ResolveEndpoint(r) PROVE UNCHANGED <<InForce, Answers>>
  <2> DEFINE a == ResolvedIn(call[r].router, call[r].in)
  <2>1. /\ call[r].pc = "looking" /\ UNCHANGED <<router, loads, config, entries, at>>
        /\ call' = [call EXCEPT ![r].pc = "answered", ![r].answer = a]
        /\ call \in [Request -> CallType]
    BY <1>3 DEF ResolveEndpoint, IndInv, TypeOK
  <2>2. Told(r) = a
    BY <2>1 DEF Told
  <2> HIDE DEF a
  <2>3. Told(r)' = a
    BY <2>1 DEF Told, CallType
  <2>4. \A q \in Request : q # r => Told(q)' = Told(q)
    BY <2>1 DEF Told, ResolvedIn
  <2>5. \A q \in Request : Told(q)' = Told(q)
    BY <2>2, <2>3, <2>4
  <2> QED
    BY <2>1, <2>5 DEF InForce, Answers
<1>4. CASE UNCHANGED vars
  BY <1>4, Unseen DEF vars
<1> QED
  BY <1>1, <1>2, <1>3, <1>4

LEMMA RefineNext == IndInv /\ [Next]_vars => [Abstract!Next]_(Abstract!vars)
<1> SUFFICES ASSUME IndInv, [Next]_vars PROVE [Abstract!Next]_(Abstract!vars)
  OBVIOUS
<1>1. CASE \/ \E cfg \in Config : ReceiveRoutes(cfg)
           \/ RegisterEndpoint
           \/ \E r \in Request : ResolveEndpoint(r)
           \/ UNCHANGED vars
  BY <1>1, RefineStutter DEF Abstract!vars, InForce, Answers
<1>2. CASE Publish
  BY <1>2, RefinePublish DEF Abstract!Next
<1>3. ASSUME NEW r \in Request, NEW in \in Input, ReadRouter(r, in)
      PROVE  Abstract!Next
  BY <1>3, RefineReadRouter DEF Abstract!Next
<1>4. ASSUME NEW r \in Request, Leave(r)
      PROVE  Abstract!Next
  BY <1>4, RefineLeave DEF Abstract!Next
<1> QED
  BY <1>1, <1>2, <1>3, <1>4 DEF Next

\* Without a lock, and with any number of reloads during a resolution, every
\* request is answered from one whole configuration, the one in force when
\* ResolveEndpoint read the pointer: ImplementsRoutesSpec.
THEOREM Refinement == Spec => ImplementsRoutesSpec
<1>1. Init => Abstract!Init
  BY RefineInit
<1>2. IndInv /\ [Next]_vars => [Abstract!Next]_(Abstract!vars)
  BY RefineNext
<1> QED
  BY <1>1, <1>2, RoutesInvariant, PTL DEF Spec, ImplementsRoutesSpec, Abstract!Spec
=============================================================================
