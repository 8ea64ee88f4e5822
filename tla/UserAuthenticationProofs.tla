--------------------- MODULE UserAuthenticationProofs ---------------------
(***************************************************************************)
(* The cache of users, shared by all modules and configurations, answers a *)
(* request only with data about its own token at its own endpoint, and     *)
(* with none that is older than some configuration allowed: for every set  *)
(* of requests, endpoints without ':', tokens and configurations.          *)
(***************************************************************************)
EXTENDS UserAuthentication, TLAPS

\* What is where in a key.
LEMMA KeyParts ==
  ASSUME NEW e \in Endpoint, NEW t \in Token
  PROVE  /\ Len(Key(e, t)) = Len(e) + 1 + Len(t)
         /\ \A i \in 1 .. Len(e) : Key(e, t)[i] = e[i]
         /\ Key(e, t)[Len(e) + 1] = Colon
         /\ \A i \in 1 .. Len(t) : Key(e, t)[Len(e) + 1 + i] = t[i]
<1>1. e \in Seq(Char) /\ t \in Seq(Char) /\ Colon \in Char
  BY UserAuthenticationAssumption
<1> QED
  BY <1>1 DEF Key

\* The first ':' of a key ends the endpoint, so no two pairs share a key.
LEMMA KeyInjective ==
  ASSUME NEW e1 \in Endpoint, NEW e2 \in Endpoint, NEW t1 \in Token, NEW t2 \in Token,
         Key(e1, t1) = Key(e2, t2)
  PROVE  e1 = e2 /\ t1 = t2
<1>1. e1 \in Seq(Char) /\ e2 \in Seq(Char) /\ t1 \in Seq(Char) /\ t2 \in Seq(Char)
      /\ Colon \in Char
  BY UserAuthenticationAssumption
<1> DEFINE k == Key(e1, t1)
<1>2. /\ Len(k) = Len(e1) + 1 + Len(t1)
      /\ \A i \in 1 .. Len(e1) : k[i] = e1[i]
      /\ k[Len(e1) + 1] = Colon
      /\ \A i \in 1 .. Len(t1) : k[Len(e1) + 1 + i] = t1[i]
  BY KeyParts
<1>3. /\ Len(k) = Len(e2) + 1 + Len(t2)
      /\ \A i \in 1 .. Len(e2) : k[i] = e2[i]
      /\ k[Len(e2) + 1] = Colon
      /\ \A i \in 1 .. Len(t2) : k[Len(e2) + 1 + i] = t2[i]
  BY KeyParts
<1> HIDE DEF k
<1>4. ~(Len(e1) < Len(e2))
  <2> SUFFICES ASSUME Len(e1) < Len(e2) PROVE FALSE
    OBVIOUS
  <2>1. Len(e1) + 1 \in DOMAIN e2 /\ Len(e1) + 1 \in 1 .. Len(e2)
    BY <1>1
  <2>2. k[Len(e1) + 1] = e2[Len(e1) + 1] /\ k[Len(e1) + 1] = Colon
    BY <2>1, <1>2, <1>3
  <2>3. e2[Len(e1) + 1] # Colon
    BY <2>1, NoColonInEndpoint
  <2> QED
    BY <2>2, <2>3
<1>5. ~(Len(e2) < Len(e1))
  <2> SUFFICES ASSUME Len(e2) < Len(e1) PROVE FALSE
    OBVIOUS
  <2>1. Len(e2) + 1 \in DOMAIN e1 /\ Len(e2) + 1 \in 1 .. Len(e1)
    BY <1>1
  <2>2. k[Len(e2) + 1] = e1[Len(e2) + 1] /\ k[Len(e2) + 1] = Colon
    BY <2>1, <1>2, <1>3
  <2>3. e1[Len(e2) + 1] # Colon
    BY <2>1, NoColonInEndpoint
  <2> QED
    BY <2>2, <2>3
<1>6. Len(e1) = Len(e2) /\ Len(t1) = Len(t2)
  BY <1>1, <1>2, <1>3, <1>4, <1>5
<1>7. e1 = e2
  BY <1>1, <1>2, <1>3, <1>6
<1>8. t1 = t2
  <2>1. \A i \in 1 .. Len(t1) : t1[i] = t2[i]
    BY <1>1, <1>2, <1>3, <1>6
  <2> QED
    BY <1>1, <1>6, <2>1
<1> QED
  BY <1>7, <1>8

\* An element of a sequence.
LEMMA Element ==
  ASSUME NEW S, NEW s \in Seq(S), NEW i \in DOMAIN s
  PROVE  s[i] \in S
OBVIOUS

\* An accepted configuration gives every module a setting or none.
LEMMA NewSettings ==
  ASSUME NEW cfg \in CustomAuth, Accepted(cfg)
  PROVE  NewUserAuthentication(cfg) \in [Module -> Setting \cup {None}]
<1> SUFFICES ASSUME NEW m \in Module, NEW i \in DOMAIN cfg.settings
             PROVE  [providers |-> [j \in DOMAIN cfg.settings[i].providers |->
                                      ProviderNamed(cfg, cfg.settings[i].providers[j])],
                     endpoint |-> cfg.settings[i].endpoint,
                     duration |-> cfg.settings[i].duration] \in Setting
  BY DEF NewUserAuthentication, Configures
<1> DEFINE s == cfg.settings[i]
<1>1. cfg \in CustomAuthType
  BY UserAuthenticationAssumption
<1>2. cfg.providers \in Seq(Provider)
  BY <1>1 DEF CustomAuthType
<1>3. s \in [modules : Seq(Module), providers : Seq(Name), endpoint : Endpoint, duration : Int]
  <2>1. cfg.settings \in Seq([modules : Seq(Module), providers : Seq(Name),
                              endpoint : Endpoint, duration : Int])
    BY <1>1 DEF CustomAuthType
  <2> QED
    BY <2>1, Element, Zenon
<1>4. s.providers \in Seq(Name) /\ s.endpoint \in Endpoint /\ s.duration \in Int
  BY <1>3
<1>5. \A j \in DOMAIN s.providers : ProviderNamed(cfg, s.providers[j]) \in Provider
  <2> TAKE j \in DOMAIN s.providers
  <2>1. \E k \in DOMAIN cfg.providers : cfg.providers[k].name = s.providers[j]
    BY DEF Accepted
  <2> DEFINE k == CHOOSE k \in DOMAIN cfg.providers : cfg.providers[k].name = s.providers[j]
  <2>2. k \in DOMAIN cfg.providers
    BY <2>1
  <2>3. cfg.providers[k] \in Provider
    <3> HIDE DEF k
    <3> QED
      BY <1>2, <2>2, Element, Zenon
  <2> QED
    BY <2>3 DEF ProviderNamed
<1>6. [j \in DOMAIN s.providers |-> ProviderNamed(cfg, s.providers[j])] \in Seq(Provider)
  BY <1>4, <1>5
<1> QED
  BY <1>4, <1>6 DEF Setting

\* What is extracted is a token, or nothing.
LEMMA TokenOrNone ==
  ASSUME NEW c
  PROVE  OwnToken(c) \in Token \cup {None}
BY DEF OwnToken, FirstToken, ExtractToken, HeaderToken, CookieToken, Trimmed

\* A token is found only under a setting of the request's module.
LEMMA OwnSetting ==
  ASSUME TypeOK, NEW c \in Caller, InFlight(c), call[c].in \in Input, OwnToken(c) # None
  PROVE  /\ Own(c) \in Setting
         /\ Own(c).endpoint \in Endpoint /\ Own(c).duration \in Int
         /\ OwnToken(c) \in Token
         /\ OwnKey(c) \in CacheKey
         /\ <<Own(c).endpoint, OwnToken(c)>> \in Endpoint \X Token
<1>1. call[c].gen \in Gen
  BY DEF TypeOK, CallType
<1>2. call[c].in.module \in Module
  BY UserAuthenticationAssumption DEF InputType
<1>3. Own(c) # None
  BY DEF OwnToken
<1>4. Own(c) \in Setting
  BY <1>1, <1>2, <1>3 DEF TypeOK, Own
<1>5. OwnToken(c) \in Token
  BY TokenOrNone
<1>6. Own(c).endpoint \in Endpoint /\ Own(c).duration \in Int
  BY <1>4 DEF Setting
<1> QED
  BY <1>4, <1>5, <1>6 DEF OwnKey, CacheKey

\* A request keeps its setting, token and key while it is under way.
LEMMA OwnFrame ==
  ASSUME NEW c \in Caller, call'[c].gen = call[c].gen, call'[c].in = call[c].in,
         settings'[call[c].gen] = settings[call[c].gen]
  PROVE  Own(c)' = Own(c) /\ OwnToken(c)' = OwnToken(c)
BY DEF Own, OwnToken

\* A configuration only adds to what is permitted.
LEMMA PermittedGrows ==
  ASSUME TypeOK, TypeOK', gen <= gen',
         \A n \in 1 .. gen : settings'[n] = settings[n],
         NEW e, NEW age, Permitted(e, age)
  PROVE  Permitted(e, age)'
<1>1. PICK n \in 1 .. gen, m \in Module :
        /\ settings[n][m] # None
        /\ settings[n][m].endpoint = e
        /\ settings[n][m].duration > 0
        /\ age <= settings[n][m].duration + MaxLatency
  BY DEF Permitted
<1>2. n \in 1 .. gen'
  BY DEF TypeOK, Gen
<1>3. settings'[n] = settings[n]
  OBVIOUS
<1> QED
  BY <1>1, <1>2, <1>3 DEF Permitted

---------------------------------------------------------------------------

\* Nothing is cached and nobody is waiting at first.
LEMMA InitInv == Init => IndInv
<1> SUFFICES ASSUME Init PROVE IndInv
  OBVIOUS
<1>1. gen = 1 /\ 1 \in Gen /\ clock \in 0 .. MaxTime
  BY UserAuthenticationAssumption DEF Init, Gen
<1>2. settings \in [Gen -> [Module -> Setting \cup {None}]]
  BY NewSettings DEF Init
<1>3. Idle \in CallType
  BY <1>1 DEF Idle, CallType
<1>4. TypeOK
  BY <1>1, <1>2, <1>3 DEF Init, TypeOK
<1>5. CallsAreSound
  BY DEF Init, CallsAreSound, CallIsSound, InFlight, Idle
<1>6. ItemsAreSound
  BY DEF Init, ItemsAreSound, ItemIsSound
<1> QED
  BY <1>4, <1>5, <1>6 DEF IndInv

\* A step that changes one call only keeps the others sound.
LEMMA OtherCalls ==
  ASSUME TypeOK, CallsAreSound, NEW c \in Caller, NEW new,
         call' = [call EXCEPT ![c] = new], CallIsSound(c)',
         UNCHANGED <<clock, gen, settings>>
  PROVE  CallsAreSound'
<1> SUFFICES ASSUME NEW d \in Caller, d # c PROVE CallIsSound(d)'
  BY DEF CallsAreSound
<1>1. call'[d] = call[d]
  BY DEF TypeOK
<1>2. Own(d)' = Own(d) /\ OwnToken(d)' = OwnToken(d)
  BY <1>1, OwnFrame
<1>3. CallIsSound(d)
  BY DEF CallsAreSound
<1> QED
  BY <1>1, <1>2, <1>3 DEF CallIsSound, InFlight

\* A step that changes one call and no item keeps the invariant if that call
\* stays sound.
LEMMA OneCall ==
  ASSUME IndInv, NEW c \in Caller, NEW new \in CallType,
         call' = [call EXCEPT ![c] = new], CallIsSound(c)',
         UNCHANGED <<clock, gen, settings, cache>>
  PROVE  IndInv'
<1>1. TypeOK'
  BY DEF IndInv, TypeOK
<1>2. CallsAreSound'
  BY OtherCalls DEF IndInv
<1>3. ItemsAreSound'
  BY DEF IndInv, ItemsAreSound, ItemIsSound, Permitted
<1> QED
  BY <1>1, <1>2, <1>3 DEF IndInv

\* When a request passes or fails, the calls stay sound.
LEMMA EndedCall ==
  ASSUME IndInv, NEW c \in Caller, NEW u \in Answer \cup {None}, Pass(c, u) \/ Fail(c),
         UNCHANGED <<clock, gen, settings>>
  PROVE  call' \in [Caller -> CallType] /\ CallsAreSound'
<1>1. 1 \in Gen
  BY UserAuthenticationAssumption DEF Gen
<1>2. PICK new \in CallType : new.pc \in {"idle", "passed"} /\ call' = [call EXCEPT ![c] = new]
  <2>1. CASE Pass(c, u)
    <3> DEFINE new == [Idle EXCEPT !.pc = "passed", !.user = u]
    <3>1. new \in CallType /\ new.pc = "passed"
      BY <1>1 DEF Idle, CallType
    <3>2. call' = [call EXCEPT ![c] = new]
      BY <2>1 DEF Pass
    <3> HIDE DEF new
    <3> QED
      BY <3>1, <3>2
  <2>2. CASE Fail(c)
    <3>1. Idle \in CallType /\ Idle.pc = "idle"
      BY <1>1 DEF Idle, CallType
    <3> QED
      BY <2>2, <3>1 DEF Fail
  <2> QED
    BY <2>1, <2>2
<1>3. call' \in [Caller -> CallType] /\ call'[c] = new
  BY <1>2 DEF IndInv, TypeOK
<1>4. CallIsSound(c)'
  BY <1>2, <1>3 DEF CallIsSound, InFlight
<1>5. CallsAreSound'
  BY <1>2, <1>4, OtherCalls DEF IndInv
<1> QED
  BY <1>3, <1>5

\* Cached data is about the endpoint and token it is looked up with.
LEMMA HitIsOwn ==
  ASSUME IndInv, NEW c \in Caller, InFlight(c), OwnToken(c) # None, Live(cache[OwnKey(c)])
  PROVE  LET i == cache[OwnKey(c)]
         IN  /\ i.data \in Answer
             /\ i.data.for = <<Own(c).endpoint, OwnToken(c)>>
             /\ i.data.at <= clock /\ clock <= i.expiredAt
             /\ i.expiredAt \in Int /\ i.data.at \in Nat
             /\ Permitted(Own(c).endpoint, i.expiredAt - i.data.at)
<1> DEFINE i == cache[OwnKey(c)]
<1>1. call[c].in \in Input
  BY DEF IndInv, CallsAreSound, CallIsSound
<1>2. /\ OwnKey(c) \in CacheKey /\ Own(c).endpoint \in Endpoint /\ OwnToken(c) \in Token
  BY <1>1, OwnSetting DEF IndInv
<1>3. i \in Item
  BY <1>2 DEF IndInv, TypeOK, Live
<1>4. i.data \in Answer /\ i.expiredAt \in Int
  BY <1>3 DEF Item
<1>5. i.data.for \in Endpoint \X Token /\ i.data.at \in Nat
  BY <1>4 DEF Answer
<1>6. /\ OwnKey(c) = Key(i.data.for[1], i.data.for[2])
      /\ i.data.at <= clock
      /\ Permitted(i.data.for[1], i.expiredAt - i.data.at)
  BY <1>2 DEF IndInv, ItemsAreSound, ItemIsSound, Live
<1>7. i.data.for[1] = Own(c).endpoint /\ i.data.for[2] = OwnToken(c)
  <2>1. i.data.for[1] \in Endpoint /\ i.data.for[2] \in Token
    BY <1>5
  <2>2. Key(Own(c).endpoint, OwnToken(c)) = Key(i.data.for[1], i.data.for[2])
    BY <1>6 DEF OwnKey
  <2> HIDE DEF i
  <2> QED
    BY <1>2, <2>1, <2>2, KeyInjective
<1>8. i.data.for = <<Own(c).endpoint, OwnToken(c)>>
  BY <1>5, <1>7
<1> QED
  BY <1>4, <1>5, <1>6, <1>7, <1>8 DEF Live
---------------------------------------------------------------------------

\* A request joins with the settings of the handler in force.
LEMMA ArriveInv ==
  ASSUME IndInv, NEW c \in Caller, NEW in \in Input, Arrive(c, in)
  PROVE  IndInv'
<1> DEFINE new == [Idle EXCEPT !.pc = "arrived", !.gen = gen, !.in = in]
<1>1. new \in CallType /\ new.pc = "arrived" /\ new.gen = gen /\ new.in = in
  BY DEF IndInv, TypeOK, Idle, CallType
<1>2. call' = [call EXCEPT ![c] = new] /\ UNCHANGED <<clock, gen, settings, cache>>
  BY DEF Arrive
<1> HIDE DEF new
<1>3. call'[c] = new
  BY <1>2 DEF IndInv, TypeOK
<1>4. gen <= gen
  BY DEF IndInv, TypeOK, Gen
<1>5. CallIsSound(c)'
  BY <1>1, <1>2, <1>3, <1>4 DEF CallIsSound, InFlight
<1> QED
  BY <1>1, <1>2, <1>5, OneCall

\* Changing only the place of a call keeps its setting and token.
LEMMA StartCall ==
  ASSUME IndInv, NEW c \in Caller, call[c].pc = "arrived", OwnToken(c) # None,
         call' = [call EXCEPT ![c].pc = "calling"], UNCHANGED <<clock, gen, settings, cache>>
  PROVE  IndInv'
<1> DEFINE new == [call[c] EXCEPT !.pc = "calling"]
<1>1. call[c] \in CallType
  BY DEF IndInv, TypeOK
<1>2. new \in CallType /\ new.pc = "calling" /\ new.gen = call[c].gen /\ new.in = call[c].in
  BY <1>1 DEF CallType
<1>3. call' = [call EXCEPT ![c] = new]
  OBVIOUS
<1> HIDE DEF new
<1>4. call'[c] = new
  BY <1>3 DEF IndInv, TypeOK
<1>5. OwnToken(c)' = OwnToken(c)
  BY <1>2, <1>4, OwnFrame
<1>6. OwnToken(c) \in Token
  BY TokenOrNone
<1>7. call[c].gen <= gen /\ call[c].in \in Input
  BY DEF IndInv, CallsAreSound, CallIsSound, InFlight
<1>8. CallIsSound(c)'
  BY <1>2, <1>4, <1>5, <1>6, <1>7 DEF CallIsSound, InFlight
<1> QED
  BY <1>2, <1>3, <1>8, OneCall

\* A hit passes with the data of a sound item, a miss starts a call.
LEMMA AuthenticateInv ==
  ASSUME IndInv, NEW c \in Caller, Authenticate(c)
  PROVE  IndInv'
<1> USE DEF Authenticate
<1>1. call[c].pc = "arrived" /\ InFlight(c)
  BY DEF InFlight
<1>2. UNCHANGED <<clock, gen, settings, cache>>
  OBVIOUS
<1>3. ASSUME call' \in [Caller -> CallType], CallsAreSound' PROVE IndInv'
  BY <1>2, <1>3 DEF IndInv, TypeOK, ItemsAreSound, ItemIsSound, Permitted
<1>4. CASE OwnToken(c) = None
  <2>1. Fail(c)
    BY <1>4
  <2> QED
    BY <1>2, <1>3, <2>1, EndedCall
<1>5. CASE OwnToken(c) # None /\ Cached(c) /\ Live(cache[OwnKey(c)])
  <2>1. Pass(c, cache[OwnKey(c)].data)
    BY <1>5
  <2>2. cache[OwnKey(c)].data \in Answer
    BY <1>1, <1>5, HitIsOwn
  <2> QED
    BY <1>2, <1>3, <2>1, <2>2, EndedCall
<1>6. CASE OwnToken(c) # None /\ ~(Cached(c) /\ Live(cache[OwnKey(c)]))
  BY <1>1, <1>2, <1>6, StartCall
<1> QED
  BY <1>4, <1>5, <1>6

\* The endpoint's answer is about what it was asked, and fresh.
LEMMA DecideInv ==
  ASSUME IndInv, NEW c \in Caller, Decide(c)
  PROVE  IndInv'
<1> DEFINE a == [for |-> <<Own(c).endpoint, OwnToken(c)>>, at |-> clock]
           new == [call[c] EXCEPT !.pc = "replied", !.reply = a]
<1>1. /\ call[c] \in CallType /\ call[c].pc = "calling" /\ InFlight(c)
      /\ call[c].gen <= gen /\ call[c].in \in Input /\ OwnToken(c) \in Token
  BY DEF Decide, IndInv, TypeOK, CallsAreSound, CallIsSound, InFlight
<1>2. OwnToken(c) # None
  BY <1>1, UserAuthenticationAssumption
<1>3. <<Own(c).endpoint, OwnToken(c)>> \in Endpoint \X Token
  BY <1>1, <1>2, OwnSetting DEF IndInv
<1>4. clock \in Nat
  BY UserAuthenticationAssumption DEF IndInv, TypeOK
<1>5. a \in Answer /\ a.for = <<Own(c).endpoint, OwnToken(c)>> /\ a.at = clock
  BY <1>3, <1>4 DEF Answer
<1>6. call' = [call EXCEPT ![c] = new] /\ UNCHANGED <<clock, gen, settings, cache>>
  BY DEF Decide
<1> HIDE DEF a
<1>7. new \in CallType /\ new.pc = "replied" /\ new.reply = a /\ new.gen = call[c].gen
      /\ new.in = call[c].in
  BY <1>1, <1>5 DEF CallType
<1> HIDE DEF new
<1>8. call'[c] = new
  BY <1>6 DEF IndInv, TypeOK
<1>9. Own(c)' = Own(c) /\ OwnToken(c)' = OwnToken(c)
  BY <1>6, <1>7, <1>8, OwnFrame
<1>10. clock <= clock /\ clock <= clock + MaxLatency
  BY <1>4, UserAuthenticationAssumption
<1>11. CallIsSound(c)'
  BY <1>1, <1>5, <1>6, <1>7, <1>8, <1>9, <1>10 DEF CallIsSound, InFlight
<1> QED
  BY <1>6, <1>7, <1>11, OneCall

\* What is stored lives as long as the caller's own setting allows.
LEMMA ReceiveGrantedInv ==
  ASSUME IndInv, NEW c \in Caller, ReceiveGranted(c)
  PROVE  IndInv'
<1> DEFINE a == call[c].reply
           item == [data |-> a, expiredAt |-> clock + Own(c).duration]
<1>1. /\ call[c].pc = "replied" /\ InFlight(c) /\ call[c].gen \in 1 .. gen
      /\ call[c].in \in Input /\ OwnToken(c) \in Token
      /\ a \in Answer /\ a.for = <<Own(c).endpoint, OwnToken(c)>>
      /\ a.at <= clock /\ clock <= a.at + MaxLatency
  BY DEF ReceiveGranted, IndInv, TypeOK, CallType, Gen, CallsAreSound, CallIsSound, InFlight
<1>2. OwnToken(c) # None
  BY <1>1, UserAuthenticationAssumption
<1>3. /\ Own(c) \in Setting /\ Own(c).endpoint \in Endpoint /\ Own(c).duration \in Int
      /\ OwnKey(c) \in CacheKey
  BY <1>1, <1>2, OwnSetting DEF IndInv
<1>4. clock \in Int /\ a.at \in Int /\ MaxLatency \in Int
  BY <1>1, UserAuthenticationAssumption DEF IndInv, TypeOK, Answer
<1>5. item \in Item /\ item.data = a /\ item.expiredAt = clock + Own(c).duration
  BY <1>1, <1>3, <1>4 DEF Item
<1>6. Pass(c, a) /\ UNCHANGED <<clock, gen, settings>>
  BY DEF ReceiveGranted
<1> HIDE DEF a, item
<1>7. call' \in [Caller -> CallType] /\ CallsAreSound'
  BY <1>1, <1>6, EndedCall
<1>8. \A e, age : Permitted(e, age)' <=> Permitted(e, age)
  BY <1>6 DEF Permitted
<1>9. CASE Cached(c)
  <2>1. cache' = [cache EXCEPT ![OwnKey(c)] = item]
    BY <1>9 DEF ReceiveGranted, Remember, item, a
  <2>2. TypeOK'
    BY <1>5, <1>6, <1>7, <2>1 DEF IndInv, TypeOK
  <2>3. item.expiredAt - a.at <= Own(c).duration + MaxLatency
    BY <1>1, <1>3, <1>4, <1>5
  <2>4. call[c].in.module \in Module
    BY <1>1, UserAuthenticationAssumption DEF InputType
  <2>5. Own(c) # None
    BY <1>3, UserAuthenticationAssumption
  <2>6. Permitted(Own(c).endpoint, item.expiredAt - a.at)
    BY <1>1, <1>9, <2>3, <2>4, <2>5 DEF Permitted, Own, Cached
  <2>7. a.for[1] = Own(c).endpoint /\ a.for[2] = OwnToken(c)
    BY <1>1
  <2>8. ASSUME NEW k \in CacheKey PROVE ItemIsSound(k)'
    <3>1. CASE k = OwnKey(c)
      <4>1. cache'[k] = item
        BY <2>1, <3>1, <1>3 DEF IndInv, TypeOK
      <4>2. k = Key(a.for[1], a.for[2])
        BY <2>7, <3>1 DEF OwnKey
      <4> QED
        BY <1>1, <1>5, <1>6, <1>8, <2>6, <2>7, <4>1, <4>2 DEF ItemIsSound
    <3>2. CASE k # OwnKey(c)
      <4>1. cache'[k] = cache[k]
        BY <2>1, <3>2 DEF IndInv, TypeOK
      <4>2. ItemIsSound(k)
        BY DEF IndInv, ItemsAreSound
      <4> QED
        BY <1>6, <1>8, <4>1, <4>2 DEF ItemIsSound
    <3> QED
      BY <3>1, <3>2
  <2> QED
    BY <1>7, <2>2, <2>8 DEF IndInv, ItemsAreSound
<1>10. CASE ~Cached(c)
  <2>1. cache' = cache
    BY <1>10 DEF ReceiveGranted
  <2> QED
    BY <1>6, <1>7, <2>1 DEF IndInv, TypeOK, ItemsAreSound, ItemIsSound, Permitted
<1> QED
  BY <1>9, <1>10

\* Removing an item disturbs nothing.
LEMMA PurgeInv ==
  ASSUME IndInv, NEW k \in CacheKey, Purge(k)
  PROVE  IndInv'
<1>1. cache' = [cache EXCEPT ![k] = None] /\ UNCHANGED <<clock, gen, settings, call>>
  BY DEF Purge
<1>2. TypeOK'
  BY <1>1 DEF IndInv, TypeOK
<1>3. CallsAreSound'
  BY <1>1 DEF IndInv, CallsAreSound, CallIsSound, InFlight, Own, OwnToken
<1>4. ASSUME NEW q \in CacheKey PROVE ItemIsSound(q)'
  <2>1. cache'[q] \in {cache[q], None}
    BY <1>1 DEF IndInv, TypeOK
  <2>2. ItemIsSound(q)
    BY DEF IndInv, ItemsAreSound
  <2> QED
    BY <1>1, <2>1, <2>2 DEF ItemIsSound, Permitted
<1> QED
  BY <1>2, <1>3, <1>4 DEF IndInv, ItemsAreSound

\* A new configuration leaves the settings of calls under way alone.
LEMMA ReceiveConfigInv ==
  ASSUME IndInv, NEW cfg \in CustomAuth, ReceiveConfig(cfg)
  PROVE  IndInv'
<1>1. /\ gen' = gen + 1 /\ gen \in Nat /\ gen < MaxGen
      /\ settings' = [settings EXCEPT ![gen + 1] = NewUserAuthentication(cfg)]
      /\ UNCHANGED <<clock, cache, call>>
  BY DEF ReceiveConfig, IndInv, TypeOK, Gen
<1>2. gen + 1 \in Gen
  BY <1>1, UserAuthenticationAssumption DEF IndInv, TypeOK, Gen
<1>3. NewUserAuthentication(cfg) \in [Module -> Setting \cup {None}]
  BY NewSettings DEF ReceiveConfig
<1>4. TypeOK'
  BY <1>1, <1>2, <1>3 DEF IndInv, TypeOK
<1>5. \A n \in 1 .. gen : settings'[n] = settings[n]
  BY <1>1, <1>2 DEF IndInv, TypeOK, Gen
<1>6. ASSUME NEW c \in Caller PROVE CallIsSound(c)'
  <2>1. CallIsSound(c)
    BY DEF IndInv, CallsAreSound
  <2>2. CASE ~InFlight(c)
    BY <1>1, <2>2 DEF CallIsSound, InFlight
  <2>3. CASE InFlight(c)
    <3>1. call[c].gen \in 1 .. gen /\ call[c].gen <= gen'
      BY <1>1, <2>1, <2>3 DEF CallIsSound, IndInv, TypeOK, CallType, Gen
    <3>2. Own(c)' = Own(c) /\ OwnToken(c)' = OwnToken(c)
      BY <1>1, <1>5, <3>1, OwnFrame
    <3> QED
      BY <1>1, <2>1, <2>3, <3>1, <3>2 DEF CallIsSound, InFlight
  <2> QED
    BY <2>2, <2>3
<1>7. ASSUME NEW k \in CacheKey PROVE ItemIsSound(k)'
  <2>1. ItemIsSound(k)
    BY DEF IndInv, ItemsAreSound
  <2>2. gen <= gen'
    BY <1>1
  <2> QED
    BY <1>1, <1>4, <1>5, <2>1, <2>2, PermittedGrows DEF ItemIsSound, IndInv
<1> QED
  BY <1>4, <1>6, <1>7 DEF IndInv, CallsAreSound, ItemsAreSound

\* Replies under way hold time back until they are used.
LEMMA ElapseInv ==
  ASSUME IndInv, Elapse
  PROVE  IndInv'
<1>1. clock < MaxTime /\ clock' = clock + 1 /\ UNCHANGED <<gen, settings, cache, call>>
  BY DEF Elapse
<1>2. clock \in Int /\ MaxLatency \in Int /\ MaxTime \in Int
  BY UserAuthenticationAssumption DEF IndInv, TypeOK
<1>3. TypeOK'
  BY <1>1, <1>2 DEF IndInv, TypeOK
<1>4. ASSUME NEW c \in Caller PROVE CallIsSound(c)'
  <2>1. CallIsSound(c)
    BY DEF IndInv, CallsAreSound
  <2>2. Own(c)' = Own(c) /\ OwnToken(c)' = OwnToken(c)
    BY <1>1, OwnFrame
  <2>3. ASSUME call[c].pc = "replied"
        PROVE  call[c].reply.at <= clock' /\ clock' <= call[c].reply.at + MaxLatency
    <3>1. call[c].reply \in Answer /\ call[c].reply.at <= clock
      BY <2>1, <2>3 DEF CallIsSound
    <3>2. call[c].reply.at \in Int
      BY <3>1 DEF Answer
    <3>3. clock < call[c].reply.at + MaxLatency
      BY <2>3 DEF Elapse
    <3> QED
      BY <1>1, <1>2, <3>1, <3>2, <3>3
  <2> QED
    BY <1>1, <2>1, <2>2, <2>3 DEF CallIsSound, InFlight
<1>5. ASSUME NEW k \in CacheKey PROVE ItemIsSound(k)'
  <2>1. ItemIsSound(k)
    BY DEF IndInv, ItemsAreSound
  <2>2. CASE cache[k] = None
    BY <1>1, <2>2 DEF ItemIsSound
  <2>3. CASE cache[k] # None
    <3>1. cache[k] \in Item
      BY <2>3 DEF IndInv, TypeOK
    <3>2. cache[k].data \in Answer
      BY <3>1 DEF Item
    <3>3. cache[k].data.at \in Int
      BY <3>2 DEF Answer
    <3>4. cache[k].data.at <= clock'
      BY <1>1, <1>2, <2>1, <2>3, <3>3 DEF ItemIsSound
    <3> QED
      BY <1>1, <2>1, <2>3, <3>4 DEF ItemIsSound, Permitted
  <2> QED
    BY <2>2, <2>3
<1> QED
  BY <1>3, <1>4, <1>5 DEF IndInv, CallsAreSound, ItemsAreSound

\* Every step of a request, of the cleaner, of a reload and of time.
LEMMA StepInv == IndInv /\ [Next]_vars => IndInv'
<1> SUFFICES ASSUME IndInv, [Next]_vars PROVE IndInv'
  OBVIOUS
<1>1. ASSUME NEW c \in Caller, ReceiveOther(c) PROVE IndInv'
  <2>1. Fail(c) /\ UNCHANGED <<clock, gen, settings, cache>>
    BY <1>1 DEF ReceiveOther
  <2>2. call' \in [Caller -> CallType] /\ CallsAreSound'
    BY <2>1, EndedCall
  <2> QED
    BY <2>1, <2>2 DEF IndInv, TypeOK, ItemsAreSound, ItemIsSound, Permitted
<1>2. CASE UNCHANGED vars
  BY <1>2 DEF vars, IndInv, TypeOK, CallsAreSound, CallIsSound, InFlight, Own, OwnToken,
              ItemsAreSound, ItemIsSound, Permitted
<1> QED
  BY <1>1, <1>2, ArriveInv, AuthenticateInv, DecideInv, ReceiveGrantedInv, PurgeInv,
     ReceiveConfigInv, ElapseInv DEF Next

\* Calls ask about their own token and items are about the token of their key
\* and no older than some configuration allows, in every reachable state.
THEOREM UserInvariant == Spec => []IndInv
<1> QED
  BY InitInv, StepInv, PTL DEF Spec

\* The two ways to pass: with a sound item, or with the caller's own reply.
LEMMA PassStep ==
  ASSUME IndInv, [Next]_vars, NEW c \in Caller, Passes(c)
  PROVE  \/ /\ InFlight(c) /\ OwnToken(c) # None /\ Cached(c) /\ Live(cache[OwnKey(c)])
            /\ call'[c].user = cache[OwnKey(c)].data
         \/ call[c].pc = "replied" /\ call'[c].user = call[c].reply
<1> USE DEF Passes
<1>0. call \in [Caller -> CallType]
  BY DEF IndInv, TypeOK
<1>1. ASSUME NEW d \in Caller, NEW u, Pass(d, u) PROVE d = c /\ call'[c].user = u
  BY <1>0, <1>1 DEF Pass, Idle
<1>2. ASSUME NEW d \in Caller, Fail(d) PROVE FALSE
  BY <1>0, <1>2 DEF Fail, Idle
<1>3. ASSUME NEW d \in Caller, NEW in \in Input, Arrive(d, in) PROVE FALSE
  BY <1>0, <1>3 DEF Arrive, Idle
<1>4. ASSUME NEW d \in Caller, Authenticate(d)
      PROVE  /\ InFlight(c) /\ OwnToken(c) # None /\ Cached(c) /\ Live(cache[OwnKey(c)])
             /\ call'[c].user = cache[OwnKey(c)].data
  <2>1. CASE Fail(d)
    BY <1>2, <2>1
  <2>2. CASE call' = [call EXCEPT ![d].pc = "calling"]
    BY <1>0, <2>2 DEF CallType
  <2>3. CASE /\ OwnToken(d) # None /\ Cached(d) /\ Live(cache[OwnKey(d)])
             /\ Pass(d, cache[OwnKey(d)].data)
    <3>1. d = c /\ call'[c].user = cache[OwnKey(d)].data
      BY <1>1, <2>3
    <3> QED
      BY <1>4, <2>3, <3>1 DEF Authenticate, InFlight
  <2> QED
    BY <1>4, <2>1, <2>2, <2>3 DEF Authenticate
<1>5. ASSUME NEW d \in Caller, Decide(d) PROVE FALSE
  BY <1>0, <1>5 DEF Decide, CallType
<1>6. ASSUME NEW d \in Caller, ReceiveOther(d) PROVE FALSE
  BY <1>2, <1>6 DEF ReceiveOther
<1>7. ASSUME NEW d \in Caller, ReceiveGranted(d)
      PROVE  call[c].pc = "replied" /\ call'[c].user = call[c].reply
  BY <1>1, <1>7 DEF ReceiveGranted
<1>8. ASSUME NEW k \in CacheKey, Purge(k) PROVE FALSE
  BY <1>8 DEF Purge
<1>9. ASSUME NEW cfg \in CustomAuth, ReceiveConfig(cfg) PROVE FALSE
  BY <1>9 DEF ReceiveConfig
<1>10. CASE Elapse
  BY <1>10 DEF Elapse
<1>11. CASE UNCHANGED vars
  BY <1>11 DEF vars
<1> QED
  BY <1>3, <1>4, <1>5, <1>6, <1>7, <1>8, <1>9, <1>10, <1>11 DEF Next

\* Sharing the cache among modules and configurations never gives a request
\* the data of another token or of another endpoint.
THEOREM OwnUser == Spec => UserIsTheCallers
<1>1. ASSUME IndInv, [Next]_vars
      PROVE  [\A c \in Caller :
                Passes(c) => call'[c].user.for = <<Own(c).endpoint, OwnToken(c)>>]_vars
  <2> SUFFICES ASSUME NEW c \in Caller, Passes(c)
               PROVE  call'[c].user.for = <<Own(c).endpoint, OwnToken(c)>>
    OBVIOUS
  <2>1. CASE call[c].pc = "replied" /\ call'[c].user = call[c].reply
    BY <1>1, <2>1 DEF IndInv, CallsAreSound, CallIsSound
  <2>2. CASE /\ InFlight(c) /\ OwnToken(c) # None /\ Cached(c) /\ Live(cache[OwnKey(c)])
             /\ call'[c].user = cache[OwnKey(c)].data
    BY <1>1, <2>2, HitIsOwn
  <2> QED
    BY <1>1, <2>1, <2>2, PassStep
<1> QED
  BY <1>1, UserInvariant, PTL DEF Spec, UserIsTheCallers

\* The age of the data a user passes with stays within one latency, or within
\* what some configuration received so far allows for the endpoint.
THEOREM Staleness == Spec => UserStaleness
<1>1. ASSUME IndInv, [Next]_vars
      PROVE  [\A c \in Caller : Passes(c) =>
                 \/ Age(c) <= MaxLatency
                 \/ Cached(c) /\ Permitted(Own(c).endpoint, Age(c))]_vars
  <2> SUFFICES ASSUME NEW c \in Caller, Passes(c)
               PROVE  \/ Age(c) <= MaxLatency
                      \/ Cached(c) /\ Permitted(Own(c).endpoint, Age(c))
    OBVIOUS
  <2>0. clock \in Int /\ MaxLatency \in Int
    BY <1>1, UserAuthenticationAssumption DEF IndInv, TypeOK
  <2>1. CASE call[c].pc = "replied" /\ call'[c].user = call[c].reply
    <3>1. call[c].reply \in Answer /\ clock <= call[c].reply.at + MaxLatency
      BY <1>1, <2>1 DEF IndInv, CallsAreSound, CallIsSound
    <3>2. call[c].reply.at \in Int
      BY <3>1 DEF Answer
    <3> QED
      BY <2>0, <2>1, <3>1, <3>2 DEF Age
  <2>2. CASE /\ InFlight(c) /\ OwnToken(c) # None /\ Cached(c) /\ Live(cache[OwnKey(c)])
             /\ call'[c].user = cache[OwnKey(c)].data
    <3> DEFINE i == cache[OwnKey(c)]
    <3>1. /\ i.expiredAt \in Int /\ i.data.at \in Int /\ clock <= i.expiredAt
          /\ Permitted(Own(c).endpoint, i.expiredAt - i.data.at)
      BY <1>1, <2>2, HitIsOwn
    <3>2. Age(c) = clock - i.data.at
      BY <2>2 DEF Age
    <3> HIDE DEF i
    <3>3. Age(c) <= i.expiredAt - i.data.at /\ Age(c) \in Int
      BY <2>0, <3>1, <3>2
    <3>4. PICK n \in 1 .. gen, m \in Module :
            /\ settings[n][m] # None
            /\ settings[n][m].endpoint = Own(c).endpoint
            /\ settings[n][m].duration > 0
            /\ i.expiredAt - i.data.at <= settings[n][m].duration + MaxLatency
      BY <3>1 DEF Permitted
    <3>5. settings[n][m].duration \in Int
      <4>1. n \in Gen
        BY <1>1, UserAuthenticationAssumption DEF IndInv, TypeOK, Gen
      <4>2. settings[n][m] \in Setting
        BY <1>1, <3>4, <4>1 DEF IndInv, TypeOK
      <4> QED
        BY <4>2 DEF Setting
    <3>6. Age(c) <= settings[n][m].duration + MaxLatency
      BY <2>0, <3>1, <3>3, <3>4, <3>5
    <3> QED
      BY <2>2, <3>4, <3>6 DEF Permitted
  <2> QED
    BY <1>1, <2>1, <2>2, PassStep
<1> QED
  BY <1>1, UserInvariant, PTL DEF Spec, UserStaleness

\* The cache gains an entry only in a step that lets a request pass.
THEOREM GrantsOnly == Spec => OnlyGrantsAreCached
<1>1. ASSUME IndInv, [Next]_vars
      PROVE  [\A k \in CacheKey :
                cache'[k] \notin {cache[k], None} => \E c \in Caller : Passes(c)]_vars
  <2> SUFFICES ASSUME NEW k \in CacheKey, cache'[k] \notin {cache[k], None}
               PROVE  \E c \in Caller : Passes(c)
    OBVIOUS
  <2>1. ASSUME NEW q \in CacheKey, Purge(q) PROVE FALSE
    BY <1>1, <2>1 DEF Purge, IndInv, TypeOK
  <2>2. ASSUME NEW c \in Caller, ReceiveGranted(c) PROVE Passes(c)
    BY <1>1, <2>2 DEF ReceiveGranted, Pass, Idle, Passes, IndInv, TypeOK
  <2> QED
    BY <1>1, <2>1, <2>2 DEF Next, vars, Arrive, Authenticate, Decide, ReceiveOther,
                            ReceiveConfig, Elapse
<1> QED
  BY <1>1, UserInvariant, PTL DEF Spec, OnlyGrantsAreCached
=============================================================================
