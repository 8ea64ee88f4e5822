------------------------ MODULE UserAuthentication ------------------------
(***************************************************************************)
(* service.UserAuthentication behind middleware.UserAuthenticate: the      *)
(* settings a configuration is turned into, the search of a token, and the *)
(* read-through cache of users.  Unlike every other cache of the gateway   *)
(* this one is made once, by assembly.New: it is shared by the handlers of *)
(* all configurations (GENERATIONS) and by all modules that authenticate   *)
(* at the same endpoint, whatever durations they are configured with.      *)
(*                                                                         *)
(* The authentication endpoint is external and answers anything.  Ghost    *)
(* state: the data it sends says whom it is about and when it was decided, *)
(* and stays with the copies of it.                                        *)
(***************************************************************************)
EXTENDS Integers, Sequences

CONSTANTS
  Caller,      \* requests being served
  Module,      \* modules of endpoints that require a user
  Char, Colon, \* of what endpoints and tokens are made; ':' is one of them
  Endpoint,    \* authentication endpoints
  Token,       \* user tokens
  Field,       \* names of headers and cookies
  Name,        \* names of token providers
  CustomAuth,  \* conf.CustomAuth values received, see CustomAuthType
  Input,       \* requests, see InputType
  None,        \* nothing there
  Blank, Malformed, \* values that are not tokens, see Value
  MaxLatency,  \* longest time from the endpoint's decision to its use here
  MaxTime,     \* bound on the clock
  MaxGen       \* bound on the configurations accepted

Gen == 1 .. MaxGen
Provider == [name : Name, type : {"HEADER", "COOKIE"},
             field : Field \cup {None}]            \* None: no HeaderProvider, CookieProvider
CustomAuthType ==
  [providers : Seq(Provider),
   settings : Seq([modules : Seq(Module), providers : Seq(Name), endpoint : Endpoint,
                   duration : Int])]
Setting == [providers : Seq(Provider), endpoint : Endpoint, duration : Int]

\* What a client sends under a field: nothing, only blanks, a token, or (in a
\* cookie) a value that net/http does not parse.
Value == Token \cup {None, Blank, Malformed}
InputType == [module : Module, header : [Field -> Value], cookie : [Field -> Value]]

Answer == [for : Endpoint \X Token, at : Nat]
Item == [data : Answer, expiredAt : Int]

ASSUME UserAuthenticationAssumption ==
  /\ MaxLatency \in Nat /\ MaxTime \in Nat /\ MaxGen \in Nat \ {0}
  /\ Endpoint \subseteq Seq(Char) /\ Token \subseteq Seq(Char) /\ Colon \in Char
  /\ CustomAuth \subseteq CustomAuthType
  /\ Input \subseteq InputType
  /\ Token \cap {None, Blank, Malformed} = {}
  /\ None \notin Setting /\ None \notin Item /\ None \notin Answer
  /\ None \notin Field /\ None \notin Input

\* Nothing checks this: an endpoint of the configuration has no ':' in it.
ASSUME NoColonInEndpoint == \A e \in Endpoint : \A i \in DOMAIN e : e[i] # Colon

VARIABLES
  clock,
  gen,         \* generation of the handler new requests get
  settings,    \* settings[n][m]: settingsByModuleName of generation n
  cache,       \* usersAuthCache: the item of a key, or None
  call         \* call[c]: the request of c and how far it is

vars == <<clock, gen, settings, cache, call>>

---------------------------------------------------------------------------
(* NewUserAuthentication.                                                  *)

\* Every module occurs once, in one setting.
ModulesUnique(cfg) ==
  \A i, k \in DOMAIN cfg.settings :
    \A j \in DOMAIN cfg.settings[i].modules, l \in DOMAIN cfg.settings[k].modules :
      cfg.settings[i].modules[j] = cfg.settings[k].modules[l] => i = k /\ j = l

\* tokenProviderFromConfig finds the part of the configuration its type needs.
Complete(p) == p.field # None

\* Otherwise Locator.Handler fails, and the handler in force stays.
Accepted(cfg) ==
  /\ \A i, j \in DOMAIN cfg.providers :
       cfg.providers[i].name = cfg.providers[j].name => i = j
  /\ \A i \in DOMAIN cfg.providers : Complete(cfg.providers[i])
  /\ \A i \in DOMAIN cfg.settings : \A j \in DOMAIN cfg.settings[i].providers :
       \E k \in DOMAIN cfg.providers : cfg.providers[k].name = cfg.settings[i].providers[j]
  /\ ModulesUnique(cfg)

ProviderNamed(cfg, name) ==
  cfg.providers[CHOOSE k \in DOMAIN cfg.providers : cfg.providers[k].name = name]

Configures(cfg, i, m) == \E j \in DOMAIN cfg.settings[i].modules : cfg.settings[i].modules[j] = m

NewUserAuthentication(cfg) ==
  [m \in Module |->
     IF \E i \in DOMAIN cfg.settings : Configures(cfg, i, m)
     THEN LET s == cfg.settings[CHOOSE i \in DOMAIN cfg.settings : Configures(cfg, i, m)]
          IN  [providers |-> [j \in DOMAIN s.providers |-> ProviderNamed(cfg, s.providers[j])],
               endpoint |-> s.endpoint, duration |-> s.duration]
     ELSE None]

---------------------------------------------------------------------------
(* extractToken.  net/http drops a cookie it cannot parse, so neither      *)
(* provider returns an error and Validate changes nothing: a field yields  *)
(* its trimmed value or nothing.                                           *)

Trimmed(value) == IF value \in Token THEN value ELSE None
HeaderToken(p, in) == Trimmed(in.header[p.field])
CookieToken(p, in) == Trimmed(in.cookie[p.field])
ExtractToken(p, in) == IF p.type = "HEADER" THEN HeaderToken(p, in) ELSE CookieToken(p, in)

\* The loop over the setting's providers ends at the first token.
FirstToken(providers, in) ==
  IF \E i \in DOMAIN providers : ExtractToken(providers[i], in) # None
  THEN LET i == CHOOSE i \in DOMAIN providers :
                  /\ ExtractToken(providers[i], in) # None
                  /\ \A j \in DOMAIN providers :
                       j < i => ExtractToken(providers[j], in) = None
       IN  ExtractToken(providers[i], in)
  ELSE None

\* Wrong variant: the parts of a key are not separated.
KeyJoined(endpoint, token) == endpoint \o token
Key(endpoint, token) == endpoint \o <<Colon>> \o token
CacheKey == {Key(e, t) : e \in Endpoint, t \in Token}

---------------------------------------------------------------------------
(* The request.                                                            *)

Idle == [pc |-> "idle", gen |-> 1, in |-> None, reply |-> None, user |-> None]

Init ==
  /\ clock = 0
  /\ gen = 1
  /\ \E cfg \in CustomAuth :
       Accepted(cfg) /\ settings = [n \in Gen |-> NewUserAuthentication(cfg)]
  /\ cache = [k \in CacheKey |-> None]
  /\ call = [c \in Caller |-> Idle]

Own(c) == settings[call[c].gen][call[c].in.module]
OwnToken(c) ==
  IF Own(c) = None THEN None ELSE FirstToken(Own(c).providers, call[c].in)
OwnKey(c) == Key(Own(c).endpoint, OwnToken(c))
Cached(c) == Own(c).duration > 0
Live(i) == i # None /\ clock <= i.expiredAt

InFlight(c) == call[c].pc \in {"arrived", "calling", "replied"}

\* The request goes on to the next middleware with the data of user, or ends
\* here (with 401 or as an error: Gate tells these apart).
Pass(c, user) == call' = [call EXCEPT ![c] = [Idle EXCEPT !.pc = "passed", !.user = user]]
Fail(c) == call' = [call EXCEPT ![c] = Idle]

Arrive(c, in) ==
  /\ ~InFlight(c)
  /\ call' = [call EXCEPT ![c] = [Idle EXCEPT !.pc = "arrived", !.gen = gen, !.in = in]]
  /\ UNCHANGED <<clock, gen, settings, cache>>

\* Wrong variant: the cache is asked even when it is switched off.
AuthenticateAlwaysLooks(c) ==
  /\ call[c].pc = "arrived"
  /\ \/ /\ OwnToken(c) = None
        /\ Fail(c)
     \/ /\ OwnToken(c) # None /\ Live(cache[OwnKey(c)])
        /\ Pass(c, cache[OwnKey(c)].data)
     \/ /\ OwnToken(c) # None /\ ~Live(cache[OwnKey(c)])
        /\ call' = [call EXCEPT ![c].pc = "calling"]
  /\ UNCHANGED <<clock, gen, settings, cache>>

\* Authenticate up to the call: no setting is an error, no token a 401, and a
\* hit passes at once.  A setting without caching does not look.
Authenticate(c) ==
  /\ call[c].pc = "arrived"
  /\ \/ /\ OwnToken(c) = None
        /\ Fail(c)
     \/ /\ OwnToken(c) # None
        /\ Cached(c) /\ Live(cache[OwnKey(c)])
        /\ Pass(c, cache[OwnKey(c)].data)
     \/ /\ OwnToken(c) # None
        /\ ~(Cached(c) /\ Live(cache[OwnKey(c)]))
        /\ call' = [call EXCEPT ![c].pc = "calling"]
  /\ UNCHANGED <<clock, gen, settings, cache>>

\* The endpoint recognises the user and sends the data along (external).
Decide(c) ==
  /\ call[c].pc = "calling"
  /\ call' = [call EXCEPT ![c].pc = "replied",
                          ![c].reply = [for |-> <<Own(c).endpoint, OwnToken(c)>>, at |-> clock]]
  /\ UNCHANGED <<clock, gen, settings, cache>>

\* Wrong variant: a refusal is remembered like a grant.
ReceiveOtherCached(c) ==
  /\ call[c].pc = "calling"
  /\ Fail(c)
  /\ cache' = [cache EXCEPT ![OwnKey(c)] =
                 [data |-> [for |-> <<Own(c).endpoint, OwnToken(c)>>, at |-> clock],
                  expiredAt |-> clock]]
  /\ UNCHANGED <<clock, gen, settings>>

\* The endpoint refuses the token; or the request fails: the call does, or the
\* endpoint recognises the user and sends no AuthData, and dereferencing that
\* panics before anything is stored.
ReceiveOther(c) ==
  /\ call[c].pc = "calling"
  /\ Fail(c)
  /\ UNCHANGED <<clock, gen, settings, cache>>

\* Wrong variant: the item expires only with the process.
RememberForever(c) ==
  cache' = [cache EXCEPT ![OwnKey(c)] = [data |-> call[c].reply, expiredAt |-> clock + MaxTime]]

Remember(c) ==
  cache' = [cache EXCEPT ![OwnKey(c)] =
              [data |-> call[c].reply, expiredAt |-> clock + Own(c).duration]]

ReceiveGranted(c) ==
  /\ call[c].pc = "replied"
  /\ IF Cached(c) THEN Remember(c) ELSE UNCHANGED cache
  /\ Pass(c, call[c].reply)
  /\ UNCHANGED <<clock, gen, settings>>

---------------------------------------------------------------------------
(* The cleaner, the configuration and time.                                *)

\* StartCleaner sweeps this cache, and no other of the gateway's.
Purge(k) ==
  /\ cache[k] # None /\ ~Live(cache[k])
  /\ cache' = [cache EXCEPT ![k] = None]
  /\ UNCHANGED <<clock, gen, settings, call>>

\* A configuration that is not accepted changes nothing here.
ReceiveConfig(cfg) ==
  /\ gen < MaxGen
  /\ Accepted(cfg)
  /\ gen' = gen + 1
  /\ settings' = [settings EXCEPT ![gen + 1] = NewUserAuthentication(cfg)]
  /\ UNCHANGED <<clock, cache, call>>

\* Time passes, but no reply is on its way for longer than MaxLatency.
Elapse ==
  /\ clock < MaxTime
  /\ \A c \in Caller : call[c].pc = "replied" => clock < call[c].reply.at + MaxLatency
  /\ clock' = clock + 1
  /\ UNCHANGED <<gen, settings, cache, call>>

Next ==
  \/ \E c \in Caller, in \in Input : Arrive(c, in)
  \/ \E c \in Caller : Authenticate(c)
  \/ \E c \in Caller : Decide(c)
  \/ \E c \in Caller : ReceiveOther(c)
  \/ \E c \in Caller : ReceiveGranted(c)
  \/ \E k \in CacheKey : Purge(k)
  \/ \E cfg \in CustomAuth : ReceiveConfig(cfg)
  \/ Elapse

Spec == Init /\ [][Next]_vars

---------------------------------------------------------------------------
(* Properties.                                                             *)

CallType ==
  [pc : {"idle", "arrived", "calling", "replied", "passed"},
   gen : Gen, in : Input \cup {None}, reply : Answer \cup {None}, user : Answer \cup {None}]

TypeOK ==
  /\ clock \in 0 .. MaxTime
  /\ gen \in Gen
  /\ settings \in [Gen -> [Module -> Setting \cup {None}]]
  /\ cache \in [CacheKey -> Item \cup {None}]
  /\ call \in [Caller -> CallType]

\* A setting that some configuration received so far gives for this endpoint
\* allows data of this age.
Permitted(endpoint, age) ==
  \E n \in 1 .. gen, m \in Module :
    /\ settings[n][m] # None
    /\ settings[n][m].endpoint = endpoint
    /\ settings[n][m].duration > 0
    /\ age <= settings[n][m].duration + MaxLatency

\* Calls under way belong to a generation that exists, ask about a token the
\* request carries, and their replies are recent and about that token.
CallIsSound(c) ==
  /\ InFlight(c) => call[c].gen <= gen /\ call[c].in \in Input
  /\ call[c].pc \in {"calling", "replied"} => OwnToken(c) \in Token
  /\ call[c].pc = "replied" =>
       /\ call[c].reply \in Answer
       /\ call[c].reply.for = <<Own(c).endpoint, OwnToken(c)>>
       /\ call[c].reply.at <= clock /\ clock <= call[c].reply.at + MaxLatency
CallsAreSound == \A c \in Caller : CallIsSound(c)

\* An item is about the endpoint and token of its key, and its whole life was
\* permitted by some configuration received so far.
ItemIsSound(k) ==
  cache[k] # None =>
    /\ k = Key(cache[k].data.for[1], cache[k].data.for[2])
    /\ cache[k].data.at <= clock
    /\ Permitted(cache[k].data.for[1], cache[k].expiredAt - cache[k].data.at)
ItemsAreSound == \A k \in CacheKey : ItemIsSound(k)

\* The inductive invariant of user authentication.
IndInv == TypeOK /\ CallsAreSound /\ ItemsAreSound

Passes(c) == call[c].pc # "passed" /\ call'[c].pc = "passed"
Age(c) == clock - call'[c].user.at

\* The data a user passes with was decided for the token this request carries
\* at the endpoint of its own configuration, although the cache is shared by
\* all modules and configurations and knows only concatenated keys.
UserIsTheCallers ==
  [][\A c \in Caller :
       Passes(c) => call'[c].user.for = <<Own(c).endpoint, OwnToken(c)>>]_vars

\* How old that data may be: one latency if the module's own setting switches
\* caching off; else no older than some configuration received so far allows
\* for that endpoint, requests of earlier handlers that store late included.
\* It is not the module's own setting that bounds it: the key leaves that out.
UserStaleness ==
  [][\A c \in Caller : Passes(c) =>
       \/ Age(c) <= MaxLatency
       \/ Cached(c) /\ Permitted(Own(c).endpoint, Age(c))]_vars

\* Refusals, failures and answers without data leave no trace in the cache:
\* it gains an entry only in a step that lets a request pass.
OnlyGrantsAreCached ==
  [][\A k \in CacheKey : cache'[k] \notin {cache[k], None} => \E c \in Caller : Passes(c)]_vars
=============================================================================
