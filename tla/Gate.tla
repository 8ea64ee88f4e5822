------------------------------- MODULE Gate -------------------------------
(***************************************************************************)
(* The request path of the gateway: Entrypoint, the middleware chain that  *)
(* Locator.Handler builds, and the proxy, for concurrent requests, while   *)
(* configurations (ReceiveConfig) and routes (ReceiveRoutes) arrive.       *)
(*                                                                         *)
(* One action per middleware; a middleware that calls a remote service is  *)
(* split at the call, so anything may happen while it waits.  The caches   *)
(* are sets of keys with a positive answer: ReadThrough and Cache say how  *)
(* long an answer stays, here it leaves at any moment (Expire).  Everything*)
(* a handler owns is per GENERATION, the user cache alone is shared by all *)
(* of them.  Remote services are external and may answer anything, except  *)
(* that a token always names the same application or administrator.        *)
(*                                                                         *)
(* Ghost state: told, the positive answers the services have really given. *)
(***************************************************************************)
EXTENDS Integers, FiniteSets

CONSTANTS
  Request,        \* requests served concurrently
  Input,          \* what a client may send, see InputType
  ConfigSet,      \* remote configurations, see ConfigType
  RoutingTable,   \* routing tables: [Method \X Path -> Meta or None]
  Token, App, UserToken, AdminToken, Admin, Module, AuthEndpoint, Perm,
  Method, Path, Schema,
  AppOf,          \* the application a token belongs to
  AdminOf,        \* the administrator a token belongs to
  NoExtraHeaders, \* users whose authentication answer has no ExtraHeaders
  None,           \* an empty string, a nil pointer, a missing map entry
  MaxGen          \* bound on the configurations accepted

Gen == 1 .. MaxGen
Location == [protocol : {"grpc", "http", "ws"}, skipAuth : BOOLEAN]

InputType ==
  [location : Location, method : Method, path : Path,
   header : Token \cup {None},                     \* x-application-token
   basic : [name : App \cup {None}, token : Token \cup {None}] \cup {None},
   user : UserToken \cup {None},                   \* what the token providers find
   admin : AdminToken \cup {None},                 \* x-auth-admin
   clientId : BOOLEAN,                             \* a client request id is present
   tooLarge : BOOLEAN]                             \* longer than MaxRequestBodySizeInMb

MetaType ==
  [inner : BOOLEAN, userAuth : BOOLEAN, module : Module \cup {None},
   perm : Perm \cup {None}, schema : Schema \cup {None},
   normalized : Schema \cup Path]                  \* NormalizedEndpoint: no leading slash

\* A registered endpoint belongs to a module.
RouteMeta == {m \in MetaType : m.module # None}

UserSetting == [endpoint : AuthEndpoint, cached : BOOLEAN, skipAppAuth : BOOLEAN]

ConfigType ==
  [valid : BOOLEAN,                                \* Locator.Handler accepts it
   logLevel : {"debug", "info"},
   requestLog : BOOLEAN, bodyLog : BOOLEAN,
   skipPrefixes : SUBSET [text : Schema \cup Path, slash : BOOLEAN],
   userAuth : [Module -> UserSetting \cup {None}],
   forwardId : BOOLEAN, forwardIdByApp : SUBSET App,
   throttled : SUBSET App, dailyLimited : SUBSET App]

ASSUME GateAssumption ==
  /\ MaxGen \in Nat \ {0}
  /\ Input \subseteq InputType
  /\ ConfigSet \subseteq ConfigType
  /\ RoutingTable \subseteq [Method \X Path -> RouteMeta \cup {None}]
  /\ AppOf \in [Token -> App]
  /\ AdminOf \in [AdminToken -> Admin]
  /\ NoExtraHeaders \subseteq UserToken
  /\ None \notin Token \cup App \cup UserToken \cup AdminToken \cup Admin \cup Module
                 \cup Perm \cup Schema
  /\ None \notin UserSetting /\ None \notin MetaType
  /\ None \notin [name : App \cup {None}, token : Token \cup {None}]

VARIABLES
  routes,      \* Routes.router
  config,      \* config[n]: the configuration generation n was built from
  gen,         \* the generation server.Upgrade installed last
  logLevel,
  cache,       \* positive answers cached: app, authz, perm per generation, user shared
  told,        \* positive answers given by the services (ghost), as cache, and admin
  req          \* req[r]: request.Context of r and where its handler is

vars == <<routes, config, gen, logLevel, cache, told, req>>
gateVars == <<routes, config, gen, logLevel>>

NoAnswers ==
  [app   |-> [n \in Gen |-> {}],       \* tokens authenticated
   authz |-> [n \in Gen |-> {}],       \* <<application, method, schema>> allowed
   perm  |-> [n \in Gen |-> {}],       \* <<administrator, permission>> allowed
   user  |-> {},                       \* <<authentication endpoint, user token>>
   admin |-> {}]                       \* administrator tokens (never cached)

\* NewContext: nobody is authenticated.
NewRequest ==
  [pc |-> "new", in |-> None, gen |-> 1, meta |-> None,
   app |-> None, user |-> FALSE, skipAppAuth |-> FALSE, admin |-> None,
   ownId |-> TRUE, bodyLogged |-> FALSE, counted |-> {}, forwarded |-> FALSE,
   status |-> None]

Init ==
  /\ routes \in RoutingTable
  /\ \E c \in ConfigSet : /\ c.valid
                          /\ config = [n \in Gen |-> c]
                          /\ logLevel = c.logLevel
  /\ gen = 1
  /\ cache = NoAnswers
  /\ told = NoAnswers
  /\ req = [r \in Request |-> NewRequest]

---------------------------------------------------------------------------
(* Steps common to the middlewares.                                        *)

At(r, label) == req[r].pc = label
Conf(r) == config[req[r].gen]
Goto(r, label) == req' = [req EXCEPT ![r].pc = label]

\* The error reaches ErrorHandler, which writes the response.
Respond(r, status) == req' = [req EXCEPT ![r].pc = "done", ![r].status = status]

\* The reply of a remote call: granted, refused or an error; empty: an
\* authentication service grants without saying whom (AuthData is null).
Outcome == {"granted", "refused", "error", "empty"}

---------------------------------------------------------------------------
(* Entrypoint.                                                             *)

\* The server passes the request to the handler installed now.
Accept(r, in) ==
  /\ At(r, "new")
  /\ req' = [req EXCEPT ![r].pc = "entrypoint", ![r].in = in, ![r].gen = gen]
  /\ UNCHANGED <<gateVars, cache, told>>

UnknownMeta(path) ==
  [inner |-> FALSE, userAuth |-> FALSE, module |-> None, perm |-> None,
   schema |-> None, normalized |-> path]

\* ResolveEndpoint reads the router once; an unknown endpoint is an error
\* except in a location without authentication.
Entrypoint(r) ==
  /\ At(r, "entrypoint")
  /\ LET in == req[r].in
         found == routes[<<in.method, in.path>>]
     IN  \/ /\ found # None
            /\ req' = [req EXCEPT ![r].pc = "logger", ![r].meta = found]
         \/ /\ found = None /\ in.location.skipAuth
            /\ req' = [req EXCEPT ![r].pc = "logger", ![r].meta = UnknownMeta(in.path)]
         \/ /\ found = None /\ ~in.location.skipAuth
            /\ Respond(r, "501")
  /\ UNCHANGED <<gateVars, cache, told>>

---------------------------------------------------------------------------
(* Logger, the outermost middleware.                                       *)

\* Only the chain without authentication gets the prefixes with their
\* leading slash trimmed; a prefix that has one matches no endpoint.
Trim(p) == [p EXCEPT !.slash = FALSE]
SkipList(r) ==
  IF req[r].in.location.skipAuth
  THEN {Trim(p) : p \in Conf(r).skipPrefixes}
  ELSE Conf(r).skipPrefixes

LogsBody(r) ==
  /\ Conf(r).requestLog /\ Conf(r).bodyLog
  /\ req[r].in.location.protocol # "ws"
  /\ [text |-> req[r].meta.normalized, slash |-> FALSE] \notin SkipList(r)

AfterLogger(r) == IF req[r].in.location.skipAuth THEN "clientId" ELSE "user"

\* The body is read to be logged before any other middleware runs.  An error
\* of that read passes by ErrorHandler: Entrypoint logs it, nothing is
\* written, and net/http completes the response as an empty 200.
Logger(r) ==
  /\ At(r, "logger")
  /\ IF LogsBody(r) /\ req[r].in.tooLarge
     THEN req' = [req EXCEPT ![r].pc = "done", ![r].bodyLogged = TRUE, ![r].status = "200"]
     ELSE req' = [req EXCEPT ![r].pc = AfterLogger(r), ![r].bodyLogged = LogsBody(r)]
  /\ UNCHANGED <<gateVars, cache, told>>

---------------------------------------------------------------------------
(* UserAuthenticate.                                                       *)

Setting(r) == Conf(r).userAuth[req[r].meta.module]
UserKey(r) == <<Setting(r).endpoint, req[r].in.user>>

UserPassed(r) ==
  req' = [req EXCEPT ![r].pc = "app", ![r].user = TRUE,
                     ![r].skipAppAuth = Setting(r).skipAppAuth]

\* Wrong variant: a cached user skips application authentication.
UserAuthenticateHitSkips(r) ==
  /\ At(r, "user")
  /\ LET meta == req[r].meta
     IN  \/ ~meta.userAuth /\ Goto(r, "app")
         \/ /\ meta.userAuth /\ Setting(r) # None
            /\ req[r].in.user \in UserToken
            /\ IF Setting(r).cached /\ UserKey(r) \in cache.user
               THEN req' = [req EXCEPT ![r].pc = "app", ![r].user = TRUE,
                                       ![r].skipAppAuth = TRUE]
               ELSE Goto(r, "userCall")
  /\ UNCHANGED <<gateVars, cache, told>>

UserAuthenticate(r) ==
  /\ At(r, "user")
  /\ LET meta == req[r].meta
     IN  \/ /\ ~meta.userAuth
            /\ Goto(r, "app")
         \/ /\ meta.userAuth /\ Setting(r) = None
            /\ Respond(r, "500")
         \/ /\ meta.userAuth /\ Setting(r) # None
            /\ req[r].in.user \notin UserToken
            /\ Respond(r, "401")
         \/ /\ meta.userAuth /\ Setting(r) # None
            /\ req[r].in.user \in UserToken
            /\ IF Setting(r).cached /\ UserKey(r) \in cache.user
               THEN UserPassed(r)
               ELSE Goto(r, "userCall")
  /\ UNCHANGED <<gateVars, cache, told>>

UserReply(r, o) ==
  /\ At(r, "userCall")
  /\ \/ /\ o = "granted"
        /\ told' = [told EXCEPT !.user = @ \cup {UserKey(r)}]
        /\ cache' = [cache EXCEPT !.user = IF Setting(r).cached THEN @ \cup {UserKey(r)} ELSE @]
        /\ UserPassed(r)
     \/ o = "refused" /\ Respond(r, "401") /\ UNCHANGED <<cache, told>>
     \/ o = "error" /\ Respond(r, "500") /\ UNCHANGED <<cache, told>>
     \/ o = "empty" /\ Respond(r, "aborted") /\ UNCHANGED <<cache, told>>
  /\ UNCHANGED gateVars

---------------------------------------------------------------------------
(* Authenticate.                                                           *)

\* A nil AuthData is dereferenced on its way into the cache: the panic drops
\* the connection, here and in UserReply, and nothing is remembered.

\* extractToken: the header wins over basic authentication.
AppToken(in) ==
  IF in.header # None THEN in.header
  ELSE IF in.basic # None THEN in.basic.token ELSE None
AppName(in) ==
  IF in.header # None \/ in.basic = None THEN None ELSE in.basic.name
NameMissing(in) == in.header = None /\ in.basic # None /\ in.basic.name = None

\* The token is good; with basic authentication the name must fit it.
AppAnswered(r) ==
  LET in == req[r].in
      app == AppOf[AppToken(in)]
  IN  IF AppName(in) # None /\ AppName(in) # app
      THEN Respond(r, "401")
      ELSE req' = [req EXCEPT ![r].pc = "admin", ![r].app = app]

\* Wrong variant: a request without a token is left without an answer.
AuthenticateSilent(r) ==
  /\ At(r, "app")
  /\ LET in == req[r].in
     IN  \/ /\ req[r].skipAppAuth
            /\ Goto(r, "admin")
         \/ /\ ~req[r].skipAppAuth
            /\ ~NameMissing(in) /\ AppToken(in) # None
            /\ IF AppToken(in) \in cache.app[req[r].gen]
               THEN AppAnswered(r)
               ELSE Goto(r, "appCall")
  /\ UNCHANGED <<gateVars, cache, told>>

Authenticate(r) ==
  /\ At(r, "app")
  /\ LET in == req[r].in
     IN  \/ /\ req[r].skipAppAuth
            /\ Goto(r, "admin")
         \/ /\ ~req[r].skipAppAuth
            /\ NameMissing(in) \/ AppToken(in) = None
            /\ Respond(r, "401")
         \/ /\ ~req[r].skipAppAuth
            /\ ~NameMissing(in) /\ AppToken(in) # None
            /\ IF AppToken(in) \in cache.app[req[r].gen]
               THEN AppAnswered(r)
               ELSE Goto(r, "appCall")
  /\ UNCHANGED <<gateVars, cache, told>>

AppReply(r, o) ==
  /\ At(r, "appCall")
  /\ LET token == AppToken(req[r].in)
     IN  \/ /\ o = "granted"
            /\ told' = [told EXCEPT !.app[req[r].gen] = @ \cup {token}]
            /\ cache' = [cache EXCEPT !.app[req[r].gen] = @ \cup {token}]
            /\ AppAnswered(r)
         \/ o = "refused" /\ Respond(r, "401") /\ UNCHANGED <<cache, told>>
         \/ o = "error" /\ Respond(r, "500") /\ UNCHANGED <<cache, told>>
         \/ o = "empty" /\ Respond(r, "aborted") /\ UNCHANGED <<cache, told>>
  /\ UNCHANGED gateVars

---------------------------------------------------------------------------
(* AdminAuthenticate: never cached, every failure is a 401.                *)

AdminAuthenticate(r) ==
  /\ At(r, "admin")
  /\ IF req[r].in.admin = None THEN Goto(r, "clientId") ELSE Goto(r, "adminCall")
  /\ UNCHANGED <<gateVars, cache, told>>

AdminReply(r, o) ==
  /\ At(r, "adminCall")
  /\ \/ /\ o = "granted"
        /\ told' = [told EXCEPT !.admin = @ \cup {req[r].in.admin}]
        /\ req' = [req EXCEPT ![r].pc = "clientId", ![r].admin = AdminOf[req[r].in.admin]]
     \/ o \in {"refused", "error"} /\ Respond(r, "401") /\ UNCHANGED told
  /\ UNCHANGED <<gateVars, cache>>

---------------------------------------------------------------------------
(* ClientRequestId.                                                        *)

\* Wrong variant: Authorize and AdminAuthorize are left out of the chain.
AfterClientIdLimits(r) == IF req[r].in.location.skipAuth THEN "proxy" ELSE "throttling"
AfterClientId(r) == IF req[r].in.location.skipAuth THEN "proxy" ELSE "authorize"

\* Wrong variant: the per-application setting counts for any application.
ClientRequestIdAnyApp(r) ==
  /\ At(r, "clientId")
  /\ LET forward == /\ req[r].in.clientId
                    /\ Conf(r).forwardId \/ Conf(r).forwardIdByApp # {}
     IN  req' = [req EXCEPT ![r].pc = AfterClientId(r), ![r].ownId = ~forward]
  /\ UNCHANGED <<gateVars, cache, told>>

ClientRequestId(r) ==
  /\ At(r, "clientId")
  /\ LET forward == /\ req[r].in.clientId
                    /\ Conf(r).forwardId \/ req[r].app \in Conf(r).forwardIdByApp
     IN  req' = [req EXCEPT ![r].pc = AfterClientId(r), ![r].ownId = ~forward]
  /\ UNCHANGED <<gateVars, cache, told>>

---------------------------------------------------------------------------
(* Authorize: an authenticated administrator passes even when the          *)
(* application is refused.                                                 *)

\* Wrong variant: the cache key leaves out the HTTP method.
AuthzKeyNoMethod(r) == <<req[r].app, CHOOSE m \in Method : TRUE, req[r].meta.schema>>
AuthzKey(r) == <<req[r].app, req[r].in.method, req[r].meta.schema>>

Authorize(r) ==
  /\ At(r, "authorize")
  /\ IF req[r].skipAppAuth \/ AuthzKey(r) \in cache.authz[req[r].gen]
     THEN Goto(r, "adminAuthorize")
     ELSE Goto(r, "authorizeCall")
  /\ UNCHANGED <<gateVars, cache, told>>

AuthorizeReply(r, o) ==
  /\ At(r, "authorizeCall")
  /\ \/ /\ o = "granted"
        /\ told' = [told EXCEPT !.authz[req[r].gen] =
                      @ \cup {<<req[r].app, req[r].in.method, req[r].meta.schema>>}]
        /\ cache' = [cache EXCEPT !.authz[req[r].gen] = @ \cup {AuthzKey(r)}]
        /\ Goto(r, "adminAuthorize")
     \/ /\ o = "refused"
        /\ IF req[r].admin # None THEN Goto(r, "adminAuthorize") ELSE Respond(r, "403")
        /\ UNCHANGED <<cache, told>>
     \/ o = "error" /\ Respond(r, "500") /\ UNCHANGED <<cache, told>>
  /\ UNCHANGED gateVars

---------------------------------------------------------------------------
(* AdminAuthorize: inner endpoints need an administrator, and the          *)
(* permission if they name one.                                            *)

PermKey(r) == <<req[r].admin, req[r].meta.perm>>

\* Wrong variant: an inner endpoint that names no permission is open to all.
AdminAuthorizeNoPerm(r) ==
  /\ At(r, "adminAuthorize")
  /\ LET meta == req[r].meta
     IN  \/ /\ ~meta.inner \/ meta.perm = None
            /\ Goto(r, "throttling")
         \/ /\ meta.inner /\ meta.perm # None /\ req[r].admin = None
            /\ Respond(r, "403")
         \/ /\ meta.inner /\ meta.perm # None /\ req[r].admin # None
            /\ IF PermKey(r) \in cache.perm[req[r].gen]
               THEN Goto(r, "throttling")
               ELSE Goto(r, "permCall")
  /\ UNCHANGED <<gateVars, cache, told>>

AdminAuthorize(r) ==
  /\ At(r, "adminAuthorize")
  /\ LET meta == req[r].meta
     IN  \/ /\ ~meta.inner
            /\ Goto(r, "throttling")
         \/ /\ meta.inner /\ req[r].admin = None
            /\ Respond(r, "403")
         \/ /\ meta.inner /\ req[r].admin # None
            /\ IF meta.perm = None \/ PermKey(r) \in cache.perm[req[r].gen]
               THEN Goto(r, "throttling")
               ELSE Goto(r, "permCall")
  /\ UNCHANGED <<gateVars, cache, told>>

PermReply(r, o) ==
  /\ At(r, "permCall")
  /\ \/ /\ o = "granted"
        /\ told' = [told EXCEPT !.perm[req[r].gen] = @ \cup {PermKey(r)}]
        /\ cache' = [cache EXCEPT !.perm[req[r].gen] = @ \cup {PermKey(r)}]
        /\ Goto(r, "throttling")
     \/ o = "refused" /\ Respond(r, "403") /\ UNCHANGED <<cache, told>>
     \/ o = "error" /\ Respond(r, "500") /\ UNCHANGED <<cache, told>>
  /\ UNCHANGED gateVars

---------------------------------------------------------------------------
(* Throttling and DailyLimit: both ask isp-lock-service, which counts the  *)
(* request whether or not its reply arrives.                               *)

Throttling(r) ==
  /\ At(r, "throttling")
  /\ IF req[r].skipAppAuth \/ req[r].app \notin Conf(r).throttled
     THEN Goto(r, "dailyLimit")
     ELSE req' = [req EXCEPT ![r].pc = "throttlingCall", ![r].counted = @ \cup {"rate"}]
  /\ UNCHANGED <<gateVars, cache, told>>

ThrottlingReply(r, o) ==
  /\ At(r, "throttlingCall")
  /\ \/ o = "granted" /\ Goto(r, "dailyLimit")
     \/ o = "refused" /\ Respond(r, "429")
     \/ o = "error" /\ Respond(r, "500")
  /\ UNCHANGED <<gateVars, cache, told>>

DailyLimit(r) ==
  /\ At(r, "dailyLimit")
  /\ IF req[r].skipAppAuth \/ req[r].app \notin Conf(r).dailyLimited
     THEN Goto(r, "proxy")
     ELSE req' = [req EXCEPT ![r].pc = "dailyLimitCall", ![r].counted = @ \cup {"daily"}]
  /\ UNCHANGED <<gateVars, cache, told>>

DailyLimitReply(r, o) ==
  /\ At(r, "dailyLimitCall")
  /\ \/ o = "granted" /\ Goto(r, "proxy")
     \/ o = "refused" /\ Respond(r, "429")
     \/ o = "error" /\ Respond(r, "500")
  /\ UNCHANGED <<gateVars, cache, told>>

---------------------------------------------------------------------------
(* The proxy.  Metrics, between DailyLimit and it, decides nothing.        *)

\* A body that is too large is found out here if Logger did not read it: the
\* gRPC proxy reads it before it calls, the HTTP proxy while it forwards.
\* writeMetadata adds the identity to a clone of ExtraHeaders, and the clone of
\* a nil map is nil: the assignment panics and net/http drops the connection.
MetadataPanics(r) == ~req[r].in.location.skipAuth /\ req[r].user /\ req[r].in.user \in NoExtraHeaders

Proxy(r) ==
  /\ At(r, "proxy")
  /\ LET in == req[r].in
     IN  \/ /\ in.location.protocol = "grpc" /\ in.tooLarge
            /\ Respond(r, "500")
         \/ /\ in.location.protocol = "grpc" /\ ~in.tooLarge /\ MetadataPanics(r)
            /\ Respond(r, "aborted")
         \/ /\ in.location.protocol # "grpc"            \* hostManager.Next fails
            /\ Respond(r, "500")
         \/ /\ in.location.protocol = "grpc" => ~in.tooLarge /\ ~MetadataPanics(r)
            /\ req' = [req EXCEPT ![r].pc = "proxyCall", ![r].forwarded = TRUE]
  /\ UNCHANGED <<gateVars, cache, told>>

\* Wrong variant: a target that could not be reached is tried once more.
ProxyReplyRetries(r, o) ==
  /\ At(r, "proxyCall") /\ o # "empty"
  /\ \/ o = "granted" /\ Respond(r, "200")
     \/ o = "refused" /\ Respond(r, "upstream")
     \/ o = "error" /\ Goto(r, "proxy")
  /\ UNCHANGED <<gateVars, cache, told>>

\* granted: the target answers 200; refused: it answers an error, which is
\* relayed; error: it cannot be reached or the proxy timeout passes.
ProxyReply(r, o) ==
  /\ At(r, "proxyCall") /\ o # "empty"
  /\ Respond(r, CASE o = "granted" -> "200" [] o = "refused" -> "upstream" [] o = "error" -> "503")
  /\ UNCHANGED <<gateVars, cache, told>>

---------------------------------------------------------------------------
(* Cluster events and time.                                                *)

\* The log level is set before the configuration is validated.
ReceiveConfig(c) ==
  /\ logLevel' = c.logLevel
  /\ IF c.valid
     THEN /\ gen < MaxGen
          /\ gen' = gen + 1
          /\ config' = [config EXCEPT ![gen + 1] = c]
     ELSE UNCHANGED <<gen, config>>
  /\ UNCHANGED <<routes, cache, told, req>>

ReceiveRoutes(t) ==
  /\ routes' = t
  /\ UNCHANGED <<config, gen, logLevel, cache, told, req>>

\* An item of a cache reaches its deadline.
Expire ==
  /\ \/ \E n \in Gen : \E k \in cache.app[n] :
          cache' = [cache EXCEPT !.app[n] = @ \ {k}]
     \/ \E n \in Gen : \E k \in cache.authz[n] :
          cache' = [cache EXCEPT !.authz[n] = @ \ {k}]
     \/ \E n \in Gen : \E k \in cache.perm[n] :
          cache' = [cache EXCEPT !.perm[n] = @ \ {k}]
     \/ \E k \in cache.user : cache' = [cache EXCEPT !.user = @ \ {k}]
  /\ UNCHANGED <<gateVars, told, req>>

Handle(r) ==
  \/ Entrypoint(r)
  \/ Logger(r)
  \/ UserAuthenticate(r)
  \/ Authenticate(r)
  \/ AdminAuthenticate(r)
  \/ ClientRequestId(r)
  \/ Authorize(r)
  \/ AdminAuthorize(r)
  \/ Throttling(r)
  \/ DailyLimit(r)
  \/ Proxy(r)

Reply(r, o) ==
  \/ UserReply(r, o)
  \/ AppReply(r, o)
  \/ AdminReply(r, o)
  \/ AuthorizeReply(r, o)
  \/ PermReply(r, o)
  \/ ThrottlingReply(r, o)
  \/ DailyLimitReply(r, o)
  \/ ProxyReply(r, o)

Next ==
  \/ \E r \in Request, in \in Input : Accept(r, in)
  \/ \E r \in Request : Handle(r)
  \/ \E r \in Request, o \in Outcome : Reply(r, o)
  \/ \E c \in ConfigSet : ReceiveConfig(c)
  \/ \E t \in RoutingTable : ReceiveRoutes(t)
  \/ Expire

Spec == Init /\ [][Next]_vars
(* Every step of a handler is taken: nothing in it blocks but the remote   *)
(* calls, whose clients give up in the end (the proxy after its timeout).  *)
Fairness ==
  \A r \in Request : WF_vars(Handle(r)) /\ WF_vars(\E o \in Outcome : Reply(r, o))

FairSpec == Spec /\ Fairness

---------------------------------------------------------------------------
(* Properties.                                                             *)

Label ==
  {"new", "entrypoint", "logger", "user", "userCall", "app", "appCall", "admin", "adminCall",
   "clientId", "authorize", "authorizeCall", "adminAuthorize", "permCall", "throttling",
   "throttlingCall", "dailyLimit", "dailyLimitCall", "proxy", "proxyCall", "done"}

Status == {None, "200", "401", "403", "429", "500", "501", "503", "upstream", "aborted"}

RequestType ==
  [pc : Label, in : Input \cup {None}, gen : Gen, meta : MetaType \cup {None},
   app : App \cup {None}, user : BOOLEAN, skipAppAuth : BOOLEAN, admin : Admin \cup {None},
   ownId : BOOLEAN, bodyLogged : BOOLEAN, counted : SUBSET {"rate", "daily"},
   forwarded : BOOLEAN,
   status : Status]

AnswerType ==
  [app : [Gen -> SUBSET Token],
   authz : [Gen -> SUBSET (App \X Method \X (Schema \cup {None}))],
   perm : [Gen -> SUBSET (Admin \X Perm)],
   user : SUBSET (AuthEndpoint \X UserToken),
   admin : SUBSET AdminToken]

TypeOK ==
  /\ routes \in RoutingTable
  /\ config \in [Gen -> ConfigSet]
  /\ gen \in Gen
  /\ logLevel \in {"debug", "info"}
  /\ cache \in AnswerType
  /\ told \in AnswerType
  /\ req \in [Request -> RequestType]

\* What is cached was really answered, for that very key and generation.
CacheSound ==
  /\ \A n \in Gen : /\ cache.app[n] \subseteq told.app[n]
                    /\ cache.authz[n] \subseteq told.authz[n]
                    /\ cache.perm[n] \subseteq told.perm[n]
  /\ cache.user \subseteq told.user

(* What a request needs, in terms of what the client sent, of the          *)
(* configuration its handler was built from and of the services' answers.  *)

Guarded(r) == ~req[r].in.location.skipAuth
UserVouched(r) == UserKey(r) \in told.user
AppWaived(r) == req[r].meta.userAuth /\ Setting(r).skipAppAuth
AdminVouched(r) == req[r].in.admin # None /\ req[r].in.admin \in told.admin

AppVouched(r) ==
  /\ AppToken(req[r].in) # None
  /\ AppToken(req[r].in) \in told.app[req[r].gen]
  /\ ~NameMissing(req[r].in)
  /\ AppName(req[r].in) \in {None, AppOf[AppToken(req[r].in)]}

Allowed(r) ==
  <<AppOf[AppToken(req[r].in)], req[r].in.method, req[r].meta.schema>> \in told.authz[req[r].gen]

InnerAllowed(r) ==
  /\ AdminVouched(r)
  /\ \/ req[r].meta.perm = None
     \/ <<AdminOf[req[r].in.admin], req[r].meta.perm>> \in told.perm[req[r].gen]

Admitted(r) ==
  /\ req[r].meta.userAuth => Setting(r) # None /\ UserVouched(r)
  /\ AppWaived(r) \/ (AppVouched(r) /\ (Allowed(r) \/ AdminVouched(r)))
  /\ req[r].meta.inner => InnerAllowed(r)

\* Nothing reaches a target of a guarded location unless the services have
\* vouched for its user, its application (or the configuration the handler was
\* built from waives that), its right to the endpoint and, for an inner one,
\* its administrator: whatever other requests, cache hits, reloads and route
\* changes happen meanwhile.
AdmissionSound == \A r \in Request : req[r].forwarded /\ Guarded(r) => Admitted(r)

\* Its endpoint has been resolved.
Known(r) == req[r].pc \notin {"new", "entrypoint"} /\ req[r].meta # None

\* An application is to be authenticated, and a token names one.
HasApp(r) ==
  /\ Known(r) /\ Guarded(r)
  /\ req[r].meta.userAuth => Setting(r) # None /\ ~Setting(r).skipAppAuth
  /\ AppToken(req[r].in) # None

\* The limits that the handler's configuration sets for that application.
LimitsDue(r) ==
  IF ~HasApp(r) THEN {}
  ELSE LET app == AppOf[AppToken(req[r].in)]
       IN  (IF app \in Conf(r).throttled THEN {"rate"} ELSE {})
             \cup (IF app \in Conf(r).dailyLimited THEN {"daily"} ELSE {})

\* isp-lock-service counts a request only once it is admitted and only against
\* limits its application has, and no request of a limited application gets
\* past the limits uncounted.
LimitsCountAdmitted ==
  \A r \in Request :
    /\ req[r].counted # {} => Admitted(r)
    /\ req[r].counted \subseteq LimitsDue(r)
    /\ req[r].forwarded => LimitsDue(r) \subseteq req[r].counted

\* The client's request id replaces the gateway's exactly when forwarding is on
\* for everyone or for the application the request was authenticated as.
ClientIdForwarding ==
  \A r \in Request : req[r].forwarded =>
    ((~req[r].ownId) <=>
       /\ req[r].in.clientId
       /\ \/ Conf(r).forwardId
          \/ /\ Guarded(r) /\ ~AppWaived(r)
             /\ AppOf[AppToken(req[r].in)] \in Conf(r).forwardIdByApp)

(* The stages a request of a guarded location has behind it.               *)

AtProxy == {"proxy", "proxyCall"}
PastThrottling == {"dailyLimit", "dailyLimitCall"} \cup AtProxy
PastAdminAuthorize == {"throttling", "throttlingCall"} \cup PastThrottling
PastAuthorize == {"adminAuthorize", "permCall"} \cup PastAdminAuthorize
PastClientId == {"authorize", "authorizeCall"} \cup PastAuthorize
PastApp == {"admin", "adminCall", "clientId"} \cup PastClientId
PastUser == {"app", "appCall"} \cup PastApp
Resolved == {"logger", "user", "userCall"} \cup PastUser

UserChecked(r) ==
  /\ req[r].meta.userAuth => Setting(r) # None /\ UserVouched(r)
  /\ req[r].skipAppAuth = AppWaived(r)

AppChecked(r) ==
  IF req[r].skipAppAuth THEN req[r].app = None
  ELSE AppVouched(r) /\ req[r].app = AppOf[AppToken(req[r].in)]

IdDecided(r) ==
  (~req[r].ownId) <=>
    /\ req[r].in.clientId
    /\ Conf(r).forwardId \/ req[r].app \in Conf(r).forwardIdByApp

RateCounted(r) == req[r].app \in Conf(r).throttled => "rate" \in req[r].counted
DailyCounted(r) == req[r].app \in Conf(r).dailyLimited => "daily" \in req[r].counted

\* A call under way was needed, has its arguments and is counted.
CallsAreNeeded(r) ==
  /\ req[r].pc = "userCall" => /\ req[r].meta.userAuth /\ Setting(r) # None
                               /\ req[r].in.user \in UserToken
  /\ req[r].pc = "appCall" => /\ ~req[r].skipAppAuth /\ ~NameMissing(req[r].in)
                              /\ AppToken(req[r].in) # None
  /\ req[r].pc = "adminCall" => req[r].in.admin # None
  /\ req[r].pc \in {"authorizeCall", "throttlingCall", "dailyLimitCall"} => ~req[r].skipAppAuth
  /\ req[r].pc = "throttlingCall" => "rate" \in req[r].counted
  /\ req[r].pc = "dailyLimitCall" => "daily" \in req[r].counted
  /\ req[r].pc = "permCall" => /\ req[r].meta.inner /\ req[r].admin # None
                               /\ req[r].meta.perm # None

\* The checks a request has behind it have really been made.
Progress(r) ==
  /\ req[r].pc = "new" => req[r] = NewRequest
  /\ req[r].pc # "new" => req[r].in \in Input /\ req[r].gen <= gen
  /\ req[r].pc = "entrypoint" => req[r].meta = None
  /\ req[r].pc \in Resolved =>
       req[r].meta # None /\ (req[r].meta.userAuth => req[r].meta.module # None)
  /\ req[r].pc \in Resolved \ (AtProxy \cup {"logger", "clientId"}) => Guarded(r)
  /\ req[r].pc \notin PastUser \cup {"done"} => ~req[r].skipAppAuth
  /\ req[r].pc \notin PastApp \cup {"done"} => req[r].app = None
  /\ req[r].admin # None => AdminVouched(r) /\ req[r].admin = AdminOf[req[r].in.admin]
  /\ CallsAreNeeded(r)
  /\ req[r].pc \in PastUser /\ Guarded(r) => UserChecked(r)
  /\ req[r].pc \in PastApp =>
       IF Guarded(r) THEN AppChecked(r) ELSE req[r].app = None /\ ~req[r].skipAppAuth
  /\ req[r].pc \in PastAuthorize /\ Guarded(r) =>
       req[r].skipAppAuth \/ Allowed(r) \/ AdminVouched(r)
  /\ req[r].pc \in PastAdminAuthorize /\ Guarded(r) /\ req[r].meta.inner => InnerAllowed(r)
  /\ req[r].pc \in PastThrottling /\ Guarded(r) => RateCounted(r)
  /\ req[r].pc \in AtProxy /\ Guarded(r) => DailyCounted(r)
  /\ req[r].counted # {} => Admitted(r) /\ req[r].pc \in PastAdminAuthorize \cup {"done"}
  /\ req[r].forwarded => req[r].pc \in {"proxyCall", "done"}
  /\ req[r].pc \in PastClientId \/ req[r].forwarded => IdDecided(r)
  /\ req[r].forwarded =>
       IF Guarded(r) THEN /\ Admitted(r) /\ UserChecked(r) /\ AppChecked(r)
                          /\ RateCounted(r) /\ DailyCounted(r)
                     ELSE req[r].app = None

\* The inductive invariant of the request path.
IndInv == TypeOK /\ CacheSound /\ \A r \in Request : Progress(r)

(* The gateway as its clients and the modules behind it see it: GateSpec.  *)

Phase(r) ==
  CASE req[r].pc \in {"new", "entrypoint"} -> "new"
    [] req[r].pc = "proxyCall"             -> "forwarded"
    [] req[r].pc = "done"                  -> "done"
    [] OTHER                               -> "open"

Entitled(r) == Known(r) /\ (Guarded(r) => Admitted(r))

Phases == [r \in Request |-> Phase(r)]
Vouched == {r \in Request : Entitled(r)}
Dues == [r \in Request |-> LimitsDue(r)]
Charges == [r \in Request |-> req[r].counted]
Answers == [r \in Request |-> req[r].status]

Abstract == INSTANCE GateSpec WITH
  phase <- Phases, vouched <- Vouched, due <- Dues, charged <- Charges, answer <- Answers

\* Whatever the other requests, the caches, reloads and route changes do, each
\* request is carried through the middlewares as GateSpec says: forwarded at
\* most once, entitled and counted against exactly its limits, and answered
\* once, with a status that tells how far it came.
ImplementsGateSpec == Abstract!Spec

\* A handler never gets stuck, whatever mixture of input, configuration and
\* routes it meets.
EveryRequestEnds == \A r \in Request : At(r, "entrypoint") ~> At(r, "done")

---------------------------------------------------------------------------
(* What the documentation and the tests say, and the code does not do.     *)

\* conf/remote.go: a leading slash of a skipBodyLoggingEndpointPrefixes entry is
\* ignored, so its endpoint's bodies are not logged.
SkipPrefixIgnoresSlash ==
  \A r \in Request :
    req[r].bodyLogged => \A p \in Conf(r).skipPrefixes : p.text # req[r].meta.normalized

\* A client that is told 200 was served by the target; a body beyond the
\* configured maximum is not reported as a success.
OkMeansForwarded == \A r \in Request : req[r].status = "200" => req[r].forwarded

\* A request that passes every check gets an HTTP response.
AdmittedIsAnswered == \A r \in Request : req[r].status = "aborted" => ~Admitted(r)
=============================================================================
