---------------------------- MODULE GateProofs ----------------------------
(***************************************************************************)
(* Admission, for any number of concurrent requests, for every input,      *)
(* configuration and routing table and any number of reloads.              *)
(***************************************************************************)
EXTENDS Gate, TLAPS

\* The services' answers only accumulate.
ToldGrows ==
  /\ \A n \in Gen : /\ told.app[n] \subseteq told'.app[n]
                    /\ told.authz[n] \subseteq told'.authz[n]
                    /\ told.perm[n] \subseteq told'.perm[n]
  /\ told.user \subseteq told'.user
  /\ told.admin \subseteq told'.admin

\* A request keeps what it was sent, its generation and its endpoint, and the
\* configuration of its generation stands.
Settled(r) ==
  /\ req'[r].in = req[r].in /\ req'[r].gen = req[r].gen /\ req'[r].meta = req[r].meta
  /\ config'[req[r].gen] = config[req[r].gen]

\* What the services have vouched for stays vouched for.
LEMMA Stable ==
  ASSUME NEW r \in Request, TypeOK, ToldGrows, Settled(r)
  PROVE  /\ Conf(r)' = Conf(r) /\ Setting(r)' = Setting(r)
         /\ Guarded(r)' = Guarded(r) /\ AppWaived(r)' = AppWaived(r)
         /\ UserVouched(r) => UserVouched(r)'
         /\ AdminVouched(r) => AdminVouched(r)'
         /\ AppVouched(r) => AppVouched(r)'
         /\ Allowed(r) => Allowed(r)'
         /\ InnerAllowed(r) => InnerAllowed(r)'
         /\ Admitted(r) => Admitted(r)'
<1>0. req[r].gen \in Gen
  BY DEF TypeOK, RequestType
<1>1. Conf(r)' = Conf(r) /\ Guarded(r)' = Guarded(r)
  BY DEF Settled, Conf, Guarded
<1>2. Setting(r)' = Setting(r)
  BY <1>1 DEF Settled, Setting
<1>3. AppWaived(r)' = AppWaived(r)
  BY <1>2 DEF Settled, AppWaived
<1>4. UserVouched(r) => UserVouched(r)'
  BY <1>2 DEF Settled, UserVouched, UserKey, ToldGrows
<1>5. AdminVouched(r) => AdminVouched(r)'
  BY DEF Settled, AdminVouched, ToldGrows
<1>6. AppVouched(r) => AppVouched(r)'
  BY <1>0 DEF Settled, AppVouched, ToldGrows
<1>7. Allowed(r) => Allowed(r)'
  BY <1>0 DEF Settled, Allowed, ToldGrows
<1>8. InnerAllowed(r) => InnerAllowed(r)'
  BY <1>0, <1>5 DEF Settled, InnerAllowed, ToldGrows
<1>9. Admitted(r) => Admitted(r)'
  BY <1>2, <1>3, <1>4, <1>5, <1>6, <1>7, <1>8 DEF Settled, Admitted
<1> QED
  BY <1>1, <1>2, <1>3, <1>4, <1>5, <1>6, <1>7, <1>8, <1>9

\* A request that does not move keeps its progress.
LEMMA Frame ==
  ASSUME NEW r \in Request, TypeOK, Progress(r), ToldGrows, req'[r] = req[r],
         gen <= gen', gen \in Int, gen' \in Int,
         \A n \in Gen : n <= gen => config'[n] = config[n]
  PROVE  Progress(r)'
<1>1. CASE req[r].pc = "new"
  <2>1. req'[r] = NewRequest
    BY <1>1 DEF Progress
  <2> QED
    BY <2>1 DEF Progress, NewRequest, CallsAreNeeded, Resolved, PastUser, PastApp, PastClientId,
       PastAuthorize, PastAdminAuthorize, PastThrottling, AtProxy
<1>2. CASE req[r].pc # "new"
  <2>1. req[r].in \in Input /\ req[r].gen <= gen /\ req[r].gen \in Gen
    BY <1>2 DEF Progress, TypeOK, RequestType
  <2>2. Settled(r)
    BY <2>1 DEF Settled
  <2>3. req'[r].gen <= gen'
    BY <2>1 DEF Gen
  <2> QED
    BY <1>2, <2>1, <2>2, <2>3, Stable DEF Progress, CallsAreNeeded, UserChecked, AppChecked,
       IdDecided, RateCounted, DailyCounted
<1> QED
  BY <1>1, <1>2

\* What a step of one request has to establish.
LEMMA OneMoves ==
  ASSUME IndInv, NEW r \in Request, UNCHANGED gateVars, ToldGrows,
         cache' \in AnswerType, told' \in AnswerType, CacheSound',
         req' \in [Request -> RequestType], \A q \in Request \ {r} : req'[q] = req[q],
         Progress(r)'
  PROVE  IndInv'
<1>1. TypeOK'
  BY DEF IndInv, TypeOK, gateVars
<1>2. gen \in Int /\ gen <= gen /\ gen' = gen /\ config' = config
  BY DEF IndInv, TypeOK, gateVars, Gen
<1>3. ASSUME NEW q \in Request PROVE Progress(q)'
  <2>1. CASE q # r
    BY <1>2, <2>1, Frame DEF IndInv
  <2> QED
    BY <2>1
<1> QED
  BY <1>1, <1>3 DEF IndInv

\* The common case: no service has answered and no cache has changed.
LEMMA OneMovesLocally ==
  ASSUME IndInv, NEW r \in Request, UNCHANGED <<gateVars, cache, told>>,
         req' \in [Request -> RequestType], \A q \in Request \ {r} : req'[q] = req[q],
         Progress(r)'
  PROVE  IndInv'
<1>1. ToldGrows
  BY DEF ToldGrows
<1>2. cache' \in AnswerType /\ told' \in AnswerType /\ CacheSound'
  BY DEF IndInv, TypeOK, CacheSound
<1> QED
  BY <1>1, <1>2, OneMoves

\* Writing fields of a request's record.
LEMMA GotoFields ==
  ASSUME TypeOK, NEW r \in Request, NEW l \in Label, Goto(r, l)
  PROVE  /\ req' \in [Request -> RequestType]
         /\ \A q \in Request \ {r} : req'[q] = req[q]
         /\ req'[r] = [req[r] EXCEPT !.pc = l]
         /\ req'[r].pc = l
         /\ req'[r].in = req[r].in /\ req'[r].gen = req[r].gen /\ req'[r].meta = req[r].meta
         /\ req'[r].app = req[r].app /\ req'[r].skipAppAuth = req[r].skipAppAuth
         /\ req'[r].admin = req[r].admin /\ req'[r].ownId = req[r].ownId
         /\ req'[r].counted = req[r].counted /\ req'[r].forwarded = req[r].forwarded
  BY DEF TypeOK, RequestType, Goto

LEMMA RespondFields ==
  ASSUME TypeOK, NEW r \in Request,
         NEW s \in {"200", "401", "403", "429", "500", "501", "503", "upstream", "aborted"},
         Respond(r, s)
  PROVE  /\ req' \in [Request -> RequestType]
         /\ \A q \in Request \ {r} : req'[q] = req[q]
         /\ req'[r].pc = "done"
         /\ req'[r].in = req[r].in /\ req'[r].gen = req[r].gen /\ req'[r].meta = req[r].meta
         /\ req'[r].app = req[r].app /\ req'[r].skipAppAuth = req[r].skipAppAuth
         /\ req'[r].admin = req[r].admin /\ req'[r].ownId = req[r].ownId
         /\ req'[r].counted = req[r].counted /\ req'[r].forwarded = req[r].forwarded
<1>1. req'[r] = [req[r] EXCEPT !.pc = "done", !.status = s] /\ req[r] \in RequestType
  BY DEF TypeOK, Respond
<1>2. req'[r] \in RequestType
  <2>1. "done" \in Label /\ s \in Status
    BY DEF Label, Status
  <2> QED
    BY <1>1, <2>1 DEF RequestType
<1>3. req' \in [Request -> RequestType] /\ \A q \in Request \ {r} : req'[q] = req[q]
  BY <1>2 DEF TypeOK, Respond
<1> QED
  BY <1>1, <1>3 DEF RequestType

\* A response ends a request: what its progress says of it remains true.
LEMMA Responding ==
  ASSUME IndInv, NEW r \in Request, req[r].pc # "new",
         NEW s \in {"200", "401", "403", "429", "500", "501", "503", "upstream", "aborted"},
         Respond(r, s), UNCHANGED gateVars, ToldGrows
  PROVE  /\ req' \in [Request -> RequestType]
         /\ \A q \in Request \ {r} : req'[q] = req[q]
         /\ Progress(r)'
<1> USE RespondFields DEF IndInv
<1>1. Settled(r)
  BY DEF Settled, gateVars
<1>2. Progress(r)
  OBVIOUS
<1>3. Progress(r)'
  BY <1>1, <1>2, Stable DEF gateVars, Progress, CallsAreNeeded, UserChecked,
     AppChecked, IdDecided, RateCounted, DailyCounted, Resolved, PastUser, PastApp,
     PastClientId, PastAuthorize, PastAdminAuthorize, PastThrottling, AtProxy
<1> QED
  BY <1>3

LEMMA NothingTold == ASSUME UNCHANGED told PROVE ToldGrows
  BY DEF ToldGrows

LEMMA AcceptStep ==
  ASSUME IndInv, NEW r \in Request, NEW in \in Input, Accept(r, in)
  PROVE  IndInv'
<1>1. req[r] = NewRequest /\ req[r] \in RequestType /\ gen \in Gen
  BY DEF IndInv, TypeOK, Progress, Accept, At
<1>2. req'[r] = [NewRequest EXCEPT !.pc = "entrypoint", !.in = in, !.gen = gen]
  BY <1>1 DEF Accept, IndInv, TypeOK
<1>3. req'[r] \in RequestType
  <2>1. "entrypoint" \in Label
    BY DEF Label
  <2>2. NewRequest \in RequestType
    BY <1>1
  <2> QED
    BY <1>1, <1>2, <2>1, <2>2, ZenonT(60) DEF RequestType
<1>4. req' \in [Request -> RequestType] /\ \A q \in Request \ {r} : req'[q] = req[q]
  BY <1>3 DEF Accept, IndInv, TypeOK
<1>5. gen' = gen /\ gen <= gen
  BY DEF Accept, gateVars, IndInv, TypeOK, Gen
<1>6. Progress(r)'
  BY <1>2, <1>5 DEF Progress, NewRequest, CallsAreNeeded, Resolved, PastUser, PastApp,
     PastClientId, PastAuthorize, PastAdminAuthorize, PastThrottling, AtProxy
<1> QED
  BY <1>4, <1>6, OneMovesLocally DEF Accept

LEMMA EntrypointStep ==
  ASSUME IndInv, NEW r \in Request, Entrypoint(r)
  PROVE  IndInv'
<1> DEFINE in == req[r].in
           found == routes[<<in.method, in.path>>]
<1>1. /\ req[r] \in RequestType /\ req[r].pc = "entrypoint" /\ in \in InputType
      /\ UNCHANGED <<gateVars, cache, told>> /\ Progress(r)
  BY GateAssumption DEF IndInv, TypeOK, Entrypoint, At, Progress
<1>2. found \in RouteMeta \cup {None}
  BY <1>1, GateAssumption DEF IndInv, TypeOK, InputType
<1>3. CASE Respond(r, "501")
  BY <1>1, <1>3, NothingTold, Responding, OneMovesLocally
<1>4. ASSUME NEW m \in MetaType, m.userAuth => m.module # None,
             m = found \/ in.location.skipAuth,
             req' = [req EXCEPT ![r].pc = "logger", ![r].meta = m]
      PROVE  IndInv'
  <2>1. req'[r] = [req[r] EXCEPT !.pc = "logger", !.meta = m]
    BY <1>4 DEF IndInv, TypeOK
  <2>2. req'[r] \in RequestType
    <3>1. "logger" \in Label
      BY DEF Label
    <3> QED
      BY <1>1, <2>1, <3>1, ZenonT(60) DEF RequestType
  <2>3. req' \in [Request -> RequestType] /\ \A q \in Request \ {r} : req'[q] = req[q]
    BY <1>4, <2>2 DEF IndInv, TypeOK
  <2>4. /\ req'[r].pc = "logger" /\ req'[r].meta = m /\ m # None
        /\ req'[r].in = req[r].in /\ req'[r].gen = req[r].gen
        /\ req'[r].app = req[r].app /\ req'[r].skipAppAuth = req[r].skipAppAuth
        /\ req'[r].admin = req[r].admin /\ req'[r].ownId = req[r].ownId
        /\ req'[r].counted = req[r].counted /\ req'[r].forwarded = req[r].forwarded
    BY <1>1, <2>1, GateAssumption DEF RequestType
  <2>5. AdminVouched(r) => AdminVouched(r)'
    BY <1>1, <2>4 DEF AdminVouched
  <2>6. Progress(r)'
    BY <1>1, <1>4, <2>4, <2>5 DEF Progress, CallsAreNeeded, gateVars, Resolved, PastUser,
       PastApp, PastClientId, PastAuthorize, PastAdminAuthorize, PastThrottling, AtProxy
  <2> QED
    BY <1>1, <2>3, <2>6, OneMovesLocally
<1>5. UnknownMeta(in.path) \in MetaType /\ ~UnknownMeta(in.path).userAuth
  BY <1>1 DEF UnknownMeta, MetaType, InputType
<1>6. CASE found # None /\ req' = [req EXCEPT ![r].pc = "logger", ![r].meta = found]
  <2>1. found \in MetaType /\ found.module # None
    BY <1>2, <1>6 DEF RouteMeta
  <2> QED
    BY <1>4, <1>6, <2>1
<1>7. CASE /\ found = None /\ in.location.skipAuth
           /\ req' = [req EXCEPT ![r].pc = "logger", ![r].meta = UnknownMeta(in.path)]
  BY <1>4, <1>5, <1>7
<1> QED
  BY <1>3, <1>6, <1>7 DEF Entrypoint

LEMMA LoggedFields ==
  ASSUME NEW q \in RequestType, NEW l \in Label, NEW b \in BOOLEAN, NEW s \in Status
  PROVE  [q EXCEPT !.pc = l, !.bodyLogged = b, !.status = s] \in RequestType
<1>1. [q EXCEPT !.pc = l, !.status = s] \in RequestType
  BY ZenonT(60) DEF RequestType
<1> QED
  BY <1>1, ZenonT(60) DEF RequestType

LEMMA LoggerStep ==
  ASSUME IndInv, NEW r \in Request, Logger(r)
  PROVE  IndInv'
<1>1. /\ req[r] \in RequestType /\ req[r].pc = "logger"
      /\ UNCHANGED <<gateVars, cache, told>> /\ Progress(r)
  BY DEF IndInv, TypeOK, Logger, At
<1>2. ASSUME NEW l \in {"done", "clientId", "user"}, NEW b \in BOOLEAN,
             NEW s \in {req[r].status, "200"}, l = "user" => Guarded(r),
             l = "clientId" => ~Guarded(r),
             req' = [req EXCEPT ![r].pc = l, ![r].bodyLogged = b, ![r].status = s]
      PROVE  IndInv'
  <2>1. req'[r] = [req[r] EXCEPT !.pc = l, !.bodyLogged = b, !.status = s]
    BY <1>2 DEF IndInv, TypeOK
  <2>2. req'[r] \in RequestType
    <3>1. l \in Label
      BY <1>2 DEF Label
    <3>2. s \in Status
      BY <1>1 DEF RequestType, Status
    <3>3. req[r] \in RequestType
      BY <1>1
    <3>4. [req[r] EXCEPT !.pc = l, !.bodyLogged = b, !.status = s] \in RequestType
      BY <3>1, <3>2, <3>3, LoggedFields, ZenonT(60)
    <3> QED
      BY <2>1, <3>4
  <2>3. req' \in [Request -> RequestType] /\ \A q \in Request \ {r} : req'[q] = req[q]
    BY <1>2, <2>2 DEF IndInv, TypeOK
  <2>4. /\ req'[r].pc = l /\ req'[r].meta = req[r].meta
        /\ req'[r].in = req[r].in /\ req'[r].gen = req[r].gen
        /\ req'[r].app = req[r].app /\ req'[r].skipAppAuth = req[r].skipAppAuth
        /\ req'[r].admin = req[r].admin /\ req'[r].ownId = req[r].ownId
        /\ req'[r].counted = req[r].counted /\ req'[r].forwarded = req[r].forwarded
    BY <1>1, <2>1 DEF RequestType
  <2>5. AdminVouched(r) => AdminVouched(r)'
    BY <1>1, <2>4 DEF AdminVouched
  <2>6. Progress(r)'
    BY <1>1, <1>2, <2>4, <2>5 DEF Progress, CallsAreNeeded, gateVars, Resolved, PastUser,
       PastApp, PastClientId, PastAuthorize, PastAdminAuthorize, PastThrottling, AtProxy, Guarded
  <2> QED
    BY <1>1, <2>3, <2>6, OneMovesLocally
<1>3. CASE /\ LogsBody(r) /\ req[r].in.tooLarge
           /\ req' = [req EXCEPT ![r].pc = "done", ![r].bodyLogged = TRUE, ![r].status = "200"]
  BY <1>2, <1>3
<1>4. CASE req' = [req EXCEPT ![r].pc = AfterLogger(r), ![r].bodyLogged = LogsBody(r)]
  <2>1. /\ AfterLogger(r) \in {"clientId", "user"}
        /\ AfterLogger(r) = "user" => Guarded(r)
        /\ AfterLogger(r) = "clientId" => ~Guarded(r)
    BY DEF AfterLogger, Guarded
  <2>2. LogsBody(r) \in BOOLEAN
    BY DEF LogsBody
  <2>3. req' = [req EXCEPT ![r].pc = AfterLogger(r), ![r].bodyLogged = LogsBody(r),
                           ![r].status = req[r].status]
    <3>1. [req[r] EXCEPT !.pc = AfterLogger(r), !.bodyLogged = LogsBody(r)] =
            [req[r] EXCEPT !.pc = AfterLogger(r), !.bodyLogged = LogsBody(r),
                           !.status = req[r].status]
      BY <1>1 DEF RequestType
    <3> QED
      BY <1>4, <3>1 DEF IndInv, TypeOK
  <2> QED
    BY <1>2, <2>1, <2>2, <2>3
<1> QED
  BY <1>3, <1>4 DEF Logger

\* A request that keeps its identity keeps the outcome of its checks.
LEMMA Carried ==
  ASSUME TypeOK, NEW r \in Request, ToldGrows, Settled(r),
         req'[r].app = req[r].app, req'[r].skipAppAuth = req[r].skipAppAuth
  PROVE  /\ UserChecked(r) => UserChecked(r)'
         /\ AppChecked(r) => AppChecked(r)'
         /\ req'[r].ownId = req[r].ownId => (IdDecided(r) => IdDecided(r)')
         /\ req[r].counted \subseteq req'[r].counted =>
              (RateCounted(r) => RateCounted(r)') /\ (DailyCounted(r) => DailyCounted(r)')
<1>1. Conf(r)' = Conf(r) /\ Setting(r)' = Setting(r) /\ AppWaived(r)' = AppWaived(r)
  BY Stable
<1>2. (UserVouched(r) => UserVouched(r)') /\ (AppVouched(r) => AppVouched(r)')
  BY Stable
<1>3. UserChecked(r) => UserChecked(r)'
  BY <1>1, <1>2 DEF UserChecked, Settled
<1>4. AppChecked(r) => AppChecked(r)'
  BY <1>2 DEF AppChecked, Settled
<1>5. req'[r].ownId = req[r].ownId => (IdDecided(r) => IdDecided(r)')
  BY <1>1 DEF IdDecided, Settled
<1>6. req[r].counted \subseteq req'[r].counted =>
        (RateCounted(r) => RateCounted(r)') /\ (DailyCounted(r) => DailyCounted(r)')
  BY <1>1 DEF RateCounted, DailyCounted
<1> QED
  BY <1>3, <1>4, <1>5, <1>6

\* A request goes on to label l and loses nothing of what is established.
Kept(r, l) ==
  /\ req' \in [Request -> RequestType]
  /\ \A q \in Request \ {r} : req'[q] = req[q]
  /\ req'[r].pc = l /\ req'[r].skipAppAuth \in BOOLEAN
  /\ req'[r].in = req[r].in /\ req'[r].gen = req[r].gen /\ req'[r].meta = req[r].meta
  /\ req'[r].app = req[r].app /\ req'[r].skipAppAuth = req[r].skipAppAuth
  /\ req'[r].admin = req[r].admin /\ req'[r].counted = req[r].counted
  /\ req'[r].forwarded = req[r].forwarded
  /\ gen' = gen
  /\ Setting(r)' = Setting(r) /\ Guarded(r)' = Guarded(r) /\ AppWaived(r)' = AppWaived(r)
  /\ UserVouched(r) => UserVouched(r)'
  /\ AdminVouched(r) => AdminVouched(r)'
  /\ Allowed(r) => Allowed(r)'
  /\ InnerAllowed(r) => InnerAllowed(r)'
  /\ Admitted(r) => Admitted(r)'
  /\ UserChecked(r) => UserChecked(r)'
  /\ AppChecked(r) => AppChecked(r)'
  /\ IdDecided(r) => IdDecided(r)'
  /\ RateCounted(r) => RateCounted(r)'
  /\ DailyCounted(r) => DailyCounted(r)'

LEMMA Going ==
  ASSUME IndInv, NEW r \in Request, NEW l \in Label, Goto(r, l), UNCHANGED gateVars, ToldGrows
  PROVE  Kept(r, l)
<1> USE GotoFields DEF IndInv
<1>1. Settled(r)
  BY DEF Settled, gateVars
<1>2. req[r].counted \subseteq req'[r].counted
  OBVIOUS
<1>3. req'[r].skipAppAuth \in BOOLEAN /\ gen' = gen
  BY DEF gateVars, TypeOK, RequestType
<1> QED
  BY <1>1, <1>2, <1>3, Carried, Stable DEF Kept

\* From here on the sets of labels are expanded.
USE DEF Resolved, PastUser, PastApp, PastClientId, PastAuthorize, PastAdminAuthorize,
        PastThrottling, AtProxy

\* A resolved endpoint with user authentication has a setting or none.
LEMMA SettingType ==
  ASSUME IndInv, NEW r \in Request, req[r].pc \in Resolved, req[r].meta.userAuth
  PROVE  Setting(r) \in UserSetting \cup {None}
<1>1. req[r].gen \in Gen /\ req[r].meta \in MetaType /\ req[r].meta.module # None
  BY DEF IndInv, TypeOK, RequestType, Progress
<1>2. Conf(r) \in ConfigType
  BY <1>1, GateAssumption DEF IndInv, TypeOK, Conf
<1> QED
  BY <1>1, <1>2 DEF Setting, ConfigType, MetaType

\* A user the service vouches for, now or earlier, is authenticated.
LEMMA UserPasses ==
  ASSUME IndInv, NEW r \in Request, req[r].pc \in {"user", "userCall"}, req[r].meta.userAuth,
         Setting(r) # None, UserPassed(r), UNCHANGED gateVars, ToldGrows,
         UserKey(r) \in told'.user
  PROVE  /\ req' \in [Request -> RequestType]
         /\ \A q \in Request \ {r} : req'[q] = req[q]
         /\ Progress(r)'
<1> DEFINE skip == Setting(r).skipAppAuth
<1>1. skip \in BOOLEAN
  BY SettingType DEF UserSetting
<1>2. req[r] \in RequestType /\ Progress(r) /\ TypeOK
  BY DEF IndInv, TypeOK
<1>3. req'[r] = [req[r] EXCEPT !.pc = "app", !.user = TRUE, !.skipAppAuth = skip]
  BY <1>2 DEF UserPassed, TypeOK
<1>4. req'[r] \in RequestType
  <2>1. "app" \in Label
    BY DEF Label
  <2> QED
    BY <1>1, <1>2, <1>3, <2>1, ZenonT(60) DEF RequestType
<1>5. req' \in [Request -> RequestType] /\ \A q \in Request \ {r} : req'[q] = req[q]
  BY <1>2, <1>4 DEF TypeOK, UserPassed
<1>6. /\ req'[r].pc = "app" /\ req'[r].meta = req[r].meta
      /\ req'[r].in = req[r].in /\ req'[r].gen = req[r].gen
      /\ req'[r].app = req[r].app /\ req'[r].skipAppAuth = skip
      /\ req'[r].admin = req[r].admin /\ req'[r].ownId = req[r].ownId
      /\ req'[r].counted = req[r].counted /\ req'[r].forwarded = req[r].forwarded
  BY <1>2, <1>3 DEF RequestType
<1>7. Settled(r)
  BY <1>6 DEF Settled, gateVars
<1>8. /\ Setting(r)' = Setting(r) /\ Guarded(r)' = Guarded(r) /\ AppWaived(r)' = AppWaived(r)
      /\ AdminVouched(r) => AdminVouched(r)'
  BY <1>2, <1>7, Stable
<1>9. UserChecked(r)'
  <2>1. UserVouched(r)'
    BY <1>6, <1>8 DEF UserVouched, UserKey
  <2>2. AppWaived(r) = skip
    BY <1>1 DEF AppWaived
  <2> QED
    BY <1>6, <1>8, <2>1, <2>2 DEF UserChecked
<1>10. Progress(r)'
  BY <1>2, <1>6, <1>8, <1>9 DEF gateVars, Progress, CallsAreNeeded
<1> QED
  BY <1>5, <1>10

LEMMA UserAuthenticateStep ==
  ASSUME IndInv, NEW r \in Request, UserAuthenticate(r)
  PROVE  IndInv'
<1>1. /\ req[r].pc = "user" /\ Progress(r) /\ UNCHANGED <<gateVars, cache, told>> /\ ToldGrows
      /\ TypeOK /\ UNCHANGED gateVars /\ UNCHANGED told
  BY DEF IndInv, UserAuthenticate, At, ToldGrows
<1>2. ASSUME NEW s \in {"401", "500"}, Respond(r, s) PROVE IndInv'
  BY <1>1, <1>2, NothingTold, Responding, OneMovesLocally
<1>3. CASE ~req[r].meta.userAuth /\ Goto(r, "app")
  <2>1. Kept(r, "app")
    BY <1>1, <1>3, Going DEF Label
  <2>2. Progress(r)'
    BY <1>1, <1>3, <2>1 DEF Kept, Progress, CallsAreNeeded,
       UserChecked, AppWaived
  <2> QED
    BY <1>1, <2>1, <2>2, OneMovesLocally DEF Kept
<1>4. CASE /\ req[r].meta.userAuth /\ Setting(r) # None /\ req[r].in.user \in UserToken
           /\ Goto(r, "userCall")
  <2>1. Kept(r, "userCall")
    BY <1>1, <1>4, Going DEF Label
  <2>2. Progress(r)'
    BY <1>1, <1>4, <2>1 DEF Kept, Progress, CallsAreNeeded
  <2> QED
    BY <1>1, <2>1, <2>2, OneMovesLocally DEF Kept
<1>5. CASE /\ req[r].meta.userAuth /\ Setting(r) # None
           /\ UserKey(r) \in cache.user /\ UserPassed(r)
  <2>1. UserKey(r) \in told'.user
    BY <1>1, <1>5 DEF IndInv, CacheSound
  <2> QED
    BY <1>1, <1>5, <2>1, UserPasses, OneMovesLocally
<1> QED
  BY <1>2, <1>3, <1>4, <1>5 DEF UserAuthenticate

LEMMA UserReplyStep ==
  ASSUME IndInv, NEW r \in Request, NEW o \in Outcome, UserReply(r, o)
  PROVE  IndInv'
<1>1. /\ req[r].pc = "userCall" /\ Progress(r) /\ TypeOK /\ UNCHANGED gateVars
      /\ req[r].meta.userAuth /\ Setting(r) # None /\ req[r].in.user \in UserToken
  BY DEF IndInv, UserReply, At, Progress, CallsAreNeeded
<1>2. ASSUME NEW s \in {"401", "500", "aborted"}, Respond(r, s), UNCHANGED <<cache, told>>
      PROVE  IndInv'
  BY <1>1, <1>2, NothingTold, Responding, OneMovesLocally
<1>3. CASE /\ told' = [told EXCEPT !.user = @ \cup {UserKey(r)}]
           /\ cache' = [cache EXCEPT !.user = IF Setting(r).cached THEN @ \cup {UserKey(r)} ELSE @]
           /\ UserPassed(r)
  <2>1. UserKey(r) \in AuthEndpoint \X UserToken
    BY <1>1, SettingType DEF UserKey, UserSetting
  <2>2. /\ told'.user = told.user \cup {UserKey(r)} /\ told'.app = told.app
        /\ told'.authz = told.authz /\ told'.perm = told.perm /\ told'.admin = told.admin
        /\ cache'.user \subseteq cache.user \cup {UserKey(r)} /\ cache'.app = cache.app
        /\ cache'.authz = cache.authz /\ cache'.perm = cache.perm
    BY <1>1, <1>3 DEF TypeOK, AnswerType
  <2>3. told' \in AnswerType /\ cache' \in AnswerType
    BY <1>1, <1>3, <2>1 DEF TypeOK, AnswerType
  <2>4. ToldGrows /\ CacheSound'
    BY <2>2 DEF ToldGrows, CacheSound, IndInv
  <2> QED
    BY <1>1, <1>3, <2>2, <2>3, <2>4, UserPasses, OneMoves
<1> QED
  BY <1>2, <1>3 DEF UserReply

\* The application token a client may send.
LEMMA TokenType ==
  ASSUME IndInv, NEW r \in Request, req[r].pc # "new", AppToken(req[r].in) # None
  PROVE  /\ AppToken(req[r].in) \in Token
         /\ AppOf[AppToken(req[r].in)] \in App
         /\ req[r].gen \in Gen
<1>1. req[r].in \in InputType /\ req[r].gen \in Gen
  BY GateAssumption DEF IndInv, Progress, TypeOK, RequestType
<1>2. AppToken(req[r].in) \in Token
  BY <1>1 DEF AppToken, InputType
<1> QED
  BY <1>1, <1>2, GateAssumption

\* An application the service vouches for, now or earlier, is authenticated
\* unless the client called it by another name.
LEMMA AppPasses ==
  ASSUME IndInv, NEW r \in Request, req[r].pc \in {"app", "appCall"}, ~req[r].skipAppAuth,
         ~NameMissing(req[r].in), AppToken(req[r].in) # None, AppAnswered(r),
         UNCHANGED gateVars, ToldGrows, AppToken(req[r].in) \in told'.app[req[r].gen]
  PROVE  /\ req' \in [Request -> RequestType]
         /\ \A q \in Request \ {r} : req'[q] = req[q]
         /\ Progress(r)'
<1> DEFINE app == AppOf[AppToken(req[r].in)]
<1>1. app \in App
  BY TokenType
<1>2. req[r] \in RequestType /\ Progress(r) /\ TypeOK
  BY DEF IndInv, TypeOK
<1>3. CASE Respond(r, "401")
  BY <1>3, Responding
<1>4. CASE /\ AppName(req[r].in) \in {None, app}
           /\ req' = [req EXCEPT ![r].pc = "admin", ![r].app = app]
  <2>1. req'[r] = [req[r] EXCEPT !.pc = "admin", !.app = app]
    BY <1>2, <1>4 DEF TypeOK
  <2>2. req'[r] \in RequestType
    <3>1. "admin" \in Label
      BY DEF Label
    <3> QED
      BY <1>1, <1>2, <2>1, <3>1, ZenonT(60) DEF RequestType
  <2>3. req' \in [Request -> RequestType] /\ \A q \in Request \ {r} : req'[q] = req[q]
    BY <1>2, <1>4, <2>2 DEF TypeOK
  <2>4. /\ req'[r].pc = "admin" /\ req'[r].meta = req[r].meta
        /\ req'[r].in = req[r].in /\ req'[r].gen = req[r].gen
        /\ req'[r].app = app /\ req'[r].skipAppAuth = req[r].skipAppAuth
        /\ req'[r].admin = req[r].admin /\ req'[r].ownId = req[r].ownId
        /\ req'[r].counted = req[r].counted /\ req'[r].forwarded = req[r].forwarded
    BY <1>2, <2>1 DEF RequestType
  <2>5. Settled(r)
    BY <2>4 DEF Settled, gateVars
  <2>6. /\ Setting(r)' = Setting(r) /\ Guarded(r)' = Guarded(r) /\ AppWaived(r)' = AppWaived(r)
        /\ AdminVouched(r) => AdminVouched(r)'
        /\ UserVouched(r) => UserVouched(r)'
    BY <1>2, <2>5, Stable
  <2>7. AppChecked(r)'
    BY <1>4, <2>4 DEF AppChecked, AppVouched
  <2>8. UserChecked(r) => UserChecked(r)'
    BY <2>4, <2>6 DEF UserChecked
  <2>9. Progress(r)'
    BY <1>2, <2>4, <2>6, <2>7, <2>8 DEF gateVars, Progress, CallsAreNeeded
  <2> QED
    BY <2>3, <2>9
<1> QED
  BY <1>3, <1>4 DEF AppAnswered

LEMMA AuthenticateStep ==
  ASSUME IndInv, NEW r \in Request, Authenticate(r)
  PROVE  IndInv'
<1>1. /\ req[r].pc = "app" /\ Progress(r) /\ UNCHANGED <<gateVars, cache, told>> /\ ToldGrows
      /\ TypeOK /\ UNCHANGED gateVars /\ UNCHANGED told
  BY DEF IndInv, Authenticate, At, ToldGrows
<1>2. CASE Respond(r, "401")
  BY <1>1, <1>2, Responding, OneMovesLocally
<1>3. CASE req[r].skipAppAuth /\ Goto(r, "admin")
  <2>1. Kept(r, "admin")
    BY <1>1, <1>3, Going DEF Label
  <2>2. Progress(r)'
    BY <1>1, <1>3, <2>1 DEF Kept, Progress, CallsAreNeeded, AppChecked
  <2> QED
    BY <1>1, <2>1, <2>2, OneMovesLocally DEF Kept
<1>4. CASE /\ ~req[r].skipAppAuth /\ ~NameMissing(req[r].in) /\ AppToken(req[r].in) # None
           /\ Goto(r, "appCall")
  <2>1. Kept(r, "appCall")
    BY <1>1, <1>4, Going DEF Label
  <2>2. Progress(r)'
    BY <1>1, <1>4, <2>1 DEF Kept, Progress, CallsAreNeeded
  <2> QED
    BY <1>1, <2>1, <2>2, OneMovesLocally DEF Kept
<1>5. CASE /\ ~req[r].skipAppAuth /\ ~NameMissing(req[r].in) /\ AppToken(req[r].in) # None
           /\ AppToken(req[r].in) \in cache.app[req[r].gen] /\ AppAnswered(r)
  <2>1. AppToken(req[r].in) \in told'.app[req[r].gen]
    BY <1>1, <1>5, TokenType DEF IndInv, CacheSound
  <2> QED
    BY <1>1, <1>5, <2>1, AppPasses, OneMovesLocally
<1> QED
  BY <1>2, <1>3, <1>4, <1>5 DEF Authenticate

LEMMA AppReplyStep ==
  ASSUME IndInv, NEW r \in Request, NEW o \in Outcome, AppReply(r, o)
  PROVE  IndInv'
<1> DEFINE n == req[r].gen
           token == AppToken(req[r].in)
<1>1. /\ req[r].pc = "appCall" /\ Progress(r) /\ TypeOK /\ UNCHANGED gateVars
      /\ ~req[r].skipAppAuth /\ ~NameMissing(req[r].in) /\ token # None
  BY DEF IndInv, AppReply, At, Progress, CallsAreNeeded
<1>2. ASSUME NEW s \in {"401", "500", "aborted"}, Respond(r, s), UNCHANGED <<cache, told>>
      PROVE  IndInv'
  BY <1>1, <1>2, NothingTold, Responding, OneMovesLocally
<1>3. CASE /\ told' = [told EXCEPT !.app[n] = @ \cup {token}]
           /\ cache' = [cache EXCEPT !.app[n] = @ \cup {token}]
           /\ AppAnswered(r)
  <2>1. token \in Token /\ n \in Gen
    BY <1>1, TokenType
  <2>2. /\ told'.app = [told.app EXCEPT ![n] = @ \cup {token}] /\ told'.user = told.user
        /\ told'.authz = told.authz /\ told'.perm = told.perm /\ told'.admin = told.admin
        /\ cache'.app = [cache.app EXCEPT ![n] = @ \cup {token}] /\ cache'.user = cache.user
        /\ cache'.authz = cache.authz /\ cache'.perm = cache.perm
    BY <1>1, <1>3 DEF TypeOK, AnswerType
  <2>3. told' \in AnswerType /\ cache' \in AnswerType
    BY <1>1, <1>3, <2>1 DEF TypeOK, AnswerType
  <2>4. ToldGrows /\ CacheSound' /\ token \in told'.app[n]
    BY <1>1, <2>1, <2>2 DEF ToldGrows, CacheSound, IndInv, TypeOK, AnswerType
  <2> QED
    BY <1>1, <1>3, <2>3, <2>4, AppPasses, OneMoves
<1> QED
  BY <1>2, <1>3 DEF AppReply

LEMMA AdminAuthenticateStep ==
  ASSUME IndInv, NEW r \in Request, AdminAuthenticate(r)
  PROVE  IndInv'
<1>1. /\ req[r].pc = "admin" /\ Progress(r) /\ UNCHANGED <<gateVars, cache, told>> /\ ToldGrows
      /\ UNCHANGED gateVars
  BY DEF IndInv, AdminAuthenticate, At, ToldGrows
<1>2. ASSUME NEW l \in {"clientId", "adminCall"}, l = "adminCall" => req[r].in.admin # None,
             Goto(r, l)
      PROVE  IndInv'
  <2>1. Kept(r, l)
    BY <1>1, <1>2, Going DEF Label
  <2>2. Progress(r)'
    BY <1>1, <1>2, <2>1 DEF Kept, Progress, CallsAreNeeded
  <2> QED
    BY <1>1, <2>1, <2>2, OneMovesLocally DEF Kept
<1> QED
  BY <1>2 DEF AdminAuthenticate

LEMMA AdminReplyStep ==
  ASSUME IndInv, NEW r \in Request, NEW o \in Outcome, AdminReply(r, o)
  PROVE  IndInv'
<1> DEFINE admin == AdminOf[req[r].in.admin]
<1>1. /\ req[r].pc = "adminCall" /\ Progress(r) /\ TypeOK /\ UNCHANGED gateVars
      /\ UNCHANGED cache /\ req[r] \in RequestType /\ req[r].in.admin # None
      /\ req[r].in \in Input
  BY DEF IndInv, AdminReply, At, Progress, CallsAreNeeded, TypeOK
<1>2. CASE Respond(r, "401") /\ UNCHANGED told
  BY <1>1, <1>2, NothingTold, Responding, OneMovesLocally
<1>3. CASE /\ told' = [told EXCEPT !.admin = @ \cup {req[r].in.admin}]
           /\ req' = [req EXCEPT ![r].pc = "clientId", ![r].admin = admin]
  <2>1. req[r].in.admin \in AdminToken /\ admin \in Admin
    BY <1>1, GateAssumption DEF InputType
  <2>2. /\ told'.admin = told.admin \cup {req[r].in.admin} /\ told'.app = told.app
        /\ told'.authz = told.authz /\ told'.perm = told.perm /\ told'.user = told.user
    BY <1>1, <1>3 DEF TypeOK, AnswerType
  <2>3. told' \in AnswerType /\ cache' \in AnswerType
    BY <1>1, <1>3, <2>1 DEF TypeOK, AnswerType
  <2>4. ToldGrows /\ CacheSound'
    BY <1>1, <2>2 DEF ToldGrows, CacheSound, IndInv
  <2>5. req'[r] = [req[r] EXCEPT !.pc = "clientId", !.admin = admin]
    BY <1>1, <1>3 DEF TypeOK
  <2>6. req'[r] \in RequestType
    <3>1. "clientId" \in Label
      BY DEF Label
    <3> QED
      BY <1>1, <2>1, <2>5, <3>1, ZenonT(60) DEF RequestType
  <2>7. req' \in [Request -> RequestType] /\ \A q \in Request \ {r} : req'[q] = req[q]
    BY <1>1, <1>3, <2>6 DEF TypeOK
  <2>8. /\ req'[r].pc = "clientId" /\ req'[r].meta = req[r].meta
        /\ req'[r].in = req[r].in /\ req'[r].gen = req[r].gen
        /\ req'[r].app = req[r].app /\ req'[r].skipAppAuth = req[r].skipAppAuth
        /\ req'[r].admin = admin /\ req'[r].ownId = req[r].ownId
        /\ req'[r].counted = req[r].counted /\ req'[r].forwarded = req[r].forwarded
    BY <1>1, <2>5 DEF RequestType
  <2>9. Settled(r)
    BY <1>1, <2>8 DEF Settled, gateVars
  <2>10. /\ Guarded(r)' = Guarded(r) /\ AdminVouched(r)'
         /\ UserChecked(r) => UserChecked(r)'
         /\ AppChecked(r) => AppChecked(r)'
    BY <1>1, <2>2, <2>4, <2>8, <2>9, Stable, Carried DEF AdminVouched
  <2>11. Progress(r)'
    BY <1>1, <2>8, <2>10 DEF gateVars, Progress, CallsAreNeeded
  <2> QED
    BY <1>1, <2>3, <2>4, <2>7, <2>11, OneMoves
<1> QED
  BY <1>2, <1>3 DEF AdminReply

LEMMA ClientRequestIdStep ==
  ASSUME IndInv, NEW r \in Request, ClientRequestId(r)
  PROVE  IndInv'
<1> DEFINE forward == /\ req[r].in.clientId
                      /\ Conf(r).forwardId \/ req[r].app \in Conf(r).forwardIdByApp
<1>1. /\ req[r].pc = "clientId" /\ Progress(r) /\ UNCHANGED <<gateVars, cache, told>>
      /\ UNCHANGED gateVars /\ TypeOK /\ req[r] \in RequestType /\ ToldGrows
  BY DEF IndInv, ClientRequestId, At, TypeOK, ToldGrows
<1>2. ASSUME NEW l \in {"proxy", "authorize"}, NEW own \in BOOLEAN, own <=> ~forward,
             l = "authorize" => Guarded(r), l = "proxy" => ~Guarded(r),
             req' = [req EXCEPT ![r].pc = l, ![r].ownId = own]
      PROVE  IndInv'
  <2>1. req'[r] = [req[r] EXCEPT !.pc = l, !.ownId = own]
    BY <1>1, <1>2 DEF TypeOK
  <2>2. req'[r] \in RequestType
    <3>1. l \in Label
      BY <1>2 DEF Label
    <3> QED
      BY <1>1, <2>1, <3>1, ZenonT(60) DEF RequestType
  <2>3. req' \in [Request -> RequestType] /\ \A q \in Request \ {r} : req'[q] = req[q]
    BY <1>1, <1>2, <2>2 DEF TypeOK
  <2>4. /\ req'[r].pc = l /\ req'[r].meta = req[r].meta
        /\ req'[r].in = req[r].in /\ req'[r].gen = req[r].gen
        /\ req'[r].app = req[r].app /\ req'[r].skipAppAuth = req[r].skipAppAuth
        /\ req'[r].admin = req[r].admin /\ req'[r].ownId = own
        /\ req'[r].counted = req[r].counted /\ req'[r].forwarded = req[r].forwarded
    BY <1>1, <2>1 DEF RequestType
  <2>5. Settled(r)
    BY <1>1, <2>4 DEF Settled, gateVars
  <2>6. /\ Guarded(r)' = Guarded(r) /\ Conf(r)' = Conf(r)
        /\ AdminVouched(r) => AdminVouched(r)'
        /\ UserChecked(r) => UserChecked(r)'
        /\ AppChecked(r) => AppChecked(r)'
    BY <1>1, <2>4, <2>5, Stable, Carried
  <2>7. IdDecided(r)'
    BY <1>2, <2>4, <2>6 DEF IdDecided
  <2>8. Progress(r)'
    BY <1>1, <1>2, <2>4, <2>6, <2>7 DEF gateVars, Progress, CallsAreNeeded
  <2> QED
    BY <1>1, <2>3, <2>8, OneMovesLocally
<1>3. /\ AfterClientId(r) \in {"proxy", "authorize"}
      /\ AfterClientId(r) = "authorize" => Guarded(r)
      /\ AfterClientId(r) = "proxy" => ~Guarded(r)
  BY DEF AfterClientId, Guarded
<1>4. req' = [req EXCEPT ![r].pc = AfterClientId(r), ![r].ownId = ~forward]
  BY DEF ClientRequestId
<1> QED
  BY <1>2, <1>3, <1>4

LEMMA AuthorizeStep ==
  ASSUME IndInv, NEW r \in Request, Authorize(r)
  PROVE  IndInv'
<1>1. /\ req[r].pc = "authorize" /\ Progress(r) /\ UNCHANGED <<gateVars, cache, told>>
      /\ ToldGrows /\ UNCHANGED gateVars /\ Guarded(r) /\ AppChecked(r) /\ req[r].gen \in Gen
  BY DEF IndInv, Authorize, At, ToldGrows, Progress, TypeOK, RequestType
<1>2. CASE Goto(r, "adminAuthorize") /\ (req[r].skipAppAuth \/ AuthzKey(r) \in cache.authz[req[r].gen])
  <2>1. Kept(r, "adminAuthorize")
    BY <1>1, <1>2, Going DEF Label
  <2>2. req[r].skipAppAuth \/ Allowed(r)
    BY <1>1, <1>2 DEF AppChecked, Allowed, AuthzKey, IndInv, CacheSound
  <2>3. Progress(r)'
    BY <1>1, <2>1, <2>2 DEF Kept, Progress, CallsAreNeeded
  <2> QED
    BY <1>1, <2>1, <2>3, OneMovesLocally DEF Kept
<1>3. CASE Goto(r, "authorizeCall") /\ ~req[r].skipAppAuth
  <2>1. Kept(r, "authorizeCall")
    BY <1>1, <1>3, Going DEF Label
  <2>2. Progress(r)'
    BY <1>1, <1>3, <2>1 DEF Kept, Progress, CallsAreNeeded
  <2> QED
    BY <1>1, <2>1, <2>2, OneMovesLocally DEF Kept
<1> QED
  BY <1>2, <1>3 DEF Authorize

LEMMA AuthorizeReplyStep ==
  ASSUME IndInv, NEW r \in Request, NEW o \in Outcome, AuthorizeReply(r, o)
  PROVE  IndInv'
<1> DEFINE n == req[r].gen
           key == <<req[r].app, req[r].in.method, req[r].meta.schema>>
<1>1. /\ req[r].pc = "authorizeCall" /\ Progress(r) /\ TypeOK /\ UNCHANGED gateVars
      /\ Guarded(r) /\ ~req[r].skipAppAuth /\ AppChecked(r) /\ req[r].in \in Input
      /\ n \in Gen /\ req[r].meta \in MetaType
  BY DEF IndInv, AuthorizeReply, At, Progress, CallsAreNeeded, TypeOK, RequestType
<1>2. ASSUME NEW s \in {"403", "500"}, Respond(r, s), UNCHANGED <<cache, told>> PROVE IndInv'
  BY <1>1, <1>2, NothingTold, Responding, OneMovesLocally
<1>3. CASE req[r].admin # None /\ Goto(r, "adminAuthorize") /\ UNCHANGED <<cache, told>>
  <2>1. Kept(r, "adminAuthorize")
    BY <1>1, <1>3, NothingTold, Going DEF Label
  <2>2. Progress(r)'
    BY <1>1, <1>3, <2>1 DEF Kept, Progress, CallsAreNeeded
  <2> QED
    BY <1>1, <1>3, <2>1, <2>2, OneMovesLocally DEF Kept
<1>4. CASE /\ told' = [told EXCEPT !.authz[n] = @ \cup {key}]
           /\ cache' = [cache EXCEPT !.authz[n] = @ \cup {AuthzKey(r)}]
           /\ Goto(r, "adminAuthorize")
  <2>1. req[r].app \in App
    BY <1>1, TokenType DEF AppChecked, AppVouched
  <2>2. key \in App \X Method \X (Schema \cup {None}) /\ AuthzKey(r) = key
    BY <1>1, <2>1, GateAssumption DEF AuthzKey, InputType, MetaType
  <2>3. /\ told'.authz = [told.authz EXCEPT ![n] = @ \cup {key}] /\ told'.user = told.user
        /\ told'.app = told.app /\ told'.perm = told.perm /\ told'.admin = told.admin
        /\ cache'.authz = [cache.authz EXCEPT ![n] = @ \cup {key}] /\ cache'.user = cache.user
        /\ cache'.app = cache.app /\ cache'.perm = cache.perm
    BY <1>1, <1>4, <2>2 DEF TypeOK, AnswerType
  <2>4. told' \in AnswerType /\ cache' \in AnswerType
    BY <1>1, <1>4, <2>2 DEF TypeOK, AnswerType
  <2>5. ToldGrows /\ CacheSound' /\ key \in told'.authz[n]
    BY <1>1, <2>3 DEF ToldGrows, CacheSound, IndInv, TypeOK, AnswerType
  <2>6. Kept(r, "adminAuthorize")
    BY <1>1, <1>4, <2>5, Going DEF Label
  <2>7. Allowed(r)'
    BY <1>1, <2>5, <2>6 DEF Allowed, AppChecked, Kept
  <2>8. Progress(r)'
    BY <1>1, <2>6, <2>7 DEF Kept, Progress, CallsAreNeeded
  <2> QED
    BY <1>1, <2>4, <2>5, <2>6, <2>8, OneMoves DEF Kept
<1> QED
  BY <1>2, <1>3, <1>4 DEF AuthorizeReply

LEMMA AdminAuthorizeStep ==
  ASSUME IndInv, NEW r \in Request, AdminAuthorize(r)
  PROVE  IndInv'
<1>1. /\ req[r].pc = "adminAuthorize" /\ Progress(r) /\ UNCHANGED <<gateVars, cache, told>>
      /\ ToldGrows /\ UNCHANGED gateVars /\ Guarded(r) /\ req[r].gen \in Gen
  BY DEF IndInv, AdminAuthorize, At, ToldGrows, Progress, TypeOK, RequestType
<1>2. CASE Respond(r, "403")
  BY <1>1, <1>2, Responding, OneMovesLocally
<1>3. CASE /\ Goto(r, "throttling")
           /\ \/ ~req[r].meta.inner
              \/ req[r].admin # None /\ req[r].meta.perm = None
              \/ req[r].admin # None /\ PermKey(r) \in cache.perm[req[r].gen]
  <2>1. Kept(r, "throttling")
    BY <1>1, <1>3, Going DEF Label
  <2>2. req[r].meta.inner => InnerAllowed(r)
    BY <1>1, <1>3 DEF Progress, InnerAllowed, PermKey, IndInv, CacheSound
  <2>3. Progress(r)'
    BY <1>1, <2>1, <2>2 DEF Kept, Progress, CallsAreNeeded
  <2> QED
    BY <1>1, <2>1, <2>3, OneMovesLocally DEF Kept
<1>4. CASE /\ Goto(r, "permCall") /\ req[r].meta.inner /\ req[r].admin # None
           /\ req[r].meta.perm # None
  <2>1. Kept(r, "permCall")
    BY <1>1, <1>4, Going DEF Label
  <2>2. Progress(r)'
    BY <1>1, <1>4, <2>1 DEF Kept, Progress, CallsAreNeeded
  <2> QED
    BY <1>1, <2>1, <2>2, OneMovesLocally DEF Kept
<1> QED
  BY <1>2, <1>3, <1>4 DEF AdminAuthorize

LEMMA PermReplyStep ==
  ASSUME IndInv, NEW r \in Request, NEW o \in Outcome, PermReply(r, o)
  PROVE  IndInv'
<1> DEFINE n == req[r].gen
           key == <<req[r].admin, req[r].meta.perm>>
<1>1. /\ req[r].pc = "permCall" /\ Progress(r) /\ TypeOK /\ UNCHANGED gateVars
      /\ Guarded(r) /\ req[r].admin # None /\ req[r].meta.perm # None
      /\ n \in Gen /\ req[r].meta \in MetaType /\ req[r].admin \in Admin
  BY DEF IndInv, PermReply, At, Progress, CallsAreNeeded, TypeOK, RequestType
<1>2. ASSUME NEW s \in {"403", "500"}, Respond(r, s), UNCHANGED <<cache, told>> PROVE IndInv'
  BY <1>1, <1>2, NothingTold, Responding, OneMovesLocally
<1>3. CASE /\ told' = [told EXCEPT !.perm[n] = @ \cup {key}]
           /\ cache' = [cache EXCEPT !.perm[n] = @ \cup {key}]
           /\ Goto(r, "throttling")
  <2>1. key \in Admin \X Perm
    BY <1>1 DEF MetaType
  <2>2. /\ told'.perm = [told.perm EXCEPT ![n] = @ \cup {key}] /\ told'.user = told.user
        /\ told'.app = told.app /\ told'.authz = told.authz /\ told'.admin = told.admin
        /\ cache'.perm = [cache.perm EXCEPT ![n] = @ \cup {key}] /\ cache'.user = cache.user
        /\ cache'.app = cache.app /\ cache'.authz = cache.authz
    BY <1>1, <1>3 DEF TypeOK, AnswerType
  <2>3. told' \in AnswerType /\ cache' \in AnswerType
    BY <1>1, <1>3, <2>1 DEF TypeOK, AnswerType
  <2>4. ToldGrows /\ CacheSound' /\ key \in told'.perm[n]
    BY <1>1, <2>2 DEF ToldGrows, CacheSound, IndInv, TypeOK, AnswerType
  <2>5. Kept(r, "throttling")
    BY <1>1, <1>3, <2>4, Going DEF Label
  <2>6. InnerAllowed(r)'
    BY <1>1, <2>4, <2>5 DEF InnerAllowed, Kept, Progress
  <2>7. Progress(r)'
    BY <1>1, <2>5, <2>6 DEF Kept, Progress, CallsAreNeeded
  <2> QED
    BY <1>1, <2>3, <2>4, <2>5, <2>7, OneMoves DEF Kept
<1> QED
  BY <1>2, <1>3 DEF PermReply, PermKey

\* Behind AdminAuthorize, every check has been passed.
LEMMA AllChecked ==
  ASSUME IndInv, NEW r \in Request, req[r].pc \in PastAdminAuthorize, Guarded(r)
  PROVE  Admitted(r)
<1>1. /\ UserChecked(r) /\ AppChecked(r)
      /\ req[r].skipAppAuth \/ Allowed(r) \/ AdminVouched(r)
      /\ req[r].meta.inner => InnerAllowed(r)
  BY DEF IndInv, Progress
<1> QED
  BY <1>1 DEF Admitted, UserChecked, AppChecked

\* isp-lock-service counts the request.
CountStep(r, l, k) == req' = [req EXCEPT ![r].pc = l, ![r].counted = @ \cup {k}]

LEMMA Counts ==
  ASSUME IndInv, NEW r \in Request, NEW l \in Label, NEW k \in {"rate", "daily"},
         <<req[r].pc, l, k>> \in {<<"throttling", "throttlingCall", "rate">>,
                                  <<"dailyLimit", "dailyLimitCall", "daily">>},
         ~req[r].skipAppAuth, UNCHANGED <<gateVars, cache, told>>, CountStep(r, l, k)
  PROVE  IndInv'
<1>1. /\ Progress(r) /\ TypeOK /\ req[r] \in RequestType /\ ToldGrows /\ Guarded(r)
  BY DEF IndInv, TypeOK, ToldGrows, Progress
<1>2. PICK c \in SUBSET {"rate", "daily"} :
        /\ c = req[r].counted \cup {k}
        /\ req'[r] = [req[r] EXCEPT !.pc = l, !.counted = c]
  <2>1. req'[r] = [req[r] EXCEPT !.pc = l, !.counted = req[r].counted \cup {k}]
    BY <1>1 DEF TypeOK, CountStep
  <2>2. req[r].counted \cup {k} \in SUBSET {"rate", "daily"}
    BY <1>1 DEF RequestType
  <2> QED
    BY <2>1, <2>2
<1>3. req'[r] \in RequestType
  BY <1>1, <1>2, ZenonT(60) DEF RequestType
<1>4. req' \in [Request -> RequestType] /\ \A q \in Request \ {r} : req'[q] = req[q]
  BY <1>1, <1>3 DEF TypeOK, CountStep
<1>5. /\ req'[r].pc = l /\ req'[r].meta = req[r].meta
      /\ req'[r].in = req[r].in /\ req'[r].gen = req[r].gen
      /\ req'[r].app = req[r].app /\ req'[r].skipAppAuth = req[r].skipAppAuth
      /\ req'[r].admin = req[r].admin /\ req'[r].ownId = req[r].ownId
      /\ req'[r].counted = c /\ req'[r].forwarded = req[r].forwarded
  BY <1>1, <1>2 DEF RequestType
<1>6. Settled(r)
  BY <1>5 DEF Settled, gateVars
<1>7. /\ Guarded(r)' = Guarded(r)
      /\ AdminVouched(r) => AdminVouched(r)'
      /\ Allowed(r) => Allowed(r)'
      /\ InnerAllowed(r) => InnerAllowed(r)'
      /\ Admitted(r) => Admitted(r)'
  BY <1>1, <1>6, Stable
<1>8. /\ UserChecked(r) => UserChecked(r)'
      /\ AppChecked(r) => AppChecked(r)'
      /\ IdDecided(r) => IdDecided(r)'
      /\ RateCounted(r) => RateCounted(r)'
  BY <1>1, <1>2, <1>5, <1>6, Carried
<1>9. Admitted(r)
  BY <1>1, AllChecked
<1>10. Progress(r)'
  BY <1>1, <1>2, <1>5, <1>7, <1>8, <1>9 DEF gateVars, Progress, CallsAreNeeded
<1> QED
  BY <1>4, <1>10, OneMovesLocally

\* A request without an application meets no limit.
LEMMA NoneUnlimited ==
  ASSUME IndInv, NEW r \in Request
  PROVE  None \notin Conf(r).throttled /\ None \notin Conf(r).dailyLimited
<1>1. Conf(r) \in ConfigType
  BY GateAssumption DEF IndInv, TypeOK, RequestType, Conf
<1> QED
  BY <1>1, GateAssumption DEF ConfigType

LEMMA ThrottlingStep ==
  ASSUME IndInv, NEW r \in Request, Throttling(r)
  PROVE  IndInv'
<1>1. /\ req[r].pc = "throttling" /\ Progress(r) /\ UNCHANGED <<gateVars, cache, told>>
      /\ ToldGrows /\ UNCHANGED gateVars /\ Guarded(r) /\ AppChecked(r)
  BY DEF IndInv, Throttling, At, ToldGrows, Progress
<1>2. CASE /\ req[r].skipAppAuth \/ req[r].app \notin Conf(r).throttled
           /\ Goto(r, "dailyLimit")
  <2>1. Kept(r, "dailyLimit")
    BY <1>1, <1>2, Going DEF Label
  <2>2. RateCounted(r)
    BY <1>1, <1>2, NoneUnlimited DEF RateCounted, AppChecked
  <2>3. Progress(r)'
    BY <1>1, <2>1, <2>2 DEF Kept, Progress, CallsAreNeeded
  <2> QED
    BY <1>1, <2>1, <2>3, OneMovesLocally DEF Kept
<1>3. CASE ~req[r].skipAppAuth /\ CountStep(r, "throttlingCall", "rate")
  BY <1>1, <1>3, Counts DEF Label
<1> QED
  BY <1>2, <1>3 DEF Throttling, CountStep

LEMMA ThrottlingReplyStep ==
  ASSUME IndInv, NEW r \in Request, NEW o \in Outcome, ThrottlingReply(r, o)
  PROVE  IndInv'
<1>1. /\ req[r].pc = "throttlingCall" /\ Progress(r) /\ UNCHANGED <<gateVars, cache, told>>
      /\ ToldGrows /\ UNCHANGED gateVars /\ Guarded(r) /\ RateCounted(r)
  BY DEF IndInv, ThrottlingReply, At, ToldGrows, Progress, CallsAreNeeded, RateCounted
<1>2. ASSUME NEW s \in {"429", "500"}, Respond(r, s) PROVE IndInv'
  BY <1>1, <1>2, Responding, OneMovesLocally
<1>3. CASE Goto(r, "dailyLimit")
  <2>1. Kept(r, "dailyLimit")
    BY <1>1, <1>3, Going DEF Label
  <2>2. Progress(r)'
    BY <1>1, <2>1 DEF Kept, Progress, CallsAreNeeded
  <2> QED
    BY <1>1, <2>1, <2>2, OneMovesLocally DEF Kept
<1> QED
  BY <1>2, <1>3 DEF ThrottlingReply

LEMMA DailyLimitStep ==
  ASSUME IndInv, NEW r \in Request, DailyLimit(r)
  PROVE  IndInv'
<1>1. /\ req[r].pc = "dailyLimit" /\ Progress(r) /\ UNCHANGED <<gateVars, cache, told>>
      /\ ToldGrows /\ UNCHANGED gateVars /\ Guarded(r) /\ AppChecked(r)
  BY DEF IndInv, DailyLimit, At, ToldGrows, Progress
<1>2. CASE /\ req[r].skipAppAuth \/ req[r].app \notin Conf(r).dailyLimited
           /\ Goto(r, "proxy")
  <2>1. Kept(r, "proxy")
    BY <1>1, <1>2, Going DEF Label
  <2>2. DailyCounted(r)
    BY <1>1, <1>2, NoneUnlimited DEF DailyCounted, AppChecked
  <2>3. Progress(r)'
    BY <1>1, <2>1, <2>2 DEF Kept, Progress, CallsAreNeeded
  <2> QED
    BY <1>1, <2>1, <2>3, OneMovesLocally DEF Kept
<1>3. CASE ~req[r].skipAppAuth /\ CountStep(r, "dailyLimitCall", "daily")
  BY <1>1, <1>3, Counts DEF Label
<1> QED
  BY <1>2, <1>3 DEF DailyLimit, CountStep

LEMMA DailyLimitReplyStep ==
  ASSUME IndInv, NEW r \in Request, NEW o \in Outcome, DailyLimitReply(r, o)
  PROVE  IndInv'
<1>1. /\ req[r].pc = "dailyLimitCall" /\ Progress(r) /\ UNCHANGED <<gateVars, cache, told>>
      /\ ToldGrows /\ UNCHANGED gateVars /\ Guarded(r) /\ DailyCounted(r)
  BY DEF IndInv, DailyLimitReply, At, ToldGrows, Progress, CallsAreNeeded, DailyCounted
<1>2. ASSUME NEW s \in {"429", "500"}, Respond(r, s) PROVE IndInv'
  BY <1>1, <1>2, Responding, OneMovesLocally
<1>3. CASE Goto(r, "proxy")
  <2>1. Kept(r, "proxy")
    BY <1>1, <1>3, Going DEF Label
  <2>2. Progress(r)'
    BY <1>1, <2>1 DEF Kept, Progress, CallsAreNeeded
  <2> QED
    BY <1>1, <2>1, <2>2, OneMovesLocally DEF Kept
<1> QED
  BY <1>2, <1>3 DEF DailyLimitReply

LEMMA ProxyStep ==
  ASSUME IndInv, NEW r \in Request, Proxy(r)
  PROVE  IndInv'
<1>1. /\ req[r].pc = "proxy" /\ Progress(r) /\ UNCHANGED <<gateVars, cache, told>>
      /\ ToldGrows /\ UNCHANGED gateVars /\ TypeOK /\ req[r] \in RequestType
  BY DEF IndInv, Proxy, At, ToldGrows, TypeOK
<1>2. ASSUME NEW s \in {"500", "aborted"}, Respond(r, s) PROVE IndInv'
  BY <1>1, <1>2, Responding, OneMovesLocally
<1>3. CASE req' = [req EXCEPT ![r].pc = "proxyCall", ![r].forwarded = TRUE]
  <2>1. req'[r] = [req[r] EXCEPT !.pc = "proxyCall", !.forwarded = TRUE]
    BY <1>1, <1>3 DEF TypeOK
  <2>2. req'[r] \in RequestType
    <3>1. "proxyCall" \in Label
      BY DEF Label
    <3> QED
      BY <1>1, <2>1, <3>1 DEF RequestType
  <2>3. req' \in [Request -> RequestType] /\ \A q \in Request \ {r} : req'[q] = req[q]
    BY <1>1, <1>3, <2>2 DEF TypeOK
  <2>4. /\ req'[r].pc = "proxyCall" /\ req'[r].meta = req[r].meta
        /\ req'[r].in = req[r].in /\ req'[r].gen = req[r].gen
        /\ req'[r].app = req[r].app /\ req'[r].skipAppAuth = req[r].skipAppAuth
        /\ req'[r].admin = req[r].admin /\ req'[r].ownId = req[r].ownId
        /\ req'[r].counted = req[r].counted
    BY <1>1, <2>1 DEF RequestType
  <2>5. Settled(r)
    BY <1>1, <2>4 DEF Settled, gateVars
  <2>6. /\ Guarded(r)' = Guarded(r)
        /\ AdminVouched(r) => AdminVouched(r)'
        /\ Allowed(r) => Allowed(r)'
        /\ InnerAllowed(r) => InnerAllowed(r)'
        /\ Admitted(r) => Admitted(r)'
    BY <1>1, <2>5, Stable
  <2>7. /\ UserChecked(r) => UserChecked(r)'
        /\ AppChecked(r) => AppChecked(r)'
        /\ IdDecided(r) => IdDecided(r)'
        /\ RateCounted(r) => RateCounted(r)'
        /\ DailyCounted(r) => DailyCounted(r)'
    BY <1>1, <2>4, <2>5, Carried
  <2>8. Guarded(r) => Admitted(r)
    BY <1>1, AllChecked
  <2>9. Progress(r)'
    BY <1>1, <2>4, <2>6, <2>7, <2>8 DEF gateVars, Progress, CallsAreNeeded
  <2> QED
    BY <1>1, <2>3, <2>9, OneMovesLocally
<1> QED
  BY <1>2, <1>3 DEF Proxy

LEMMA ProxyReplyStep ==
  ASSUME IndInv, NEW r \in Request, NEW o \in Outcome, ProxyReply(r, o)
  PROVE  IndInv'
<1>1. /\ req[r].pc = "proxyCall" /\ UNCHANGED <<gateVars, cache, told>>
      /\ ToldGrows /\ UNCHANGED gateVars
  BY DEF ProxyReply, At, ToldGrows
<1>2. PICK s \in {"200", "upstream", "503"} : Respond(r, s)
  BY DEF ProxyReply, Outcome
<1> QED
  BY <1>1, <1>2, Responding, OneMovesLocally

LEMMA ReceiveConfigStep ==
  ASSUME IndInv, NEW c \in ConfigSet, ReceiveConfig(c)
  PROVE  IndInv'
<1>1. /\ UNCHANGED <<routes, cache, told, req>> /\ TypeOK /\ CacheSound /\ ToldGrows
      /\ gen \in Gen /\ c.logLevel \in {"debug", "info"}
  BY GateAssumption DEF IndInv, TypeOK, ReceiveConfig, ToldGrows, ConfigType
<1>2. /\ gen' \in Gen /\ gen <= gen' /\ config' \in [Gen -> ConfigSet]
      /\ \A n \in Gen : n <= gen => config'[n] = config[n]
  BY <1>1, GateAssumption DEF ReceiveConfig, TypeOK, Gen
<1>3. TypeOK' /\ CacheSound'
  BY <1>1, <1>2 DEF TypeOK, CacheSound, ReceiveConfig
<1>4. gen \in Int /\ gen' \in Int
  BY <1>1, <1>2 DEF Gen
<1>5. ASSUME NEW r \in Request PROVE Progress(r)'
  BY <1>1, <1>2, <1>4, Frame DEF IndInv
<1> QED
  BY <1>3, <1>5 DEF IndInv

\* A step that leaves the requests, the configurations and the answers alone.
LEMMA Aside ==
  ASSUME IndInv, UNCHANGED <<config, gen, told, req>>, TypeOK', CacheSound'
  PROVE  IndInv'
<1>1. TypeOK /\ ToldGrows /\ gen \in Int /\ gen' = gen /\ gen <= gen /\ config' = config
  BY DEF IndInv, TypeOK, ToldGrows, Gen
<1>2. ASSUME NEW r \in Request PROVE Progress(r)'
  BY <1>1, Frame DEF IndInv
<1> QED
  BY <1>2 DEF IndInv

LEMMA ReceiveRoutesStep ==
  ASSUME IndInv, NEW t \in RoutingTable, ReceiveRoutes(t)
  PROVE  IndInv'
<1>1. TypeOK' /\ CacheSound'
  BY DEF IndInv, TypeOK, CacheSound, ReceiveRoutes
<1> QED
  BY <1>1, Aside DEF ReceiveRoutes

LEMMA ExpireStep ==
  ASSUME IndInv, Expire
  PROVE  IndInv'
<1>1. cache \in AnswerType /\ TypeOK /\ CacheSound /\ UNCHANGED <<gateVars, told, req>>
  BY DEF IndInv, TypeOK, Expire
<1>2. /\ cache' \in AnswerType /\ cache'.user \subseteq cache.user
      /\ \A n \in Gen : /\ cache'.app[n] \subseteq cache.app[n]
                        /\ cache'.authz[n] \subseteq cache.authz[n]
                        /\ cache'.perm[n] \subseteq cache.perm[n]
  BY <1>1 DEF Expire, AnswerType
<1>3. CacheSound'
  BY <1>1, <1>2 DEF CacheSound
<1>4. TypeOK'
  BY <1>1, <1>2 DEF TypeOK, gateVars
<1> QED
  BY <1>1, <1>3, <1>4, Aside DEF gateVars

LEMMA InitInv == Init => IndInv
<1> SUFFICES ASSUME Init PROVE IndInv
  OBVIOUS
<1>1. 1 \in Gen /\ gen = 1
  BY GateAssumption DEF Init, Gen
<1>2. NewRequest \in RequestType
  <2>1. "new" \in Label /\ None \in Status
    BY DEF Label, Status
  <2> QED
    BY <1>1, <2>1, ZenonT(60) DEF NewRequest, RequestType
<1>3. NoAnswers \in AnswerType
  BY DEF NoAnswers, AnswerType
<1>4. config \in [Gen -> ConfigSet] /\ logLevel \in {"debug", "info"}
  BY GateAssumption DEF Init, ConfigType
<1>5. TypeOK
  BY <1>1, <1>2, <1>3, <1>4 DEF Init, TypeOK
<1>6. CacheSound
  BY DEF Init, CacheSound
<1>7. ASSUME NEW r \in Request PROVE Progress(r)
  <2>1. req[r] = NewRequest
    BY DEF Init
  <2> QED
    BY <2>1 DEF Progress, NewRequest, CallsAreNeeded
<1> QED
  BY <1>5, <1>6, <1>7 DEF IndInv

LEMMA StepInv == IndInv /\ [Next]_vars => IndInv'
<1> SUFFICES ASSUME IndInv, [Next]_vars PROVE IndInv'
  OBVIOUS
<1>1. CASE UNCHANGED vars
  <2>1. TypeOK' /\ CacheSound'
    BY <1>1 DEF vars, IndInv, TypeOK, CacheSound
  <2> QED
    BY <1>1, <2>1, Aside DEF vars
<1>2. CASE \E r \in Request, in \in Input : Accept(r, in)
  BY <1>2, AcceptStep
<1>3. ASSUME NEW r \in Request, Handle(r) PROVE IndInv'
  BY <1>3, EntrypointStep, LoggerStep, UserAuthenticateStep, AuthenticateStep,
     AdminAuthenticateStep, ClientRequestIdStep, AuthorizeStep, AdminAuthorizeStep,
     ThrottlingStep, DailyLimitStep, ProxyStep DEF Handle
<1>4. ASSUME NEW r \in Request, NEW o \in Outcome, Reply(r, o) PROVE IndInv'
  BY <1>4, UserReplyStep, AppReplyStep, AdminReplyStep, AuthorizeReplyStep, PermReplyStep,
     ThrottlingReplyStep, DailyLimitReplyStep, ProxyReplyStep DEF Reply
<1>5. CASE \E c \in ConfigSet : ReceiveConfig(c)
  BY <1>5, ReceiveConfigStep
<1>6. CASE \E t \in RoutingTable : ReceiveRoutes(t)
  BY <1>6, ReceiveRoutesStep
<1>7. CASE Expire
  BY <1>7, ExpireStep
<1> QED
  BY <1>1, <1>2, <1>3, <1>4, <1>5, <1>6, <1>7 DEF Next

\* Every reachable state of the request path is well typed, its caches hold
\* only what the services answered, and every request has really passed the
\* checks its handler has behind it.
THEOREM GateInvariant == Spec => []IndInv
  BY InitInv, StepInv, PTL DEF Spec

\* Nothing is forwarded from a guarded location without the answers it needs:
\* the order of Chain, the caches and the reloads of ReceiveConfig together.
THEOREM Admission == Spec => []AdmissionSound
<1>1. IndInv => AdmissionSound
  BY DEF IndInv, Progress, AdmissionSound
<1> QED
  BY <1>1, GateInvariant, PTL

---------------------------------------------------------------------------
(* The request path implements GateSpec.                                   *)

\* The labels between the resolution of the endpoint and the target.
Open == Resolved \ {"proxyCall"}

\* A known endpoint and its configuration stay: so do the limits due.
LEMMA DueStays ==
  ASSUME TypeOK, NEW r \in Request, ToldGrows, Settled(r), Known(r)' <=> Known(r)
  PROVE  LimitsDue(r)' = LimitsDue(r)
<1>1. Conf(r)' = Conf(r) /\ Setting(r)' = Setting(r) /\ Guarded(r)' = Guarded(r)
  BY Stable
<1>2. HasApp(r)' <=> HasApp(r)
  BY <1>1 DEF HasApp, Settled
<1> QED
  BY <1>1, <1>2 DEF LimitsDue, Settled

\* And whoever was entitled is entitled still.
LEMMA VouchedGrows ==
  ASSUME TypeOK, ToldGrows, \A q \in Request : Known(q) => Known(q)' /\ Settled(q)
  PROVE  Vouched \subseteq Vouched'
<1>1. ASSUME NEW q \in Request, Entitled(q) PROVE Entitled(q)'
  <2>1. Known(q)' /\ Settled(q)
    BY <1>1 DEF Entitled
  <2> QED
    BY <1>1, <2>1, Stable DEF Entitled
<1> QED
  BY <1>1 DEF Vouched

\* A step that changes nothing a client or a target could see.
LEMMA Unseen ==
  ASSUME TypeOK, ToldGrows,
         \A q \in Request : /\ Known(q) => Known(q)' /\ Settled(q)
                            /\ Phase(q)' = Phase(q) /\ LimitsDue(q)' = LimitsDue(q)
                            /\ req'[q].counted = req[q].counted
                            /\ req'[q].status = req[q].status
  PROVE  Abstract!Next
<1>1. Vouched \subseteq Vouched'
  BY VouchedGrows
<1>2. Phases' = Phases /\ Dues' = Dues /\ Charges' = Charges /\ Answers' = Answers
  BY DEF Phases, Dues, Charges, Answers
<1> QED
  BY <1>1, <1>2 DEF Abstract!Next, Abstract!Vouch

\* A request that does not move is not seen to change.
LEMMA Unmoved ==
  ASSUME NEW q \in Request, req'[q] = req[q], config'[req[q].gen] = config[req[q].gen]
  PROVE  /\ Known(q)' <=> Known(q)
         /\ Settled(q) /\ Phase(q)' = Phase(q) /\ LimitsDue(q)' = LimitsDue(q)
         /\ req'[q].counted = req[q].counted /\ req'[q].status = req[q].status
<1>1. (Known(q)' <=> Known(q)) /\ Settled(q) /\ Phase(q)' = Phase(q)
  BY DEF Known, Settled, Phase
<1>2. LimitsDue(q)' = LimitsDue(q)
  BY <1>1 DEF LimitsDue, HasApp, Conf, Setting, Guarded
<1> QED
  BY <1>1, <1>2

\* What a step of request r is to GateSpec: it changes r's entries only.
LEMMA Entries ==
  ASSUME IndInv, NEW r \in Request, UNCHANGED gateVars, ToldGrows,
         \A q \in Request \ {r} : req'[q] = req[q],
         Known(r) => Known(r)' /\ Settled(r)
  PROVE  /\ Vouched \subseteq Vouched'
         /\ Phases' = [Phases EXCEPT ![r] = Phase(r)']
         /\ Dues' = [Dues EXCEPT ![r] = LimitsDue(r)']
         /\ Charges' = [Charges EXCEPT ![r] = req'[r].counted]
         /\ Answers' = [Answers EXCEPT ![r] = req'[r].status]
         /\ Phases[r] = Phase(r) /\ Dues[r] = LimitsDue(r)
         /\ Charges[r] = req[r].counted /\ Answers[r] = req[r].status
<1>1. \A q \in Request \ {r} :
        /\ Known(q)' <=> Known(q)
        /\ Settled(q) /\ Phase(q)' = Phase(q) /\ LimitsDue(q)' = LimitsDue(q)
        /\ req'[q].counted = req[q].counted /\ req'[q].status = req[q].status
  BY Unmoved DEF gateVars
<1>2. \A q \in Request : Known(q) => Known(q)' /\ Settled(q)
  BY <1>1
<1>3. Vouched \subseteq Vouched'
  BY <1>2, VouchedGrows DEF IndInv
<1>4. Phases' = [Phases EXCEPT ![r] = Phase(r)']
  BY <1>1 DEF Phases
<1>5. Dues' = [Dues EXCEPT ![r] = LimitsDue(r)']
  BY <1>1 DEF Dues
<1>6. Charges' = [Charges EXCEPT ![r] = req'[r].counted]
  BY <1>1 DEF Charges
<1>7. Answers' = [Answers EXCEPT ![r] = req'[r].status]
  BY <1>1 DEF Answers
<1> QED
  BY <1>3, <1>4, <1>5, <1>6, <1>7 DEF Phases, Dues, Charges, Answers

\* A request goes to label l, with the status s, and nothing else that GateSpec
\* looks at changes.
Seen(r, l, s) ==
  /\ \A q \in Request \ {r} : req'[q] = req[q]
  /\ req'[r].pc = l /\ req'[r].status = s
  /\ req'[r].in = req[r].in /\ req'[r].gen = req[r].gen /\ req'[r].meta = req[r].meta
  /\ req'[r].counted = req[r].counted

LEMMA GotoSeen ==
  ASSUME TypeOK, NEW r \in Request, NEW l \in Label, Goto(r, l)
  PROVE  Seen(r, l, req[r].status)
BY DEF TypeOK, RequestType, Goto, Seen

LEMMA RespondSeen ==
  ASSUME TypeOK, NEW r \in Request, NEW s, Respond(r, s)
  PROVE  Seen(r, "done", s)
<1>1. req'[r] = [req[r] EXCEPT !.pc = "done", !.status = s] /\ req[r] \in RequestType
  BY DEF TypeOK, Respond
<1>2. \A q \in Request \ {r} : req'[q] = req[q]
  BY DEF TypeOK, Respond
<1> QED
  BY <1>1, <1>2 DEF RequestType, Seen

\* Seen from outside, a request that passes a middleware has not moved.
LEMMA GoesOn ==
  ASSUME IndInv, NEW r \in Request, UNCHANGED gateVars, ToldGrows,
         req[r].pc \in Open, NEW l \in Open, Seen(r, l, req[r].status)
  PROVE  Abstract!Next
<1>1. Settled(r)
  BY DEF Settled, Seen, gateVars
<1>2. Known(r) /\ Known(r)'
  BY DEF IndInv, Progress, Known, Seen, Open
<1>3. Phase(r) = "open" /\ Phase(r)' = "open"
  BY DEF Phase, Seen, Open
<1>4. LimitsDue(r)' = LimitsDue(r)
  BY <1>1, <1>2, DueStays DEF IndInv
<1>5. \A q \in Request :
        /\ Known(q) => Known(q)' /\ Settled(q)
        /\ Phase(q)' = Phase(q) /\ LimitsDue(q)' = LimitsDue(q)
        /\ req'[q].counted = req[q].counted /\ req'[q].status = req[q].status
  BY <1>1, <1>2, <1>3, <1>4, Unmoved DEF Seen, gateVars
<1> QED
  BY <1>5, Unseen DEF IndInv

\* An answer of the gateway's own.
LEMMA Refuses ==
  ASSUME IndInv, NEW r \in Request, UNCHANGED gateVars, ToldGrows,
         NEW s, Seen(r, "done", s),
         \/ req[r].pc = "entrypoint" /\ s = "501"
         \/ req[r].pc \in Open /\ s \in {"500", "aborted"}
         \/ req[r].pc \in Open /\ req[r].counted = {} /\ s \in {"200", "401", "403"}
         \/ req[r].pc \in Open /\ req[r].counted # {} /\ s = "429"
  PROVE  Abstract!Next
<1>1. Settled(r)
  BY DEF Settled, Seen, gateVars
<1>2. Known(r)' <=> Known(r)
  BY DEF IndInv, Progress, Known, Seen, Open
<1>3. LimitsDue(r)' = LimitsDue(r)
  BY <1>1, <1>2, DueStays DEF IndInv
<1>4. /\ Vouched \subseteq Vouched'
      /\ Phases' = [Phases EXCEPT ![r] = "done"] /\ Dues' = Dues /\ Charges' = Charges
      /\ Answers' = [Answers EXCEPT ![r] = s]
      /\ Phases[r] = Phase(r) /\ Charges[r] = req[r].counted
  <2>1. Phase(r)' = "done"
    BY DEF Phase, Seen
  <2> QED
    BY <1>1, <1>2, <1>3, <2>1, Entries DEF Seen, Dues, Charges
<1>5. Phase(r) = IF req[r].pc = "entrypoint" THEN "new" ELSE "open"
  BY DEF Phase, Open
<1>6. s \in Abstract!Refusals(r) /\ Phases[r] \in {"new", "open"}
  BY <1>4, <1>5 DEF Abstract!Refusals, Open
<1>7. Abstract!Refuse(r)
  BY <1>4, <1>6 DEF Abstract!Refuse
<1> QED
  BY <1>4, <1>7 DEF Abstract!Next

\* Whatever a service answers, its earlier answers stand.
LEMMA Tells ==
  ASSUME IndInv, NEW r \in Request, NEW o \in Outcome, Reply(r, o)
  PROVE  ToldGrows /\ UNCHANGED gateVars
<1>0. told \in AnswerType /\ req[r].gen \in Gen
  BY DEF IndInv, TypeOK, RequestType
<1>1. CASE UNCHANGED told
  BY <1>1, NothingTold DEF Reply, UserReply, AppReply, AdminReply, AuthorizeReply, PermReply,
     ThrottlingReply, DailyLimitReply, ProxyReply
<1>2. ASSUME NEW k, told' = [told EXCEPT !.user = @ \cup {k}] PROVE ToldGrows
  BY <1>0, <1>2 DEF AnswerType, ToldGrows
<1>3. ASSUME NEW k, told' = [told EXCEPT !.admin = @ \cup {k}] PROVE ToldGrows
  BY <1>0, <1>3 DEF AnswerType, ToldGrows
<1>4. ASSUME NEW k, told' = [told EXCEPT !.app[req[r].gen] = @ \cup {k}] PROVE ToldGrows
  BY <1>0, <1>4 DEF AnswerType, ToldGrows
<1>5. ASSUME NEW k, told' = [told EXCEPT !.authz[req[r].gen] = @ \cup {k}] PROVE ToldGrows
  BY <1>0, <1>5 DEF AnswerType, ToldGrows
<1>6. ASSUME NEW k, told' = [told EXCEPT !.perm[req[r].gen] = @ \cup {k}] PROVE ToldGrows
  BY <1>0, <1>6 DEF AnswerType, ToldGrows
<1>7. UNCHANGED gateVars
  BY DEF Reply, UserReply, AppReply, AdminReply, AuthorizeReply, PermReply,
     ThrottlingReply, DailyLimitReply, ProxyReply
<1>8. CASE UserReply(r, o)
  BY <1>1, <1>2, <1>7, <1>8 DEF UserReply
<1>9. CASE AppReply(r, o)
  BY <1>1, <1>4, <1>7, <1>9 DEF AppReply
<1>10. CASE AdminReply(r, o)
  BY <1>1, <1>3, <1>7, <1>10 DEF AdminReply
<1>11. CASE AuthorizeReply(r, o)
  BY <1>1, <1>5, <1>7, <1>11 DEF AuthorizeReply
<1>12. CASE PermReply(r, o)
  BY <1>1, <1>6, <1>7, <1>12 DEF PermReply
<1>13. CASE ThrottlingReply(r, o) \/ DailyLimitReply(r, o) \/ ProxyReply(r, o)
  BY <1>1, <1>7, <1>13 DEF ThrottlingReply, DailyLimitReply, ProxyReply
<1> QED
  BY <1>8, <1>9, <1>10, <1>11, <1>12, <1>13 DEF Reply

\* Before Throttling nothing has been counted, and anyone may be turned away.
LEMMA TurnedAway ==
  ASSUME IndInv, NEW r \in Request, UNCHANGED gateVars, ToldGrows,
         req[r].pc \in Open \ PastAdminAuthorize,
         NEW s \in {"401", "403", "500", "aborted"}, Respond(r, s)
  PROVE  Abstract!Next
<1>1. req[r].counted = {} /\ req[r].pc \in Open
  BY DEF IndInv, Progress, Open
<1>2. Seen(r, "done", s)
  BY RespondSeen DEF IndInv
<1> QED
  BY <1>1, <1>2, Refuses

LEMMA Passes ==
  ASSUME IndInv, NEW r \in Request, UNCHANGED gateVars, ToldGrows,
         req[r].pc \in Open, NEW l \in Open, Goto(r, l)
  PROVE  Abstract!Next
<1>1. l \in Label
  BY DEF Label, Open
<1> QED
  BY <1>1, GotoSeen, GoesOn DEF IndInv

LEMMA RefineAccept ==
  ASSUME IndInv, NEW r \in Request, NEW in \in Input, Accept(r, in)
  PROVE  Abstract!Next
<1>1. req[r] \in RequestType /\ TypeOK /\ ToldGrows /\ UNCHANGED gateVars
  BY DEF IndInv, TypeOK, Accept, ToldGrows
<1>2. /\ req[r].pc = "new" /\ req'[r].pc = "entrypoint"
      /\ req'[r].counted = req[r].counted /\ req'[r].status = req[r].status
      /\ \A q \in Request \ {r} : req'[q] = req[q]
  BY <1>1 DEF Accept, At, TypeOK, RequestType
<1>3. ~Known(r) /\ ~Known(r)' /\ Phase(r) = "new" /\ Phase(r)' = "new"
  BY <1>2 DEF Known, Phase
<1>4. LimitsDue(r)' = LimitsDue(r)
  BY <1>3 DEF LimitsDue, HasApp
<1>5. \A q \in Request :
        /\ Known(q) => Known(q)' /\ Settled(q)
        /\ Phase(q)' = Phase(q) /\ LimitsDue(q)' = LimitsDue(q)
        /\ req'[q].counted = req[q].counted /\ req'[q].status = req[q].status
  BY <1>1, <1>2, <1>3, <1>4, Unmoved DEF gateVars
<1> QED
  BY <1>1, <1>5, Unseen

LEMMA RefineEntrypoint ==
  ASSUME IndInv, NEW r \in Request, Entrypoint(r)
  PROVE  Abstract!Next
<1>1. /\ req[r] \in RequestType /\ req[r].pc = "entrypoint" /\ TypeOK
      /\ UNCHANGED gateVars /\ ToldGrows
  BY DEF IndInv, TypeOK, Entrypoint, At, ToldGrows
<1>2. CASE Respond(r, "501")
  BY <1>1, <1>2, RespondSeen, Refuses
<1>3. ASSUME NEW meta, req' = [req EXCEPT ![r].pc = "logger", ![r].meta = meta]
      PROVE  Abstract!Next
  <2>1. /\ req'[r].pc = "logger" /\ req'[r].counted = req[r].counted
        /\ req'[r].status = req[r].status
        /\ \A q \in Request \ {r} : req'[q] = req[q]
    BY <1>1, <1>3 DEF TypeOK, RequestType
  <2>2. ~Known(r) /\ Phase(r) = "new" /\ Phase(r)' = "open"
    BY <1>1, <2>1 DEF Known, Phase
  <2>3. /\ Vouched \subseteq Vouched'
        /\ Phases' = [Phases EXCEPT ![r] = "open"] /\ Phases[r] = "new"
        /\ Dues' = [Dues EXCEPT ![r] = LimitsDue(r)']
        /\ Charges' = Charges /\ Answers' = Answers
    BY <1>1, <2>1, <2>2, Entries DEF Charges, Answers
  <2>4. LimitsDue(r)' \in SUBSET Abstract!Limit
    BY DEF LimitsDue, Abstract!Limit
  <2>5. Abstract!Resolve(r)
    BY <2>3, <2>4 DEF Abstract!Resolve
  <2> QED
    BY <2>3, <2>5 DEF Abstract!Next
<1> QED
  BY <1>2, <1>3 DEF Entrypoint

LEMMA RefineLogger ==
  ASSUME IndInv, NEW r \in Request, Logger(r)
  PROVE  Abstract!Next
<1>1. /\ req[r] \in RequestType /\ req[r].pc = "logger" /\ TypeOK
      /\ UNCHANGED gateVars /\ ToldGrows
  BY DEF IndInv, TypeOK, Logger, At, ToldGrows
<1>2. CASE req' = [req EXCEPT ![r].pc = "done", ![r].bodyLogged = TRUE, ![r].status = "200"]
  <2>1. Seen(r, "done", "200")
    BY <1>1, <1>2 DEF TypeOK, RequestType, Seen
  <2>2. req[r].counted = {} /\ req[r].pc \in Open
    BY <1>1 DEF IndInv, Progress, Open
  <2> QED
    BY <1>1, <2>1, <2>2, Refuses
<1>3. CASE req' = [req EXCEPT ![r].pc = AfterLogger(r), ![r].bodyLogged = LogsBody(r)]
  <2>1. Seen(r, AfterLogger(r), req[r].status)
    BY <1>1, <1>3 DEF TypeOK, RequestType, Seen
  <2>2. AfterLogger(r) \in Open /\ req[r].pc \in Open
    BY <1>1 DEF AfterLogger, Open
  <2> QED
    BY <1>1, <2>1, <2>2, GoesOn
<1> QED
  BY <1>2, <1>3 DEF Logger

\* Authenticated by the cache or by the service, as user or as application.
LEMMA UserPassesOn ==
  ASSUME IndInv, NEW r \in Request, UNCHANGED gateVars, ToldGrows,
         req[r].pc \in {"user", "userCall"}, UserPassed(r)
  PROVE  Abstract!Next
<1>1. Seen(r, "app", req[r].status)
  BY DEF UserPassed, IndInv, TypeOK, RequestType, Seen
<1> QED
  BY <1>1, GoesOn DEF Open

LEMMA AppPassesOn ==
  ASSUME IndInv, NEW r \in Request, UNCHANGED gateVars, ToldGrows,
         req[r].pc \in {"app", "appCall"}, AppAnswered(r)
  PROVE  Abstract!Next
<1>1. CASE Respond(r, "401")
  BY <1>1, TurnedAway DEF Open
<1>2. CASE req' = [req EXCEPT ![r].pc = "admin", ![r].app = AppOf[AppToken(req[r].in)]]
  <2>1. Seen(r, "admin", req[r].status)
    BY <1>2 DEF IndInv, TypeOK, RequestType, Seen
  <2> QED
    BY <2>1, GoesOn DEF Open
<1> QED
  BY <1>1, <1>2 DEF AppAnswered

\* The middlewares up to the limits, and the answers of their services.
LEMMA RefineChecks ==
  ASSUME IndInv, NEW r \in Request,
         \/ UserAuthenticate(r) \/ Authenticate(r) \/ AdminAuthenticate(r)
         \/ ClientRequestId(r) \/ Authorize(r) \/ AdminAuthorize(r)
  PROVE  Abstract!Next
<1>1. UNCHANGED gateVars /\ ToldGrows
  BY DEF UserAuthenticate, Authenticate, AdminAuthenticate, ClientRequestId, Authorize,
     AdminAuthorize, ToldGrows
<1>2. CASE UserAuthenticate(r)
  <2>1. req[r].pc = "user"
    BY <1>2 DEF UserAuthenticate, At
  <2>2. \/ Goto(r, "app") \/ Goto(r, "userCall") \/ UserPassed(r)
        \/ \E s \in {"401", "500"} : Respond(r, s)
    BY <1>2 DEF UserAuthenticate
  <2> QED
    BY <1>1, <2>1, <2>2, Passes, UserPassesOn, TurnedAway DEF Open
<1>3. CASE Authenticate(r)
  <2>1. req[r].pc = "app"
    BY <1>3 DEF Authenticate, At
  <2>2. Goto(r, "admin") \/ Goto(r, "appCall") \/ AppAnswered(r) \/ Respond(r, "401")
    BY <1>3 DEF Authenticate
  <2> QED
    BY <1>1, <2>1, <2>2, Passes, AppPassesOn, TurnedAway DEF Open
<1>4. CASE AdminAuthenticate(r)
  <2>1. req[r].pc = "admin" /\ (Goto(r, "clientId") \/ Goto(r, "adminCall"))
    BY <1>4 DEF AdminAuthenticate, At
  <2> QED
    BY <1>1, <2>1, Passes DEF Open
<1>5. CASE ClientRequestId(r)
  <2>1. req[r].pc = "clientId" /\ AfterClientId(r) \in {"proxy", "authorize"}
    BY <1>5 DEF ClientRequestId, At, AfterClientId
  <2>2. Seen(r, AfterClientId(r), req[r].status)
    BY <1>5 DEF ClientRequestId, IndInv, TypeOK, RequestType, Seen
  <2> QED
    BY <1>1, <2>1, <2>2, GoesOn DEF Open
<1>6. CASE Authorize(r)
  <2>1. req[r].pc = "authorize" /\ (Goto(r, "adminAuthorize") \/ Goto(r, "authorizeCall"))
    BY <1>6 DEF Authorize, At
  <2> QED
    BY <1>1, <2>1, Passes DEF Open
<1>7. CASE AdminAuthorize(r)
  <2>1. req[r].pc = "adminAuthorize"
    BY <1>7 DEF AdminAuthorize, At
  <2>2. Goto(r, "throttling") \/ Goto(r, "permCall") \/ Respond(r, "403")
    BY <1>7 DEF AdminAuthorize
  <2> QED
    BY <1>1, <2>1, <2>2, Passes, TurnedAway DEF Open
<1> QED
  BY <1>2, <1>3, <1>4, <1>5, <1>6, <1>7

LEMMA RefineAnswers ==
  ASSUME IndInv, NEW r \in Request, NEW o \in Outcome,
         \/ UserReply(r, o) \/ AppReply(r, o) \/ AdminReply(r, o)
         \/ AuthorizeReply(r, o) \/ PermReply(r, o)
  PROVE  Abstract!Next
<1>1. UNCHANGED gateVars /\ ToldGrows
  BY Tells DEF Reply
<1>2. CASE UserReply(r, o)
  <2>1. req[r].pc = "userCall"
    BY <1>2 DEF UserReply, At
  <2>2. UserPassed(r) \/ \E s \in {"401", "500", "aborted"} : Respond(r, s)
    BY <1>2 DEF UserReply
  <2> QED
    BY <1>1, <2>1, <2>2, UserPassesOn, TurnedAway DEF Open
<1>3. CASE AppReply(r, o)
  <2>1. req[r].pc = "appCall"
    BY <1>3 DEF AppReply, At
  <2>2. AppAnswered(r) \/ \E s \in {"401", "500", "aborted"} : Respond(r, s)
    BY <1>3 DEF AppReply
  <2> QED
    BY <1>1, <2>1, <2>2, AppPassesOn, TurnedAway DEF Open
<1>4. CASE AdminReply(r, o)
  <2>1. req[r].pc = "adminCall"
    BY <1>4 DEF AdminReply, At
  <2>2. CASE Respond(r, "401")
    BY <1>1, <2>1, <2>2, TurnedAway DEF Open
  <2>3. CASE req' = [req EXCEPT ![r].pc = "clientId", ![r].admin = AdminOf[req[r].in.admin]]
    <3>1. Seen(r, "clientId", req[r].status)
      BY <2>3 DEF IndInv, TypeOK, RequestType, Seen
    <3> QED
      BY <1>1, <2>1, <3>1, GoesOn DEF Open
  <2> QED
    BY <1>4, <2>2, <2>3 DEF AdminReply
<1>5. CASE AuthorizeReply(r, o)
  <2>1. req[r].pc = "authorizeCall"
    BY <1>5 DEF AuthorizeReply, At
  <2>2. Goto(r, "adminAuthorize") \/ \E s \in {"403", "500"} : Respond(r, s)
    BY <1>5 DEF AuthorizeReply
  <2> QED
    BY <1>1, <2>1, <2>2, Passes, TurnedAway DEF Open
<1>6. CASE PermReply(r, o)
  <2>1. req[r].pc = "permCall"
    BY <1>6 DEF PermReply, At
  <2>2. Goto(r, "throttling") \/ \E s \in {"403", "500"} : Respond(r, s)
    BY <1>6 DEF PermReply
  <2> QED
    BY <1>1, <2>1, <2>2, Passes, TurnedAway DEF Open
<1> QED
  BY <1>2, <1>3, <1>4, <1>5, <1>6

\* Behind both limits, every limit due has been counted.
LEMMA DueCounted ==
  ASSUME IndInv, NEW r \in Request,
         Guarded(r) => UserChecked(r) /\ AppChecked(r) /\ RateCounted(r) /\ DailyCounted(r)
  PROVE  LimitsDue(r) \subseteq req[r].counted
<1> SUFFICES ASSUME HasApp(r) PROVE LimitsDue(r) \subseteq req[r].counted
  BY DEF LimitsDue
<1>1. Guarded(r) /\ (req[r].meta.userAuth => ~Setting(r).skipAppAuth)
  BY DEF HasApp
<1>2. ~req[r].skipAppAuth
  BY <1>1 DEF UserChecked, AppWaived
<1>3. req[r].app = AppOf[AppToken(req[r].in)]
  BY <1>1, <1>2 DEF AppChecked
<1> QED
  BY <1>1, <1>3 DEF LimitsDue, RateCounted, DailyCounted

\* What a limit counts, the application owes.
LEMMA IsDue ==
  ASSUME IndInv, NEW r \in Request, req[r].pc \in {"throttling", "dailyLimit"},
         ~req[r].skipAppAuth
  PROVE  /\ req[r].app \in Conf(r).throttled <=> "rate" \in LimitsDue(r)
         /\ req[r].app \in Conf(r).dailyLimited <=> "daily" \in LimitsDue(r)
<1>1. /\ Guarded(r) /\ UserChecked(r) /\ AppChecked(r) /\ Known(r)
  BY DEF IndInv, Progress, Known
<1>2. req[r].app = AppOf[AppToken(req[r].in)] /\ AppToken(req[r].in) # None
  BY <1>1 DEF AppChecked, AppVouched
<1>3. HasApp(r)
  BY <1>1, <1>2 DEF HasApp, UserChecked, AppWaived
<1> QED
  BY <1>2, <1>3 DEF LimitsDue

\* A limit counts an entitled request, the day after the rate.
LEMMA ChargesLimit ==
  ASSUME IndInv, NEW r \in Request, NEW l, NEW k \in {"rate", "daily"},
         <<req[r].pc, l, k>> \in {<<"throttling", "throttlingCall", "rate">>,
                                  <<"dailyLimit", "dailyLimitCall", "daily">>},
         ~req[r].skipAppAuth, k \in LimitsDue(r), UNCHANGED <<gateVars, told>>, CountStep(r, l, k)
  PROVE  Abstract!Next
<1>1. /\ req[r] \in RequestType /\ TypeOK /\ ToldGrows /\ Progress(r) /\ UNCHANGED gateVars
  BY DEF IndInv, TypeOK, ToldGrows
<1>2. /\ req'[r].pc = l /\ req'[r].status = req[r].status
      /\ req'[r].counted = req[r].counted \cup {k}
      /\ req'[r].in = req[r].in /\ req'[r].gen = req[r].gen /\ req'[r].meta = req[r].meta
      /\ \A q \in Request \ {r} : req'[q] = req[q]
  BY <1>1 DEF CountStep, TypeOK, RequestType
<1>3. Settled(r) /\ Known(r) /\ Known(r)' /\ Guarded(r)
  BY <1>1, <1>2 DEF Settled, gateVars, Known, Progress
<1>4. LimitsDue(r)' = LimitsDue(r)
  BY <1>1, <1>3, DueStays
<1>5. Phase(r) = "open" /\ Phase(r)' = "open"
  BY <1>2 DEF Phase
<1>6. /\ Vouched \subseteq Vouched' /\ Phases' = Phases /\ Dues' = Dues
      /\ Charges' = [Charges EXCEPT ![r] = req[r].counted \cup {k}] /\ Answers' = Answers
      /\ Phases[r] = "open" /\ Dues[r] = LimitsDue(r) /\ Charges[r] = req[r].counted
  <2>1. /\ Vouched \subseteq Vouched'
        /\ Phases' = [Phases EXCEPT ![r] = "open"]
        /\ Dues' = [Dues EXCEPT ![r] = LimitsDue(r)]
        /\ Charges' = [Charges EXCEPT ![r] = req[r].counted \cup {k}]
        /\ Answers' = [Answers EXCEPT ![r] = req[r].status]
        /\ Phases[r] = "open" /\ Dues[r] = LimitsDue(r) /\ Charges[r] = req[r].counted
        /\ Answers[r] = req[r].status
    BY <1>1, <1>2, <1>3, <1>4, <1>5, Entries
  <2>2. Phases' = Phases
    BY <2>1 DEF Phases
  <2>3. Dues' = Dues
    BY <2>1 DEF Dues
  <2>4. Answers' = Answers
    BY <2>1 DEF Answers
  <2> QED
    BY <2>1, <2>2, <2>3, <2>4
<1>7. r \in Vouched
  BY <1>3, AllChecked DEF Vouched, Entitled
<1>8. k = "daily" /\ "rate" \in LimitsDue(r) => "rate" \in req[r].counted
  BY <1>1, <1>3, IsDue DEF Progress, RateCounted
<1>9. CASE k \in req[r].counted
  <2>1. Charges' = Charges
    BY <1>6, <1>9 DEF Charges
  <2> QED
    BY <1>6, <2>1 DEF Abstract!Next, Abstract!Vouch
<1>10. CASE k \notin req[r].counted
  <2>1. k \in Dues[r] \ Charges[r]
    BY <1>6, <1>10
  <2>2. Charges' = [Charges EXCEPT ![r] = @ \cup {k}]
    BY <1>6
  <2>3. Abstract!Charge(r)
    BY <1>6, <1>7, <1>8, <2>1, <2>2 DEF Abstract!Charge
  <2> QED
    BY <1>6, <2>3 DEF Abstract!Next
<1> QED
  BY <1>9, <1>10

LEMMA RefineLimits ==
  ASSUME IndInv, NEW r \in Request, Throttling(r) \/ DailyLimit(r)
  PROVE  Abstract!Next
<1>1. UNCHANGED <<gateVars, told>> /\ UNCHANGED gateVars /\ ToldGrows
  BY DEF Throttling, DailyLimit, ToldGrows
<1>2. CASE Throttling(r)
  <2>1. req[r].pc = "throttling"
    BY <1>2 DEF Throttling, At
  <2>2. \/ Goto(r, "dailyLimit")
        \/ /\ ~req[r].skipAppAuth /\ req[r].app \in Conf(r).throttled
           /\ CountStep(r, "throttlingCall", "rate")
    BY <1>2 DEF Throttling, CountStep
  <2>3. CASE Goto(r, "dailyLimit")
    BY <1>1, <2>1, <2>3, Passes DEF Open
  <2>4. CASE /\ ~req[r].skipAppAuth /\ req[r].app \in Conf(r).throttled
             /\ CountStep(r, "throttlingCall", "rate")
    BY <1>1, <2>1, <2>4, IsDue, ChargesLimit
  <2> QED
    BY <2>2, <2>3, <2>4
<1>3. CASE DailyLimit(r)
  <2>1. req[r].pc = "dailyLimit"
    BY <1>3 DEF DailyLimit, At
  <2>2. \/ Goto(r, "proxy")
        \/ /\ ~req[r].skipAppAuth /\ req[r].app \in Conf(r).dailyLimited
           /\ CountStep(r, "dailyLimitCall", "daily")
    BY <1>3 DEF DailyLimit, CountStep
  <2>3. CASE Goto(r, "proxy")
    BY <1>1, <2>1, <2>3, Passes DEF Open
  <2>4. CASE /\ ~req[r].skipAppAuth /\ req[r].app \in Conf(r).dailyLimited
             /\ CountStep(r, "dailyLimitCall", "daily")
    BY <1>1, <2>1, <2>4, IsDue, ChargesLimit
  <2> QED
    BY <2>2, <2>3, <2>4
<1> QED
  BY <1>2, <1>3

LEMMA RefineLimitReplies ==
  ASSUME IndInv, NEW r \in Request, NEW o \in Outcome,
         ThrottlingReply(r, o) \/ DailyLimitReply(r, o)
  PROVE  Abstract!Next
<1>1. UNCHANGED gateVars /\ ToldGrows
  BY Tells DEF Reply
<1>2. req[r].pc \in {"throttlingCall", "dailyLimitCall"}
  BY DEF ThrottlingReply, DailyLimitReply, At
<1>3. req[r].counted # {} /\ req[r].pc \in Open
  BY <1>2 DEF IndInv, Progress, CallsAreNeeded, Open
<1>4. ASSUME NEW s \in {"429", "500"}, Respond(r, s) PROVE Abstract!Next
  <2>1. Seen(r, "done", s)
    BY <1>4, RespondSeen DEF IndInv
  <2> QED
    BY <1>1, <1>3, <2>1, Refuses
<1>5. ASSUME NEW l \in {"dailyLimit", "proxy"}, Goto(r, l) PROVE Abstract!Next
  BY <1>1, <1>3, <1>5, Passes DEF Open
<1> QED
  BY <1>4, <1>5 DEF ThrottlingReply, DailyLimitReply

\* No application is counted against a limit it does not have.
ChargesDue == \A r \in Request : req[r].counted \subseteq LimitsDue(r)

LEMMA RefineProxy ==
  ASSUME IndInv, ChargesDue, NEW r \in Request, Proxy(r)
  PROVE  Abstract!Next
<1>1. /\ req[r] \in RequestType /\ TypeOK /\ ToldGrows /\ Progress(r) /\ UNCHANGED gateVars
      /\ req[r].pc = "proxy"
  BY DEF IndInv, TypeOK, ToldGrows, Proxy, At
<1>2. ASSUME NEW s \in {"500", "aborted"}, Respond(r, s) PROVE Abstract!Next
  <2>1. Seen(r, "done", s) /\ req[r].pc \in Open
    BY <1>1, <1>2, RespondSeen DEF Open
  <2> QED
    BY <1>1, <2>1, Refuses
<1>3. CASE req' = [req EXCEPT ![r].pc = "proxyCall", ![r].forwarded = TRUE]
  <2>1. Seen(r, "proxyCall", req[r].status)
    BY <1>1, <1>3 DEF TypeOK, RequestType, Seen
  <2>2. Settled(r) /\ Known(r) /\ Known(r)'
    BY <1>1, <2>1 DEF Settled, gateVars, Known, Progress, Seen
  <2>3. LimitsDue(r)' = LimitsDue(r)
    BY <1>1, <2>2, DueStays
  <2>4. Phase(r) = "open" /\ Phase(r)' = "forwarded"
    BY <1>1, <2>1 DEF Phase, Seen
  <2>5. /\ Vouched \subseteq Vouched' /\ Phases' = [Phases EXCEPT ![r] = "forwarded"]
        /\ Dues' = Dues /\ Charges' = Charges /\ Answers' = Answers
        /\ Phases[r] = "open" /\ Dues[r] = LimitsDue(r) /\ Charges[r] = req[r].counted
    BY <1>1, <2>1, <2>2, <2>3, <2>4, Entries DEF Seen, Dues, Charges, Answers
  <2>6. r \in Vouched
    BY <1>1, <2>2, AllChecked DEF Vouched, Entitled
  <2>7. LimitsDue(r) = req[r].counted
    <3>1. LimitsDue(r) \subseteq req[r].counted
      BY <1>1, DueCounted DEF Progress
    <3> QED
      BY <3>1 DEF ChargesDue
  <2>8. Abstract!Forward(r)
    BY <2>5, <2>6, <2>7 DEF Abstract!Forward
  <2> QED
    BY <2>5, <2>8 DEF Abstract!Next
<1> QED
  BY <1>2, <1>3 DEF Proxy

LEMMA RefineProxyReply ==
  ASSUME IndInv, NEW r \in Request, NEW o \in Outcome, ProxyReply(r, o)
  PROVE  Abstract!Next
<1>1. /\ req[r].pc = "proxyCall" /\ UNCHANGED gateVars /\ ToldGrows /\ TypeOK
  BY DEF ProxyReply, At, ToldGrows, IndInv
<1>2. PICK s \in {"200", "upstream", "503"} : Respond(r, s)
  BY DEF ProxyReply, Outcome
<1>3. Seen(r, "done", s)
  BY <1>1, <1>2, RespondSeen
<1>4. Settled(r) /\ Known(r) /\ Known(r)'
  BY <1>1, <1>3 DEF Settled, gateVars, Known, IndInv, Progress, Seen
<1>5. LimitsDue(r)' = LimitsDue(r)
  BY <1>1, <1>4, DueStays
<1>6. Phase(r) = "forwarded" /\ Phase(r)' = "done"
  BY <1>1, <1>3 DEF Phase, Seen
<1>7. /\ Vouched \subseteq Vouched' /\ Phases' = [Phases EXCEPT ![r] = "done"]
      /\ Dues' = Dues /\ Charges' = Charges /\ Answers' = [Answers EXCEPT ![r] = s]
      /\ Phases[r] = "forwarded"
  BY <1>1, <1>3, <1>4, <1>5, <1>6, Entries DEF Seen, Dues, Charges
<1>8. Abstract!Relay(r)
  BY <1>7 DEF Abstract!Relay
<1> QED
  BY <1>7, <1>8 DEF Abstract!Next

\* Reloads, route changes and expiries are not seen.
LEMMA RefineAside ==
  ASSUME IndInv, UNCHANGED <<told, req>>, \A n \in Gen : n <= gen => config'[n] = config[n]
  PROVE  Abstract!Next
<1>1. TypeOK /\ ToldGrows
  BY DEF IndInv, ToldGrows
<1>2. ASSUME NEW q \in Request
      PROVE  /\ Known(q) => Known(q)' /\ Settled(q)
             /\ Phase(q)' = Phase(q) /\ LimitsDue(q)' = LimitsDue(q)
             /\ req'[q].counted = req[q].counted /\ req'[q].status = req[q].status
  <2>1. CASE req[q].pc = "new"
    <3>1. ~Known(q) /\ ~Known(q)' /\ Phase(q)' = Phase(q)
      BY <2>1 DEF Known, Phase
    <3>2. LimitsDue(q)' = LimitsDue(q)
      BY <3>1 DEF LimitsDue, HasApp
    <3> QED
      BY <3>1, <3>2
  <2>2. CASE req[q].pc # "new"
    <3>1. req[q].gen \in Gen /\ req[q].gen <= gen
      BY <2>2 DEF IndInv, Progress, TypeOK, RequestType
    <3> QED
      BY <3>1, Unmoved
  <2> QED
    BY <2>1, <2>2
<1> QED
  BY <1>1, <1>2, Unseen

LEMMA RefineInit == Init => Abstract!Init
<1> SUFFICES ASSUME Init PROVE Abstract!Init
  OBVIOUS
<1>1. ASSUME NEW r \in Request
      PROVE  /\ Phase(r) = "new" /\ ~Entitled(r) /\ LimitsDue(r) = {}
             /\ req[r].counted = {} /\ req[r].status = None
  <2>1. req[r] = NewRequest
    BY DEF Init
  <2>2. req[r].pc = "new" /\ req[r].counted = {} /\ req[r].status = None
    BY <2>1 DEF NewRequest
  <2> QED
    BY <2>2 DEF Phase, Entitled, Known, LimitsDue, HasApp
<1> QED
  BY <1>1 DEF Abstract!Init, Phases, Vouched, Dues, Charges, Answers

LEMMA RefineNext ==
  ASSUME IndInv, ChargesDue, [Next]_vars
  PROVE  Abstract!Next
<1>1. CASE UNCHANGED vars
  BY <1>1, RefineAside DEF vars
<1>2. CASE \E r \in Request, in \in Input : Accept(r, in)
  BY <1>2, RefineAccept
<1>3. ASSUME NEW r \in Request, Handle(r) PROVE Abstract!Next
  BY <1>3, RefineEntrypoint, RefineLogger, RefineChecks, RefineLimits, RefineProxy DEF Handle
<1>4. ASSUME NEW r \in Request, NEW o \in Outcome, Reply(r, o) PROVE Abstract!Next
  BY <1>4, RefineAnswers, RefineLimitReplies, RefineProxyReply DEF Reply
<1>5. ASSUME NEW c \in ConfigSet, ReceiveConfig(c) PROVE Abstract!Next
  <2>1. \A n \in Gen : n <= gen => config'[n] = config[n]
    <3>1. gen \in Int /\ config \in [Gen -> ConfigSet] /\ \A n \in Gen : n \in Int
      BY DEF IndInv, TypeOK, Gen
    <3>2. \A n \in Gen : n <= gen => n # gen + 1
      BY <3>1
    <3>3. config' = config \/ config' = [config EXCEPT ![gen + 1] = c]
      BY <1>5 DEF ReceiveConfig
    <3> QED
      BY <3>1, <3>2, <3>3
  <2> QED
    BY <1>5, <2>1, RefineAside DEF ReceiveConfig
<1>6. CASE \E t \in RoutingTable : ReceiveRoutes(t)
  BY <1>6, RefineAside DEF ReceiveRoutes
<1>7. CASE Expire
  BY <1>7, RefineAside DEF Expire, gateVars
<1> QED
  BY <1>1, <1>2, <1>3, <1>4, <1>5, <1>6, <1>7 DEF Next

\* GateSpec counts against limits due only, so its implementation does.
LEMMA StepDue ==
  ASSUME ChargesDue, Abstract!Next
  PROVE  ChargesDue'
<1>1. \A r \in Request : Charges[r] \subseteq Dues[r]
  BY DEF ChargesDue, Charges, Dues
<1>2. \A r \in Request : Phases[r] = "new" => Dues[r] = {}
  BY DEF Phases, Phase, Dues, LimitsDue, HasApp, Known
<1>3. ASSUME NEW r \in Request PROVE Charges'[r] \subseteq Dues'[r]
  <2>1. CASE Abstract!Vouch
    BY <1>1, <2>1 DEF Abstract!Vouch
  <2>2. ASSUME NEW q \in Request, Abstract!Resolve(q) PROVE Charges'[r] \subseteq Dues'[r]
    <3>1. PICK limits : Dues' = [Dues EXCEPT ![q] = limits]
      BY <2>2 DEF Abstract!Resolve
    <3>2. Charges' = Charges /\ Charges[q] = {}
      BY <1>1, <1>2, <2>2 DEF Abstract!Resolve
    <3> QED
      BY <1>1, <3>1, <3>2 DEF Dues
  <2>3. ASSUME NEW q \in Request, Abstract!Charge(q) PROVE Charges'[r] \subseteq Dues'[r]
    <3>1. PICK l \in Dues[q] : Charges' = [Charges EXCEPT ![q] = @ \cup {l}]
      BY <2>3 DEF Abstract!Charge
    <3>2. Dues' = Dues
      BY <2>3 DEF Abstract!Charge
    <3>3. DOMAIN Charges = Request
      BY DEF Charges
    <3>4. CASE r = q
      <4>1. Charges'[r] = Charges[q] \cup {l}
        BY <3>1, <3>3, <3>4
      <4> QED
        BY <1>1, <3>2, <3>4, <4>1
    <3>5. CASE r # q
      <4>1. Charges'[r] = Charges[r]
        BY <3>1, <3>3, <3>5
      <4> QED
        BY <1>1, <3>2, <4>1
    <3> QED
      BY <3>4, <3>5
  <2>4. ASSUME NEW q \in Request, Abstract!Forward(q) \/ Abstract!Refuse(q) \/ Abstract!Relay(q)
        PROVE  Charges'[r] \subseteq Dues'[r]
    BY <1>1, <2>4 DEF Abstract!Forward, Abstract!Refuse, Abstract!Relay
  <2> QED
    BY <2>1, <2>2, <2>3, <2>4 DEF Abstract!Next
<1> QED
  BY <1>3 DEF ChargesDue, Charges, Dues

\* Whatever is counted is due.
LEMMA CountedIsDue == Spec => []ChargesDue
<1>1. Init => ChargesDue
  <2> SUFFICES ASSUME Init, NEW r \in Request PROVE req[r].counted = {}
    BY DEF ChargesDue
  <2> QED
    BY DEF Init, NewRequest
<1>2. IndInv /\ ChargesDue /\ [Next]_vars => ChargesDue'
  BY RefineNext, StepDue
<1> QED
  BY <1>1, <1>2, GateInvariant, PTL DEF Spec

\* For any number of requests, reloads and route changes, a request of the
\* chain that Locator.Handler builds is forwarded at most once, entitled and
\* counted against exactly its limits, and answered once: every step of a
\* middleware is a step of GateSpec or is not seen.
THEOREM GateRefinement == Spec => ImplementsGateSpec
<1>1. Init => Abstract!Init
  BY RefineInit
<1>2. IndInv /\ ChargesDue /\ [Next]_vars => [Abstract!Next]_(Abstract!vars)
  BY RefineNext
<1> QED
  BY <1>1, <1>2, GateInvariant, CountedIsDue, PTL DEF Spec, ImplementsGateSpec, Abstract!Spec

\* Throttling and DailyLimit count admitted requests only, against the limits
\* of their application only, and miss none.
THEOREM LimitsCount == Spec => []LimitsCountAdmitted
<1>1. ASSUME IndInv, NEW r \in Request, req[r].forwarded
      PROVE  LimitsDue(r) \subseteq req[r].counted
  <2>1. Guarded(r) => UserChecked(r) /\ AppChecked(r) /\ RateCounted(r) /\ DailyCounted(r)
    BY <1>1 DEF IndInv, Progress
  <2> QED
    BY <1>1, <2>1, DueCounted
<1>2. IndInv /\ ChargesDue => LimitsCountAdmitted
  BY <1>1 DEF IndInv, Progress, LimitsCountAdmitted, ChargesDue
<1> QED
  BY <1>2, GateInvariant, CountedIsDue, PTL

\* ClientRequestId honours the per-application setting for the application that
\* Authenticate established, and for no other.
THEOREM ForwardedId == Spec => []ClientIdForwarding
<1>1. ASSUME IndInv, NEW r \in Request PROVE None \notin Conf(r).forwardIdByApp
  <2>1. Conf(r) \in ConfigType
    BY <1>1, GateAssumption DEF IndInv, TypeOK, RequestType, Conf
  <2> QED
    BY <2>1, GateAssumption DEF ConfigType
<1>2. ASSUME IndInv, NEW r \in Request, req[r].forwarded
      PROVE  /\ IdDecided(r)
             /\ Guarded(r) /\ ~AppWaived(r) => req[r].app = AppOf[AppToken(req[r].in)]
             /\ ~Guarded(r) \/ AppWaived(r) => req[r].app = None
  BY <1>2 DEF IndInv, Progress, UserChecked, AppChecked
<1>3. IndInv => ClientIdForwarding
  BY <1>1, <1>2 DEF ClientIdForwarding, IdDecided
<1> QED
  BY <1>3, GateInvariant, PTL
=============================================================================
