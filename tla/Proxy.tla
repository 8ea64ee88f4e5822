------------------------------- MODULE Proxy -------------------------------
(***************************************************************************)
(* Handle of the gRPC, HTTP and WebSocket proxies, with the ErrorHandler   *)
(* around it, for one admitted request: what the target is told about the  *)
(* caller, and what the client is answered when the target answers, fails, *)
(* is late or goes away.                                                   *)
(*                                                                         *)
(* A header is known by its lower-case name; ExtraHeaders, decoded from    *)
(* JSON, is keyed by spellings of names, and Go visits a map's keys in any *)
(* order.  A header without values and one that is not there are the same, *)
(* as they are to both kinds of targets.  The identities of an application *)
(* are one value.                                                          *)
(***************************************************************************)
EXTENDS Integers, Sequences

CONSTANTS
  Name,                      \* names of headers
  XName,                     \* those that begin with "x-"
  RequestIdHeader, ApplicationHeader, AdminIdHeader, ProxyMethodNameHeader,
  Value,                     \* values of headers
  Input,                     \* requests at the proxy, see InputType
  None

Spelling == [name : Name, upper : BOOLEAN]
Headers == [Name -> Seq(Value)]

\* domain.UserAuthData; the map of extra headers may be nil.
User ==
  [identity : Value, header : Spelling, extra : [Spelling -> Seq(Value)] \cup {None}]

\* What request.Context says of a request, and the client's own headers.
InputType ==
  [protocol : {"grpc", "http", "ws"}, skipAuth : BOOLEAN, client : Headers,
   requestId : Value, endpoint : Value,
   app : Value \cup {None}, user : User \cup {None}, admin : Value \cup {None}]

Own == {RequestIdHeader, ApplicationHeader, AdminIdHeader, ProxyMethodNameHeader}

ASSUME ProxyAssumption ==
  /\ Input \subseteq InputType
  /\ XName \subseteq Name
  /\ {RequestIdHeader, ApplicationHeader, AdminIdHeader} \subseteq XName
  /\ ProxyMethodNameHeader \in Name \ XName
  /\ ApplicationHeader # RequestIdHeader
  /\ AdminIdHeader \notin {RequestIdHeader, ApplicationHeader}
  /\ None \notin Value \cup User
  /\ None \notin [Spelling -> Seq(Value)]

NoHeaders == [name \in Name |-> << >>]

VARIABLES
  pc,
  in,       \* the request
  out,      \* the headers or metadata for the target
  pending,  \* keys of the user's headers not visited yet
  err,      \* the status of the error Handle returns
  sent,     \* the statuses written to the client
  lost      \* the client's connection is gone or was taken from net/http

vars == <<pc, in, out, pending, err, sent, lost>>

Init ==
  /\ pc = "start"
  /\ in \in Input
  /\ out = NoHeaders
  /\ pending = {}
  /\ err = None
  /\ sent = << >>
  /\ lost = FALSE

---------------------------------------------------------------------------
(* Headers.                                                                *)

SetHeader(h, name, values) == [h EXCEPT ![name] = values]
SetIf(h, name, value) == IF value = None THEN h ELSE SetHeader(h, name, <<value>>)

\* The keys of a map of extra headers.
Keys(extra) == {k \in Spelling : extra[k] # << >>}

Fail(status) == pc' = "failed" /\ err' = status
Abort == pc' = "done" /\ lost' = TRUE      \* a panic: net/http drops the connection

---------------------------------------------------------------------------
(* The gRPC proxy: io.ReadAll, writeMetadata.                              *)

ReadBodyFails ==
  /\ pc = "start" /\ in.protocol = "grpc"
  /\ Fail(500)
  /\ UNCHANGED <<in, out, pending, sent, lost>>

Metadata ==
  SetHeader(SetHeader(NoHeaders, ProxyMethodNameHeader, <<in.endpoint>>),
            RequestIdHeader, <<in.requestId>>)

\* Up to the loop over the user's headers.  The clone of a nil map is nil, and
\* the assignment of the identity to it panics.
WriteMetadata ==
  /\ pc = "start" /\ in.protocol = "grpc"
  /\ \/ /\ in.skipAuth
        /\ pc' = "waiting" /\ out' = Metadata
        /\ UNCHANGED <<pending, lost>>
     \/ /\ ~in.skipAuth /\ in.user # None /\ in.user.extra = None
        /\ Abort
        /\ UNCHANGED <<out, pending>>
     \/ /\ ~in.skipAuth /\ (in.user # None => in.user.extra # None)
        /\ pc' = "headers"
        /\ out' = SetIf(Metadata, ApplicationHeader, in.app)
        /\ pending' = IF in.user = None THEN {}
                      ELSE Keys(in.user.extra) \cup {in.user.header}
        /\ UNCHANGED lost
  /\ UNCHANGED <<in, err, sent>>

\* proxyHeaders, the clone with the identity in it.
ProxyHeader(k) == IF k = in.user.header THEN <<in.user.identity>> ELSE in.user.extra[k]

---------------------------------------------------------------------------
(* The HTTP and WebSocket proxies: hostManager.Next, setHttpHeaders.       *)

NextHostFails ==
  /\ pc = "start" /\ in.protocol # "grpc"
  /\ Fail(500)
  /\ UNCHANGED <<in, out, pending, sent, lost>>

\* Wrong variant: the request id is added to the client's own.
SetHttpHeadersAddsId ==
  /\ pc = "start" /\ in.protocol # "grpc"
  /\ LET h == IF in.protocol = "http" THEN in.client ELSE NoHeaders
     IN  out' = SetHeader(h, RequestIdHeader, h[RequestIdHeader] \o <<in.requestId>>)
  /\ IF in.skipAuth
     THEN pc' = "waiting" /\ UNCHANGED pending
     ELSE /\ pc' = "headers"
          /\ pending' = IF in.user = None \/ in.user.extra = None THEN {}
                        ELSE Keys(in.user.extra)
  /\ UNCHANGED <<in, err, sent, lost>>

\* The HTTP proxy changes the client's headers in place; websocketproxy starts
\* with headers of its own (external).
SetHttpHeaders ==
  /\ pc = "start" /\ in.protocol # "grpc"
  /\ out' = SetHeader(IF in.protocol = "http" THEN in.client ELSE NoHeaders,
                      RequestIdHeader, <<in.requestId>>)
  /\ IF in.skipAuth
     THEN pc' = "waiting" /\ UNCHANGED pending
     ELSE /\ pc' = "headers"
          /\ pending' = IF in.user = None \/ in.user.extra = None THEN {}
                        ELSE Keys(in.user.extra)
  /\ UNCHANGED <<in, err, sent, lost>>

---------------------------------------------------------------------------
(* Both: the loop over the user's headers, and what comes after it.        *)

VisitHeader(k) ==
  /\ pc = "headers" /\ k \in pending
  /\ pending' = pending \ {k}
  /\ out' = IF in.protocol = "grpc"
            THEN IF k.name \in XName THEN SetHeader(out, k.name, ProxyHeader(k)) ELSE out
            ELSE SetHeader(out, k.name, out[k.name] \o in.user.extra[k])
  /\ UNCHANGED <<pc, in, err, sent, lost>>

\* Wrong variant: an administrator id sent by the client is left in place.
FinishHeadersKeepsAdmin ==
  /\ pc = "headers" /\ pending = {}
  /\ pc' = "waiting"
  /\ out' = IF in.protocol = "grpc" THEN SetIf(out, AdminIdHeader, in.admin)
            ELSE LET h == IF in.user = None THEN out
                          ELSE SetHeader(out, in.user.header.name, <<in.user.identity>>)
                 IN  SetIf(SetIf(h, ApplicationHeader, in.app), AdminIdHeader, in.admin)
  /\ UNCHANGED <<in, pending, err, sent, lost>>

FinishHeaders ==
  /\ pc = "headers" /\ pending = {}
  /\ pc' = "waiting"
  /\ out' = IF in.protocol = "grpc" THEN SetIf(out, AdminIdHeader, in.admin)
            ELSE LET h == IF in.user = None THEN out
                          ELSE SetHeader(out, in.user.header.name, <<in.user.identity>>)
                 IN  SetIf(SetIf(SetHeader(h, AdminIdHeader, << >>), ApplicationHeader, in.app),
                           AdminIdHeader, in.admin)
  /\ UNCHANGED <<in, pending, err, sent, lost>>

---------------------------------------------------------------------------
(* Answers of a gRPC target.                                               *)

codeMap ==
  {<<200, "OK">>, <<408, "Canceled">>, <<400, "InvalidArgument">>,
   <<504, "DeadlineExceeded">>, <<404, "NotFound">>, <<409, "AlreadyExists">>,
   <<403, "PermissionDenied">>, <<401, "Unauthenticated">>, <<429, "ResourceExhausted">>,
   <<412, "FailedPrecondition">>, <<501, "Unimplemented">>, <<500, "Internal">>,
   <<503, "Unavailable">>}

Code == {p[2] : p \in codeMap} \cup {"Unknown", "Aborted", "OutOfRange", "DataLoss"}

\* inverseCodeMap, with its default.
CodeToHttpStatus(code) ==
  IF \E p \in codeMap : p[2] = code THEN (CHOOSE p \in codeMap : p[2] = code)[1] ELSE 500

\* writeResponse: the status, then a body whose write may fail.
WriteResponse(status) ==
  /\ sent' = Append(sent, status)
  /\ \/ pc' = "done" /\ UNCHANGED <<err, lost>>
     \/ Fail(500) /\ lost' = TRUE

\* The first detail that has content is the body; one that cannot be encoded,
\* or none, makes an error.  An error that is no status counts as Unavailable.
Detail == {"body", "unencodable", "none"}

\* Wrong variant: the body is written and the error is returned too.
HandleErrorTwice(code, detail) ==
  LET status == CodeToHttpStatus(code)
  IN  \/ detail = "body" /\ sent' = Append(sent, status) /\ Fail(status) /\ UNCHANGED lost
      \/ detail = "unencodable" /\ Fail(500) /\ UNCHANGED <<sent, lost>>
      \/ detail = "none" /\ Fail(status) /\ UNCHANGED <<sent, lost>>

HandleError(code, detail) ==
  LET status == CodeToHttpStatus(code)
  IN  \/ detail = "body" /\ WriteResponse(status)
      \/ detail = "unencodable" /\ Fail(500) /\ UNCHANGED <<sent, lost>>
      \/ detail = "none" /\ Fail(status) /\ UNCHANGED <<sent, lost>>

GrpcResult ==
  /\ pc = "waiting" /\ in.protocol = "grpc"
  /\ WriteResponse(200)
  /\ UNCHANGED <<in, out, pending>>

GrpcError(code, detail) ==
  /\ pc = "waiting" /\ in.protocol = "grpc"
  /\ HandleError(code, detail)
  /\ UNCHANGED <<in, out, pending>>

---------------------------------------------------------------------------
(* Answers of an HTTP or WebSocket target; both ways of relaying them are  *)
(* external.                                                               *)

HttpResponse(status) ==
  /\ pc = "waiting" /\ in.protocol = "http"
  /\ pc' = "relaying"
  /\ sent' = Append(sent, status)
  /\ UNCHANGED <<in, out, pending, err, lost>>

\* The rest of the body arrives or, with the response half written, does not:
\* httputil.ReverseProxy panics.
HttpBody ==
  /\ pc = "relaying"
  /\ \/ pc' = "done" /\ UNCHANGED lost
     \/ Abort
  /\ UNCHANGED <<in, out, pending, err, sent>>

\* reverseProxy.ErrorHandler.
HttpUnavailable ==
  /\ pc = "waiting" /\ in.protocol = "http"
  /\ Fail(503)
  /\ UNCHANGED <<in, out, pending, sent, lost>>

\* websocketproxy relays a refusal of the target, or answers 503 itself.
WsRefused(status) ==
  /\ pc = "waiting" /\ in.protocol = "ws"
  /\ pc' = "done"
  /\ sent' = Append(sent, status)
  /\ UNCHANGED <<in, out, pending, err, lost>>

\* Upgrader.Error.
WsUpgradeFails ==
  /\ pc = "waiting" /\ in.protocol = "ws"
  /\ Fail(503)
  /\ UNCHANGED <<in, out, pending, sent, lost>>

\* The connection is hijacked; the session has no time limit.
WsUpgrade ==
  /\ pc = "waiting" /\ in.protocol = "ws"
  /\ pc' = "session" /\ lost' = TRUE
  /\ sent' = Append(sent, 101)
  /\ UNCHANGED <<in, out, pending, err>>

WsSessionEnds ==
  /\ pc = "session"
  /\ pc' = "done"
  /\ UNCHANGED <<in, out, pending, err, sent, lost>>

---------------------------------------------------------------------------

\* Wrong variant: a gRPC call has no deadline.
TimeoutHttpOnly ==
  /\ \/ pc = "waiting" /\ in.protocol = "http" /\ Fail(503) /\ UNCHANGED <<sent, lost>>
     \/ pc = "relaying" /\ Abort /\ UNCHANGED <<err, sent>>
  /\ UNCHANGED <<in, out, pending>>

\* The deadline of context.WithTimeout.
Timeout ==
  /\ \/ /\ pc = "waiting" /\ in.protocol = "grpc"
        /\ HandleError("DeadlineExceeded", "none")
     \/ pc = "waiting" /\ in.protocol = "http" /\ Fail(503) /\ UNCHANGED <<sent, lost>>
     \/ pc = "relaying" /\ Abort /\ UNCHANGED <<err, sent>>
  /\ UNCHANGED <<in, out, pending>>

\* A failed write of the body is only logged, by Entrypoint.
WriteError(status) == sent' = Append(sent, status)

\* An error that is no HttpError was given 500 by Fail.
ErrorHandler ==
  /\ pc = "failed"
  /\ pc' = "done"
  /\ WriteError(err)
  /\ UNCHANGED <<in, out, pending, err, lost>>

Prepare ==
  \/ ReadBodyFails
  \/ WriteMetadata
  \/ NextHostFails
  \/ SetHttpHeaders
  \/ \E k \in pending : VisitHeader(k)
  \/ FinishHeaders

Status == {p[1] : p \in codeMap}

Target ==
  \/ GrpcResult
  \/ \E code \in Code \ {"OK"}, detail \in Detail : GrpcError(code, detail)
  \/ \E status \in Status : HttpResponse(status)
  \/ HttpBody
  \/ HttpUnavailable
  \/ \E status \in Status \ {200} : WsRefused(status)
  \/ WsUpgradeFails
  \/ WsUpgrade
  \/ WsSessionEnds

Next == Prepare \/ Target \/ Timeout \/ ErrorHandler

Spec == Init /\ [][Next]_vars

\* The code runs, and deadlines pass.  Nothing is assumed about targets.
FairSpec == Spec /\ WF_vars(Prepare) /\ WF_vars(Timeout) /\ WF_vars(ErrorHandler)

---------------------------------------------------------------------------
(* Properties.                                                             *)

Calling == {"waiting", "relaying", "session"}

TypeOK ==
  /\ pc \in {"start", "headers", "failed", "done"} \cup Calling
  /\ in \in Input
  /\ out \in Headers
  /\ pending \in SUBSET Spelling
  /\ err \in Status \cup {None}
  /\ sent \in Seq(Status \cup {101})
  /\ lost \in BOOLEAN

\* The names the user's headers go by.
UserNames ==
  IF in.user = None THEN {}
  ELSE {in.user.header.name} \cup
       (IF in.user.extra = None THEN {} ELSE {k.name : k \in Keys(in.user.extra)})

\* The identity header has one spelling, reaches targets of the protocol and
\* is not a header the gateway fills itself.
IdentityIsPlain ==
  /\ in.user.header.name \notin Own
  /\ in.protocol = "grpc" =>
       /\ in.user.header.name \in XName
       /\ in.user.extra # None =>
            \A k \in Keys(in.user.extra) : k.name = in.user.header.name => k = in.user.header

Told(name, value) == out[name] = <<value>>

\* What a target of a guarded location is told while it is called: the request
\* id, the application and the administrator the gateway authenticated, no
\* other administrator, and the user's identity.  The user's own headers can
\* only replace them in gRPC metadata, or add to the request id.
TargetKnowsCaller ==
  pc \in Calling /\ ~in.skipAuth =>
    LET Ours(name) == name \notin UserNames \/ in.protocol # "grpc"
    IN  /\ RequestIdHeader \notin UserNames => Told(RequestIdHeader, in.requestId)
        /\ in.app # None /\ Ours(ApplicationHeader) => Told(ApplicationHeader, in.app)
        /\ in.admin # None => Told(AdminIdHeader, in.admin)
        /\ in.admin = None /\ Ours(AdminIdHeader) => out[AdminIdHeader] = << >>
        /\ in.user # None /\ IdentityIsPlain => Told(in.user.header.name, in.user.identity)

\* Handle and ErrorHandler together write one response, unless the connection
\* is gone or has become a WebSocket session.
OneResponse ==
  /\ pc = "session" => lost
  /\ ~lost => Len(sent) = (IF pc \in {"done", "relaying"} THEN 1 ELSE 0)

\* The headers as far as they are made.
HeadersSoFar ==
  pc = "headers" =>
    /\ ~in.skipAuth
    /\ in.user = None => pending = {}
    /\ in.user # None => /\ in.protocol = "grpc" => in.user.extra # None
                         /\ \A k \in pending : \/ k = in.user.header /\ in.protocol = "grpc"
                                               \/ in.user.extra # None /\ k \in Keys(in.user.extra)
    /\ RequestIdHeader \notin UserNames => Told(RequestIdHeader, in.requestId)
    /\ in.protocol = "grpc" =>
         /\ in.app # None /\ ApplicationHeader \notin UserNames => Told(ApplicationHeader, in.app)
         /\ AdminIdHeader \notin UserNames => out[AdminIdHeader] = << >>
         /\ in.user # None /\ IdentityIsPlain /\ in.user.header \notin pending =>
              Told(in.user.header.name, in.user.identity)

ErrorIsKnown == pc = "failed" => err \in Status

\* The inductive invariant of a proxied request.
IndInv == TypeOK /\ HeadersSoFar /\ TargetKnowsCaller /\ OneResponse /\ ErrorIsKnown

\* Whatever the target does, the gRPC and HTTP proxies come back.
HandleReturns == (pc = "start" /\ in.protocol # "ws") ~> pc = "done"
=============================================================================
