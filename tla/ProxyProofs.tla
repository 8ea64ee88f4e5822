---------------------------- MODULE ProxyProofs ----------------------------
(***************************************************************************)
(* What a target is told, and that a client is answered once: for every    *)
(* set of header names, every map of extra headers in every order of its   *)
(* keys, and everything a target may do.                                   *)
(***************************************************************************)
EXTENDS Proxy, TLAPS

LEMMA SetHeaderFacts ==
  ASSUME NEW h \in Headers, NEW name \in Name, NEW values \in Seq(Value)
  PROVE  /\ SetHeader(h, name, values) \in Headers
         /\ SetHeader(h, name, values)[name] = values
         /\ \A n \in Name \ {name} : SetHeader(h, name, values)[n] = h[n]
BY DEF SetHeader, Headers

LEMMA OneHeaderFacts ==
  ASSUME NEW h \in Headers, NEW name \in Name, NEW value \in Value
  PROVE  /\ SetHeader(h, name, <<value>>) \in Headers
         /\ SetHeader(h, name, <<value>>)[name] = <<value>>
         /\ \A n \in Name \ {name} : SetHeader(h, name, <<value>>)[n] = h[n]
<1> DEFINE values == <<value>>
<1>1. values \in Seq(Value)
  OBVIOUS
<1> HIDE DEF values
<1>2. /\ SetHeader(h, name, values) \in Headers
      /\ SetHeader(h, name, values)[name] = values
      /\ \A n \in Name \ {name} : SetHeader(h, name, values)[n] = h[n]
  BY <1>1, SetHeaderFacts
<1> QED
  BY <1>2, Zenon DEF values

LEMMA NoHeaderFacts ==
  ASSUME NEW h \in Headers, NEW name \in Name
  PROVE  /\ SetHeader(h, name, << >>) \in Headers
         /\ SetHeader(h, name, << >>)[name] = << >>
         /\ \A n \in Name \ {name} : SetHeader(h, name, << >>)[n] = h[n]
<1> DEFINE values == << >>
<1>1. values \in Seq(Value)
  OBVIOUS
<1> HIDE DEF values
<1>2. /\ SetHeader(h, name, values) \in Headers
      /\ SetHeader(h, name, values)[name] = values
      /\ \A n \in Name \ {name} : SetHeader(h, name, values)[n] = h[n]
  BY <1>1, SetHeaderFacts
<1> QED
  BY <1>2, Zenon DEF values

LEMMA SetIfFacts ==
  ASSUME NEW h \in Headers, NEW name \in Name, NEW value \in Value \cup {None}
  PROVE  /\ SetIf(h, name, value) \in Headers
         /\ value # None => SetIf(h, name, value)[name] = <<value>>
         /\ value = None => SetIf(h, name, value)[name] = h[name]
         /\ \A n \in Name \ {name} : SetIf(h, name, value)[n] = h[n]
<1>1. CASE value = None
  BY <1>1 DEF SetIf
<1>2. CASE value # None
  <2>1. value \in Value
    BY <1>2
  <2>2. SetIf(h, name, value) = SetHeader(h, name, <<value>>)
    BY <1>2 DEF SetIf
  <2>3. /\ SetHeader(h, name, <<value>>) \in Headers
        /\ SetHeader(h, name, <<value>>)[name] = <<value>>
        /\ \A n \in Name \ {name} : SetHeader(h, name, <<value>>)[n] = h[n]
    BY <2>1, OneHeaderFacts, Zenon
  <2> QED
    BY <1>2, <2>2, <2>3, Zenon
<1> QED
  BY <1>1, <1>2

LEMMA NoHeadersType == NoHeaders \in Headers /\ \A n \in Name : NoHeaders[n] = << >>
BY DEF NoHeaders, Headers

\* What may be assumed of a request.
LEMMA InputFacts ==
  ASSUME NEW i \in Input
  PROVE  /\ i.protocol \in {"grpc", "http", "ws"} /\ i.skipAuth \in BOOLEAN
         /\ i.client \in Headers /\ i.requestId \in Value /\ i.endpoint \in Value
         /\ i.app \in Value \cup {None} /\ i.admin \in Value \cup {None}
         /\ i.user # None =>
              /\ i.user.identity \in Value /\ i.user.header \in Spelling
              /\ i.user.header.name \in Name
              /\ i.user.extra # None => i.user.extra \in [Spelling -> Seq(Value)]
<1>1. i \in InputType
  BY ProxyAssumption
<1>2. i.user \in User \cup {None}
  BY <1>1 DEF InputType
<1>3. i.user # None => /\ i.user.identity \in Value /\ i.user.header \in Spelling
                       /\ i.user.extra # None => i.user.extra \in [Spelling -> Seq(Value)]
  BY <1>2 DEF User
<1>4. i.user # None => i.user.header.name \in Name
  BY <1>3 DEF Spelling
<1> QED
  BY <1>1, <1>3, <1>4 DEF InputType

LEMMA NamesFacts ==
  /\ RequestIdHeader \in Name /\ ApplicationHeader \in Name /\ AdminIdHeader \in Name
  /\ ProxyMethodNameHeader \in Name
  /\ ApplicationHeader # RequestIdHeader /\ AdminIdHeader # RequestIdHeader
  /\ AdminIdHeader # ApplicationHeader
  /\ ProxyMethodNameHeader \notin {RequestIdHeader, ApplicationHeader, AdminIdHeader}
BY ProxyAssumption

\* init visits codeMap in any order: no code has two statuses to choose from.
LEMMA InverseIsUnique == \A p, q \in codeMap : p[2] = q[2] => p = q
BY DEF codeMap

LEMMA StatusFacts ==
  /\ 200 \in Status /\ 500 \in Status /\ 503 \in Status
  /\ \A code : CodeToHttpStatus(code) \in Status
<1>1. <<200, "OK">> \in codeMap /\ <<500, "Internal">> \in codeMap
      /\ <<503, "Unavailable">> \in codeMap
  BY DEF codeMap
<1>2. 200 \in Status /\ 500 \in Status /\ 503 \in Status
  <2>1. <<200, "OK">>[1] \in Status /\ <<500, "Internal">>[1] \in Status
        /\ <<503, "Unavailable">>[1] \in Status
    BY <1>1, Zenon DEF Status
  <2>2. /\ <<200, "OK">>[1] = 200 /\ <<500, "Internal">>[1] = 500
        /\ <<503, "Unavailable">>[1] = 503
    OBVIOUS
  <2> QED
    BY <2>1, <2>2, Zenon
<1>3. ASSUME NEW code PROVE CodeToHttpStatus(code) \in Status
  <2>1. CASE \E p \in codeMap : p[2] = code
    <3> DEFINE p == CHOOSE p \in codeMap : p[2] = code
    <3>1. p \in codeMap
      BY <2>1
    <3>2. CodeToHttpStatus(code) = p[1]
      BY <2>1 DEF CodeToHttpStatus
    <3> HIDE DEF p
    <3> QED
      BY <3>1, <3>2, Zenon DEF Status
  <2>2. CASE ~\E p \in codeMap : p[2] = code
    BY <1>2, <2>2 DEF CodeToHttpStatus
  <2> QED
    BY <2>1, <2>2
<1> QED
  BY <1>2, <1>3

---------------------------------------------------------------------------

LEMMA InitInv == Init => IndInv
<1> SUFFICES ASSUME Init PROVE IndInv
  OBVIOUS
<1>1. out \in Headers
  BY NoHeadersType DEF Init
<1>2. sent \in Seq(Status \cup {101}) /\ Len(sent) = 0
  BY DEF Init
<1>3. TypeOK
  BY <1>1, <1>2 DEF Init, TypeOK, Calling
<1> QED
  BY <1>2, <1>3 DEF Init, IndInv, HeadersSoFar, TargetKnowsCaller, OneResponse, ErrorIsKnown,
                    Calling

\* Once the target is called, what it was told stays.
LEMMA Relayed ==
  ASSUME IndInv, UNCHANGED <<in, out, pending>>,
         pc' \in {"failed", "done"} \cup Calling, pc' \in Calling => pc \in Calling,
         err' \in Status \cup {None}, sent' \in Seq(Status \cup {101}), lost' \in BOOLEAN,
         OneResponse', ErrorIsKnown'
  PROVE  IndInv'
<1>1. TypeOK'
  BY DEF IndInv, TypeOK
<1>2. HeadersSoFar'
  BY DEF HeadersSoFar, Calling
<1>3. TargetKnowsCaller'
  BY DEF IndInv, TargetKnowsCaller, Told, UserNames, IdentityIsPlain
<1> QED
  BY <1>1, <1>2, <1>3 DEF IndInv

\* Writing the response, or returning an error before anything is written.
LEMMA Answered ==
  ASSUME IndInv, UNCHANGED <<in, out, pending>>, pc = "waiting", NEW status \in Status,
         \/ WriteResponse(status)
         \/ Fail(status) /\ UNCHANGED <<sent, lost>>
  PROVE  IndInv'
<1>1. sent \in Seq(Status \cup {101}) /\ lost \in BOOLEAN /\ err \in Status \cup {None}
  BY DEF IndInv, TypeOK
<1>2. ~lost => Len(sent) = 0
  BY DEF IndInv, OneResponse
<1>3. CASE WriteResponse(status)
  <2>1. /\ sent' = Append(sent, status) /\ 500 \in Status
        /\ \/ pc' = "done" /\ err' = err /\ lost' = lost
           \/ pc' = "failed" /\ err' = 500 /\ lost' = TRUE
    BY <1>3, StatusFacts DEF WriteResponse, Fail
  <2>2. sent' \in Seq(Status \cup {101}) /\ Len(sent') = Len(sent) + 1
    BY <1>1, <2>1
  <2>3. OneResponse'
    BY <1>2, <2>1, <2>2 DEF OneResponse
  <2>4. ErrorIsKnown' /\ err' \in Status \cup {None} /\ lost' \in BOOLEAN
    BY <1>1, <2>1 DEF ErrorIsKnown
  <2> QED
    BY <2>1, <2>2, <2>3, <2>4, Relayed DEF Calling
<1>4. CASE Fail(status) /\ UNCHANGED <<sent, lost>>
  <2>1. pc' = "failed" /\ err' = status /\ sent' = sent /\ lost' = lost
    BY <1>4 DEF Fail
  <2>2. OneResponse' /\ ErrorIsKnown'
    BY <1>2, <2>1 DEF OneResponse, ErrorIsKnown
  <2> QED
    BY <1>1, <2>1, <2>2, Relayed DEF Calling
<1> QED
  BY <1>3, <1>4

\* The same for a step that writes a status, or gives the connection up.
LEMMA Written ==
  ASSUME IndInv, UNCHANGED <<in, out, pending, err>>,
         pc \in Calling \cup {"failed"}, pc' \in {"done"} \cup Calling,
         pc' \in Calling => pc \in Calling,
         sent' \in Seq(Status \cup {101}), lost' \in BOOLEAN, OneResponse'
  PROVE  IndInv'
<1>1. err' \in Status \cup {None} /\ ErrorIsKnown'
  BY DEF IndInv, TypeOK, ErrorIsKnown, Calling
<1> QED
  BY <1>1, Relayed

LEMMA HandleErrorInv ==
  ASSUME IndInv, UNCHANGED <<in, out, pending>>, pc = "waiting", NEW code, NEW detail \in Detail,
         HandleError(code, detail)
  PROVE  IndInv'
<1>1. CodeToHttpStatus(code) \in Status /\ 500 \in Status
  BY StatusFacts
<1>2. \/ WriteResponse(CodeToHttpStatus(code))
      \/ Fail(500) /\ UNCHANGED <<sent, lost>>
      \/ Fail(CodeToHttpStatus(code)) /\ UNCHANGED <<sent, lost>>
  BY DEF HandleError
<1> QED
  BY <1>1, <1>2, Answered

LEMMA TargetInv == IndInv /\ Target => IndInv'
<1> SUFFICES ASSUME IndInv, Target PROVE IndInv'
  OBVIOUS
<1> USE StatusFacts
<1>1. /\ sent \in Seq(Status \cup {101}) /\ lost \in BOOLEAN
      /\ ~lost => Len(sent) = (IF pc \in {"done", "relaying"} THEN 1 ELSE 0)
  BY DEF IndInv, TypeOK, OneResponse
<1>2. \A s \in Status \cup {101} :
        Append(sent, s) \in Seq(Status \cup {101}) /\ Len(Append(sent, s)) = Len(sent) + 1
  BY <1>1
<1>3. CASE GrpcResult
  BY <1>3, Answered DEF GrpcResult
<1>4. ASSUME NEW code \in Code \ {"OK"}, NEW detail \in Detail, GrpcError(code, detail)
      PROVE  IndInv'
  BY <1>4, HandleErrorInv DEF GrpcError
<1>5. ASSUME NEW status \in Status, HttpResponse(status) PROVE IndInv'
  <2>1. /\ pc = "waiting" /\ pc' = "relaying" /\ sent' = Append(sent, status)
        /\ UNCHANGED <<in, out, pending, err, lost>>
    BY <1>5 DEF HttpResponse
  <2>2. OneResponse'
    BY <1>1, <1>2, <2>1 DEF OneResponse
  <2> QED
    BY <1>1, <1>2, <2>1, <2>2, Written DEF Calling
<1>6. CASE HttpBody
  <2>1. /\ pc = "relaying" /\ pc' = "done" /\ UNCHANGED <<in, out, pending, err, sent>>
        /\ lost' = lost \/ lost' = TRUE
    BY <1>6 DEF HttpBody, Abort
  <2>2. OneResponse'
    BY <1>1, <2>1 DEF OneResponse
  <2> QED
    BY <1>1, <2>1, <2>2, Written DEF Calling
<1>7. CASE HttpUnavailable
  BY <1>7, Answered DEF HttpUnavailable
<1>8. ASSUME NEW status \in Status \ {200}, WsRefused(status) PROVE IndInv'
  <2>1. /\ pc = "waiting" /\ pc' = "done" /\ sent' = Append(sent, status)
        /\ UNCHANGED <<in, out, pending, err, lost>>
    BY <1>8 DEF WsRefused
  <2>2. OneResponse'
    BY <1>1, <1>2, <2>1 DEF OneResponse
  <2> QED
    BY <1>1, <1>2, <2>1, <2>2, Written DEF Calling
<1>9. CASE WsUpgradeFails
  BY <1>9, Answered DEF WsUpgradeFails
<1>10. CASE WsUpgrade
  <2>1. /\ pc = "waiting" /\ pc' = "session" /\ sent' = Append(sent, 101) /\ lost' = TRUE
        /\ UNCHANGED <<in, out, pending, err>>
    BY <1>10 DEF WsUpgrade
  <2>2. OneResponse'
    BY <2>1 DEF OneResponse
  <2> QED
    BY <1>2, <2>1, <2>2, Written DEF Calling
<1>11. CASE WsSessionEnds
  <2>1. /\ pc = "session" /\ pc' = "done" /\ UNCHANGED <<in, out, pending, err, sent, lost>>
    BY <1>11 DEF WsSessionEnds
  <2>2. OneResponse'
    BY <2>1 DEF IndInv, OneResponse
  <2> QED
    BY <1>1, <2>1, <2>2, Written DEF Calling
<1> QED
  BY <1>3, <1>4, <1>5, <1>6, <1>7, <1>8, <1>9, <1>10, <1>11 DEF Target

LEMMA TimeoutInv == IndInv /\ Timeout => IndInv'
<1> SUFFICES ASSUME IndInv, Timeout PROVE IndInv'
  OBVIOUS
<1>1. CASE pc = "waiting" /\ HandleError("DeadlineExceeded", "none")
  BY <1>1, HandleErrorInv DEF Timeout, Detail
<1>2. CASE pc = "waiting" /\ Fail(503) /\ UNCHANGED <<sent, lost>>
  BY <1>2, StatusFacts, Answered DEF Timeout
<1>3. CASE pc = "relaying" /\ Abort /\ UNCHANGED <<err, sent>>
  <2>1. /\ pc = "relaying" /\ pc' = "done" /\ lost' = TRUE
        /\ UNCHANGED <<in, out, pending, err, sent>>
    BY <1>3 DEF Timeout, Abort
  <2>2. OneResponse' /\ sent' \in Seq(Status \cup {101})
    BY <2>1 DEF IndInv, TypeOK, OneResponse
  <2> QED
    BY <2>1, <2>2, Written DEF Calling
<1> QED
  BY <1>1, <1>2, <1>3 DEF Timeout

LEMMA ErrorHandlerInv == IndInv /\ ErrorHandler => IndInv'
<1> SUFFICES ASSUME IndInv, ErrorHandler PROVE IndInv'
  OBVIOUS
<1>1. /\ pc = "failed" /\ pc' = "done" /\ sent' = Append(sent, err)
      /\ UNCHANGED <<in, out, pending, err, lost>>
  BY DEF ErrorHandler, WriteError
<1>2. sent \in Seq(Status \cup {101}) /\ lost \in BOOLEAN /\ err \in Status
      /\ (~lost => Len(sent) = 0)
  BY <1>1 DEF IndInv, TypeOK, OneResponse, ErrorIsKnown
<1>3. sent' \in Seq(Status \cup {101}) /\ Len(sent') = Len(sent) + 1
  BY <1>1, <1>2
<1>4. OneResponse'
  BY <1>1, <1>2, <1>3 DEF OneResponse
<1> QED
  BY <1>1, <1>2, <1>3, <1>4, Written DEF Calling

---------------------------------------------------------------------------

\* A step that prepares the call and writes nothing.
LEMMA Prepared ==
  ASSUME IndInv, UNCHANGED <<in, err, sent, lost>>, pc \in {"start", "headers"},
         pc' \in {"headers", "waiting"}, out' \in Headers, pending' \in SUBSET Spelling,
         HeadersSoFar', TargetKnowsCaller'
  PROVE  IndInv'
<1>1. TypeOK'
  BY DEF IndInv, TypeOK, Calling
<1>2. OneResponse' /\ ErrorIsKnown'
  BY DEF IndInv, OneResponse, ErrorIsKnown
<1> QED
  BY <1>1, <1>2 DEF IndInv

\* Giving up before the call.
LEMMA GaveUp ==
  ASSUME IndInv, UNCHANGED <<in, out, pending, sent>>, pc \in {"start", "headers"},
         \/ Fail(500) /\ UNCHANGED lost
         \/ Abort /\ UNCHANGED err
  PROVE  IndInv'
<1>1. \/ pc' = "failed" /\ err' = 500 /\ lost' = lost
      \/ pc' = "done" /\ lost' = TRUE /\ err' = err
  BY DEF Fail, Abort
<1>2. sent' \in Seq(Status \cup {101}) /\ err' \in Status \cup {None} /\ lost' \in BOOLEAN
  <2>1. /\ sent \in Seq(Status \cup {101}) /\ err \in Status \cup {None}
        /\ lost \in BOOLEAN /\ sent' = sent
    BY DEF IndInv, TypeOK
  <2>2. 500 \in Status
    BY StatusFacts
  <2>3. CASE pc' = "failed" /\ err' = 500 /\ lost' = lost
    BY <2>1, <2>2, <2>3, Zenon
  <2>4. CASE pc' = "done" /\ lost' = TRUE /\ err' = err
    BY <2>1, <2>4, Zenon
  <2> QED
    BY <1>1, <2>3, <2>4, Zenon
<1>3. ErrorIsKnown'
  BY <1>1, StatusFacts DEF ErrorIsKnown
<1>4. ~lost => Len(sent) = 0
  BY DEF IndInv, OneResponse
<1>5. OneResponse'
  BY <1>1, <1>4 DEF OneResponse
<1> QED
  BY <1>1, <1>2, <1>3, <1>5, Relayed DEF Calling

LEMMA KeysType ==
  ASSUME NEW extra
  PROVE  Keys(extra) \in SUBSET Spelling
BY DEF Keys

LEMMA WriteMetadataInv ==
  ASSUME IndInv, WriteMetadata
  PROVE  IndInv'
<1> DEFINE md == Metadata
<1>1. in \in Input /\ pc = "start" /\ in.protocol = "grpc" /\ UNCHANGED <<in, err, sent>>
  BY DEF WriteMetadata, IndInv, TypeOK
<1>2. /\ md \in Headers /\ md[RequestIdHeader] = <<in.requestId>>
      /\ md[AdminIdHeader] = << >>
  <2>1. in.endpoint \in Value /\ in.requestId \in Value
    BY <1>1, InputFacts
  <2> DEFINE m1 == SetHeader(NoHeaders, ProxyMethodNameHeader, <<in.endpoint>>)
  <2>2. m1 \in Headers /\ m1[AdminIdHeader] = << >>
    <3>1. AdminIdHeader \in Name \ {ProxyMethodNameHeader} /\ ProxyMethodNameHeader \in Name
      BY NamesFacts
    <3>2. NoHeaders \in Headers /\ NoHeaders[AdminIdHeader] = << >>
      BY <3>1, NoHeadersType
    <3> QED
      BY <2>1, <3>1, <3>2, OneHeaderFacts, Zenon
  <2>3. md = SetHeader(m1, RequestIdHeader, <<in.requestId>>)
    BY DEF Metadata
  <2>4. AdminIdHeader \in Name \ {RequestIdHeader} /\ RequestIdHeader \in Name
    BY NamesFacts
  <2> HIDE DEF m1, md
  <2> QED
    BY <2>1, <2>2, <2>3, <2>4, OneHeaderFacts, Zenon
<1> HIDE DEF md
<1>3. CASE in.skipAuth /\ pc' = "waiting" /\ out' = md /\ UNCHANGED <<pending, lost>>
  <2>1. HeadersSoFar' /\ TargetKnowsCaller' /\ pending' \in SUBSET Spelling
    BY <1>1, <1>3 DEF HeadersSoFar, TargetKnowsCaller, IndInv, TypeOK
  <2> QED
    BY <1>1, <1>2, <1>3, <2>1, Prepared
<1>4. CASE Abort /\ UNCHANGED <<out, pending>>
  BY <1>1, <1>4, GaveUp
<1>5. CASE /\ ~in.skipAuth /\ (in.user # None => in.user.extra # None)
           /\ pc' = "headers"
           /\ out' = SetIf(md, ApplicationHeader, in.app)
           /\ pending' = IF in.user = None THEN {}
                         ELSE Keys(in.user.extra) \cup {in.user.header}
           /\ UNCHANGED lost
  <2>1. /\ out' \in Headers /\ out'[RequestIdHeader] = <<in.requestId>>
        /\ out'[AdminIdHeader] = << >>
        /\ in.app # None => out'[ApplicationHeader] = <<in.app>>
    <3>1. /\ AdminIdHeader \in Name \ {ApplicationHeader} /\ ApplicationHeader \in Name
          /\ RequestIdHeader \in Name \ {ApplicationHeader}
      BY NamesFacts
    <3>2. in.app \in Value \cup {None} /\ out' = SetIf(md, ApplicationHeader, in.app)
      BY <1>1, <1>5, InputFacts
    <3> QED
      BY <1>2, <3>1, <3>2, SetIfFacts
  <2>2. pending' \in SUBSET Spelling
    BY <1>1, <1>5, InputFacts, KeysType
  <2>3. in.user # None => in.user.header \in pending'
    BY <1>5
  <2>4. \A k \in pending' : k = in.user.header \/ k \in Keys(in.user.extra)
    BY <1>5
  <2>5. HeadersSoFar'
    BY <1>1, <1>5, <2>1, <2>3, <2>4 DEF HeadersSoFar, Told
  <2>6. TargetKnowsCaller'
    BY <1>5 DEF TargetKnowsCaller, Calling
  <2> QED
    BY <1>1, <1>5, <2>1, <2>2, <2>5, <2>6, Prepared
<1> QED
  BY <1>3, <1>4, <1>5 DEF WriteMetadata, md

LEMMA SetHttpHeadersInv ==
  ASSUME IndInv, SetHttpHeaders
  PROVE  IndInv'
<1> DEFINE h == IF in.protocol = "http" THEN in.client ELSE NoHeaders
<1>1. /\ in \in Input /\ pc = "start" /\ in.protocol # "grpc" /\ UNCHANGED <<in, err, sent, lost>>
      /\ out' = SetHeader(h, RequestIdHeader, <<in.requestId>>)
  BY DEF SetHttpHeaders, IndInv, TypeOK
<1>2. h \in Headers /\ <<in.requestId>> \in Seq(Value)
  BY <1>1, InputFacts, NoHeadersType
<1> HIDE DEF h
<1>3. out' \in Headers /\ out'[RequestIdHeader] = <<in.requestId>>
  BY <1>1, <1>2, SetHeaderFacts, NamesFacts
<1>4. CASE in.skipAuth
  <2>1. pc' = "waiting" /\ pending' = pending
    BY <1>4 DEF SetHttpHeaders
  <2>2. HeadersSoFar' /\ TargetKnowsCaller' /\ pending' \in SUBSET Spelling
    BY <1>1, <1>4, <2>1 DEF HeadersSoFar, TargetKnowsCaller, IndInv, TypeOK
  <2> QED
    BY <1>1, <1>3, <2>1, <2>2, Prepared
<1>5. CASE ~in.skipAuth
  <2>1. /\ pc' = "headers"
        /\ pending' = IF in.user = None \/ in.user.extra = None THEN {} ELSE Keys(in.user.extra)
    BY <1>5 DEF SetHttpHeaders
  <2>2. pending' \in SUBSET Spelling
    BY <2>1, KeysType
  <2>3. HeadersSoFar'
    BY <1>1, <1>3, <1>5, <2>1 DEF HeadersSoFar, Told
  <2>4. TargetKnowsCaller'
    BY <2>1 DEF TargetKnowsCaller, Calling
  <2> QED
    BY <1>1, <1>3, <2>1, <2>2, <2>3, <2>4, Prepared
<1> QED
  BY <1>1, <1>4, <1>5, InputFacts

LEMMA UserNamesFacts ==
  ASSUME in.user # None
  PROVE  /\ in.user.header.name \in UserNames
         /\ in.user.extra # None => \A k \in Keys(in.user.extra) : k.name \in UserNames
BY DEF UserNames

LEMMA VisitHeaderInv ==
  ASSUME IndInv, NEW k \in pending, VisitHeader(k)
  PROVE  IndInv'
<1>1. /\ in \in Input /\ out \in Headers /\ pending \in SUBSET Spelling
      /\ pc = "headers" /\ HeadersSoFar
  BY DEF VisitHeader, IndInv, TypeOK
<1>2. /\ pending' = pending \ {k} /\ pc' = pc /\ UNCHANGED <<in, err, sent, lost>>
  BY DEF VisitHeader
<1>3. in.user # None /\ ~in.skipAuth
  BY <1>1 DEF HeadersSoFar
<1>4. k \in Spelling /\ k.name \in Name
  BY <1>1 DEF Spelling
<1>5. \/ k = in.user.header /\ in.protocol = "grpc"
      \/ in.user.extra # None /\ k \in Keys(in.user.extra)
  BY <1>1, <1>3 DEF HeadersSoFar
<1>6. k.name \in UserNames
  BY <1>3, <1>5, UserNamesFacts
<1>7. \E values \in Seq(Value) :
        /\ out' = SetHeader(out, k.name, values) \/ (out' = out /\ k.name \notin XName)
        /\ in.protocol = "grpc" /\ k = in.user.header => values = <<in.user.identity>>
  <2>1. CASE in.protocol = "grpc"
    <3>1. ProxyHeader(k) \in Seq(Value)
      <4>1. CASE k = in.user.header
        BY <1>1, <1>3, <4>1, InputFacts DEF ProxyHeader
      <4>2. CASE k # in.user.header
        <5>1. in.user.extra \in [Spelling -> Seq(Value)]
          BY <1>1, <1>3, <1>5, <4>2, InputFacts
        <5> QED
          BY <1>4, <4>2, <5>1 DEF ProxyHeader
      <4> QED
        BY <4>1, <4>2
    <3>2. k = in.user.header => ProxyHeader(k) = <<in.user.identity>>
      BY DEF ProxyHeader
    <3>3. out' = IF k.name \in XName THEN SetHeader(out, k.name, ProxyHeader(k)) ELSE out
      BY <2>1 DEF VisitHeader
    <3> QED
      BY <3>1, <3>2, <3>3
  <2>2. CASE in.protocol # "grpc"
    <3>1. in.user.extra \in [Spelling -> Seq(Value)]
      BY <1>1, <1>3, <1>5, <2>2, InputFacts
    <3>2. out[k.name] \in Seq(Value) /\ in.user.extra[k] \in Seq(Value)
      BY <1>1, <1>4, <3>1 DEF Headers
    <3>3. out[k.name] \o in.user.extra[k] \in Seq(Value)
      BY <3>2
    <3>4. out' = SetHeader(out, k.name, out[k.name] \o in.user.extra[k])
      BY <2>2 DEF VisitHeader
    <3> QED
      BY <2>2, <3>3, <3>4
  <2> QED
    BY <2>1, <2>2
<1>8. PICK values \in Seq(Value) :
        /\ out' = SetHeader(out, k.name, values) \/ (out' = out /\ k.name \notin XName)
        /\ in.protocol = "grpc" /\ k = in.user.header => values = <<in.user.identity>>
  BY <1>7
<1>9. /\ out' \in Headers
      /\ \A n \in Name \ {k.name} : out'[n] = out[n]
      /\ k.name \in XName => out'[k.name] = values
  BY <1>1, <1>4, <1>8, SetHeaderFacts
<1>10. \A n \in Name \ UserNames : out'[n] = out[n]
  BY <1>6, <1>9
<1>11. ASSUME in.protocol = "grpc", IdentityIsPlain, in.user.header \notin pending'
       PROVE  out'[in.user.header.name] = <<in.user.identity>>
  <2>1. in.user.header.name \in XName /\ in.user.header.name \in Name
    BY <1>1, <1>3, <1>11, InputFacts DEF IdentityIsPlain
  <2>2. CASE k = in.user.header
    BY <1>8, <1>9, <1>11, <2>1, <2>2
  <2>3. CASE k # in.user.header
    <3>1. k.name # in.user.header.name
      BY <1>5, <1>11, <2>3 DEF IdentityIsPlain
    <3>2. out[in.user.header.name] = <<in.user.identity>>
      BY <1>1, <1>2, <1>3, <1>11, <2>3 DEF HeadersSoFar, Told
    <3> QED
      BY <1>9, <2>1, <3>1, <3>2
  <2> QED
    BY <2>2, <2>3
<1>12. UserNames' = UserNames /\ (IdentityIsPlain' <=> IdentityIsPlain)
  BY <1>2 DEF UserNames, IdentityIsPlain
<1>13. HeadersSoFar'
  <2>1. RequestIdHeader \notin UserNames => out'[RequestIdHeader] = <<in.requestId>>
    BY <1>1, <1>10, NamesFacts DEF HeadersSoFar, Told
  <2>2. in.protocol = "grpc" /\ in.app # None /\ ApplicationHeader \notin UserNames =>
          out'[ApplicationHeader] = <<in.app>>
    BY <1>1, <1>10, NamesFacts DEF HeadersSoFar, Told
  <2>3. in.protocol = "grpc" /\ AdminIdHeader \notin UserNames => out'[AdminIdHeader] = << >>
    BY <1>1, <1>10, NamesFacts DEF HeadersSoFar
  <2>4. \A j \in pending' : \/ j = in.user.header /\ in.protocol = "grpc"
                            \/ in.user.extra # None /\ j \in Keys(in.user.extra)
    BY <1>1, <1>2, <1>3 DEF HeadersSoFar
  <2>5. in.protocol = "grpc" => in.user.extra # None
    BY <1>1, <1>3 DEF HeadersSoFar
  <2> QED
    BY <1>2, <1>3, <1>11, <1>12, <2>1, <2>2, <2>3, <2>4, <2>5 DEF HeadersSoFar, Told
<1>14. TargetKnowsCaller'
  BY <1>1, <1>2 DEF TargetKnowsCaller, Calling
<1>15. pending' \in SUBSET Spelling
  BY <1>1, <1>2
<1> QED
  BY <1>1, <1>2, <1>9, <1>13, <1>14, <1>15, Prepared

LEMMA FinishHeadersInv ==
  ASSUME IndInv, FinishHeaders
  PROVE  IndInv'
<1>1. /\ in \in Input /\ out \in Headers /\ pending \in SUBSET Spelling
      /\ pc = "headers" /\ HeadersSoFar /\ pending = {} /\ ~in.skipAuth
  BY DEF FinishHeaders, IndInv, TypeOK, HeadersSoFar
<1>2. pc' = "waiting" /\ UNCHANGED <<in, pending, err, sent, lost>>
  BY DEF FinishHeaders
<1>3. in.app \in Value \cup {None} /\ in.admin \in Value \cup {None}
  BY <1>1, InputFacts
<1>4. in.user # None => /\ in.user.header.name \in Name /\ in.user.header.name \in UserNames
                        /\ in.user.identity \in Value
  BY <1>1, InputFacts, UserNamesFacts
<1>5. RequestIdHeader \notin UserNames => out[RequestIdHeader] = <<in.requestId>>
  BY <1>1 DEF HeadersSoFar, Told
<1>6. IdentityIsPlain =>
        in.user.header.name \notin {RequestIdHeader, ApplicationHeader, AdminIdHeader}
  BY DEF IdentityIsPlain, Own
<1>7. UserNames' = UserNames /\ (IdentityIsPlain' <=> IdentityIsPlain)
  BY <1>2 DEF UserNames, IdentityIsPlain
<1>8. out' \in Headers /\ TargetKnowsCaller'
  <2>1. CASE in.protocol = "grpc"
    <3>1. out' = SetIf(out, AdminIdHeader, in.admin)
      BY <2>1 DEF FinishHeaders
    <3>2. /\ out' \in Headers
          /\ in.admin # None => out'[AdminIdHeader] = <<in.admin>>
          /\ in.admin = None => out'[AdminIdHeader] = out[AdminIdHeader]
          /\ \A n \in Name \ {AdminIdHeader} : out'[n] = out[n]
      BY <1>1, <1>3, <3>1, SetIfFacts, NamesFacts
    <3>3. RequestIdHeader \notin UserNames => out'[RequestIdHeader] = <<in.requestId>>
      BY <1>5, <3>2, NamesFacts
    <3>4. in.app # None /\ ApplicationHeader \notin UserNames =>
            out'[ApplicationHeader] = <<in.app>>
      BY <1>1, <2>1, <3>2, NamesFacts DEF HeadersSoFar, Told
    <3>5. in.admin = None /\ AdminIdHeader \notin UserNames => out'[AdminIdHeader] = << >>
      BY <1>1, <2>1, <3>2 DEF HeadersSoFar
    <3>6. in.user # None /\ IdentityIsPlain =>
            out'[in.user.header.name] = <<in.user.identity>>
      BY <1>1, <1>4, <1>6, <2>1, <3>2 DEF HeadersSoFar, Told
    <3> QED
      BY <1>2, <1>7, <2>1, <3>2, <3>3, <3>4, <3>5, <3>6 DEF TargetKnowsCaller, Told
  <2>2. CASE in.protocol # "grpc"
    <3> DEFINE h == IF in.user = None THEN out
                    ELSE SetHeader(out, in.user.header.name, <<in.user.identity>>)
    <3> DEFINE h1 == SetHeader(h, AdminIdHeader, << >>)
    <3> DEFINE h2 == SetIf(h1, ApplicationHeader, in.app)
    <3>1. out' = SetIf(h2, AdminIdHeader, in.admin)
      BY <2>2 DEF FinishHeaders
    <3>2. /\ h \in Headers
          /\ \A n \in Name \ UserNames : h[n] = out[n]
          /\ in.user # None => h[in.user.header.name] = <<in.user.identity>>
      <4>1. CASE in.user = None
        BY <1>1, <4>1
      <4>2. CASE in.user # None
        <5>1. h = SetHeader(out, in.user.header.name, <<in.user.identity>>)
          BY <4>2
        <5> HIDE DEF h
        <5>2. /\ h \in Headers
              /\ h[in.user.header.name] = <<in.user.identity>>
              /\ \A n \in Name \ {in.user.header.name} : h[n] = out[n]
          BY <1>1, <1>4, <4>2, <5>1, OneHeaderFacts, Zenon
        <5>3. \A n \in Name \ UserNames : n \in Name \ {in.user.header.name}
          BY <1>4, <4>2
        <5> QED
          BY <5>2, <5>3, Zenon
      <4> QED
        BY <4>1, <4>2
    <3> HIDE DEF h
    <3>3. /\ h1 \in Headers /\ h1[AdminIdHeader] = << >>
          /\ \A n \in Name \ {AdminIdHeader} : h1[n] = h[n]
      <4>1. h \in Headers /\ AdminIdHeader \in Name
        BY <3>2, NamesFacts
      <4> QED
        BY <4>1, NoHeaderFacts, Zenon
    <3> HIDE DEF h1
    <3>4. /\ h2 \in Headers
          /\ in.app # None => h2[ApplicationHeader] = <<in.app>>
          /\ \A n \in Name \ {ApplicationHeader} : h2[n] = h1[n]
      BY <1>3, <3>3, SetIfFacts, NamesFacts
    <3> HIDE DEF h2
    <3>5. /\ out' \in Headers
          /\ in.admin # None => out'[AdminIdHeader] = <<in.admin>>
          /\ in.admin = None => out'[AdminIdHeader] = h2[AdminIdHeader]
          /\ \A n \in Name \ {AdminIdHeader} : out'[n] = h2[n]
      BY <1>3, <3>1, <3>4, SetIfFacts, NamesFacts
    <3>6. RequestIdHeader \notin UserNames => out'[RequestIdHeader] = <<in.requestId>>
      <4> SUFFICES ASSUME RequestIdHeader \notin UserNames
                   PROVE  out'[RequestIdHeader] = <<in.requestId>>
        OBVIOUS
      <4>1. out'[RequestIdHeader] = h2[RequestIdHeader]
        BY <3>5, NamesFacts
      <4>2. h2[RequestIdHeader] = h1[RequestIdHeader]
        BY <3>4, NamesFacts
      <4>3. h1[RequestIdHeader] = h[RequestIdHeader]
        BY <3>3, NamesFacts
      <4> QED
        BY <1>5, <3>2, <4>1, <4>2, <4>3, NamesFacts
    <3>7. in.app # None => out'[ApplicationHeader] = <<in.app>>
      BY <3>4, <3>5, NamesFacts
    <3>8. in.admin = None => out'[AdminIdHeader] = << >>
      BY <3>3, <3>4, <3>5, NamesFacts
    <3>9. in.user # None /\ IdentityIsPlain =>
            out'[in.user.header.name] = <<in.user.identity>>
      BY <1>4, <1>6, <3>2, <3>3, <3>4, <3>5
    <3> QED
      BY <1>2, <1>7, <2>2, <3>5, <3>6, <3>7, <3>8, <3>9 DEF TargetKnowsCaller, Told
  <2> QED
    BY <2>1, <2>2
<1>9. HeadersSoFar'
  BY <1>2 DEF HeadersSoFar
<1> QED
  BY <1>1, <1>2, <1>8, <1>9, Prepared

LEMMA NextInv == IndInv /\ [Next]_vars => IndInv'
<1> SUFFICES ASSUME IndInv, [Next]_vars PROVE IndInv'
  OBVIOUS
<1>1. CASE ReadBodyFails
  BY <1>1, GaveUp DEF ReadBodyFails
<1>2. CASE WriteMetadata
  BY <1>2, WriteMetadataInv
<1>3. CASE NextHostFails
  BY <1>3, GaveUp DEF NextHostFails
<1>4. CASE SetHttpHeaders
  BY <1>4, SetHttpHeadersInv
<1>5. ASSUME NEW k \in pending, VisitHeader(k) PROVE IndInv'
  BY <1>5, VisitHeaderInv
<1>6. CASE FinishHeaders
  BY <1>6, FinishHeadersInv
<1>7. CASE Target
  BY <1>7, TargetInv
<1>8. CASE Timeout
  BY <1>8, TimeoutInv
<1>9. CASE ErrorHandler
  BY <1>9, ErrorHandlerInv
<1>10. CASE UNCHANGED vars
  BY <1>10 DEF vars, IndInv, TypeOK, HeadersSoFar, TargetKnowsCaller, OneResponse,
               ErrorIsKnown, Told, UserNames, IdentityIsPlain
<1> QED
  BY <1>1, <1>2, <1>3, <1>4, <1>5, <1>6, <1>7, <1>8, <1>9, <1>10 DEF Next, Prepare

\* Every reachable state of a proxied request satisfies IndInv: its headers are
\* right as far as they are made, and it is answered at most once.
THEOREM ProxyInvariant == Spec => []IndInv
<1>1. Init => IndInv
  BY InitInv
<1>2. IndInv /\ [Next]_vars => IndInv'
  BY NextInv
<1> QED
  BY <1>1, <1>2, PTL DEF Spec

\* Whatever extra headers a user has, and in whatever order Go visits them, the
\* target is told who the gateway has authenticated: TargetKnowsCaller.
THEOREM CallerIsKnown == Spec => []TargetKnowsCaller
<1>1. IndInv => TargetKnowsCaller
  BY DEF IndInv
<1> QED
  BY <1>1, ProxyInvariant, PTL

\* Whatever the target does, Handle and ErrorHandler write one response between
\* them: OneResponse.
THEOREM AnsweredOnce == Spec => []OneResponse
<1>1. IndInv => OneResponse
  BY DEF IndInv
<1> QED
  BY <1>1, ProxyInvariant, PTL
=============================================================================
