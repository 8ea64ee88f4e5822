------------------------------ MODULE MCGate ------------------------------
(* Instance of Gate for TLC: a guarded gRPC location and a public HTTP     *)
(* one, three endpoints, two applications; inputs that meet every check.   *)
EXTENDS Gate, TLC

CONSTANTS t1, t2, a1, a2, u1, u2, at1, ad1, m1, ae1, p1,
          open, inner, private, extra

MCAppOf == t1 :> a1 @@ t2 :> a2
MCAdminOf == at1 :> ad1

Grpc == [protocol |-> "grpc", skipAuth |-> FALSE]
Public == [protocol |-> "http", skipAuth |-> TRUE]

\* A request of application a1 with a client request id, and its variations.
Base ==
  [location |-> Grpc, method |-> "GET", path |-> open, header |-> t1, basic |-> None,
   user |-> None, admin |-> None, clientId |-> TRUE, tooLarge |-> FALSE]

WrongName == [Base EXCEPT !.header = None, !.basic = [name |-> a2, token |-> t1]]
RightName == [Base EXCEPT !.header = None, !.basic = [name |-> a2, token |-> t2]]
NoToken == [Base EXCEPT !.header = None]
Post == [Base EXCEPT !.method = "POST"]
ByAdmin == [Base EXCEPT !.path = inner, !.admin = at1]
InnerByApp == [Base EXCEPT !.path = inner]
ByUser == [Base EXCEPT !.path = private, !.user = u1]
ByUserAlone == [Base EXCEPT !.path = private, !.user = u1, !.header = None]
ByPlainUser == [Base EXCEPT !.path = private, !.user = u2]
NoUser == [Base EXCEPT !.path = private, !.user = None]
Elsewhere == [Base EXCEPT !.path = extra]
PublicElsewhere == [Base EXCEPT !.location = Public, !.path = extra]
Large == [Base EXCEPT !.tooLarge = TRUE]

Meta(path) ==
  [inner |-> path = inner, userAuth |-> path = private,
   module |-> m1,
   perm |-> IF path = inner THEN p1 ELSE None,
   schema |-> path, normalized |-> path]

Table(paths) == [e \in Method \X Path |-> IF e[2] \in paths THEN Meta(e[2]) ELSE None]

\* The open endpoint becomes an inner one without a permission.
Closed ==
  [e \in Method \X Path |->
     IF e[2] = open THEN [Meta(open) EXCEPT !.inner = TRUE]
     ELSE IF e[2] = extra THEN None ELSE Meta(e[2])]

UserAuth(cached, skip) ==
  m1 :> [endpoint |-> ae1, cached |-> cached, skipAppAuth |-> skip]

Relaxed ==
  [valid |-> TRUE, logLevel |-> "debug", requestLog |-> FALSE, bodyLog |-> FALSE,
   skipPrefixes |-> {}, userAuth |-> UserAuth(TRUE, TRUE),
   forwardId |-> FALSE, forwardIdByApp |-> {a1}, throttled |-> {}, dailyLimited |-> {a1}]

Strict ==
  [Relaxed EXCEPT !.userAuth = UserAuth(TRUE, FALSE), !.forwardIdByApp = {a2},
                  !.throttled = {a1}, !.logLevel = "info"]

Broken == [Strict EXCEPT !.valid = FALSE]

Logging ==
  [Relaxed EXCEPT !.requestLog = TRUE, !.bodyLog = TRUE,
                  !.skipPrefixes = {[text |-> open, slash |-> TRUE]}]

Unset == [Relaxed EXCEPT !.userAuth = m1 :> None, !.forwardId = TRUE,
                         !.requestLog = TRUE, !.bodyLog = TRUE]
Uncached == [Relaxed EXCEPT !.userAuth = UserAuth(FALSE, TRUE)]

\* Two requests at a time, one reload.
PairInput == {Base, Post, ByAdmin, ByUser, WrongName}
PairConfig == {Relaxed, Strict}
PairRoutes == {Table({open, inner, private})}

\* One request, every input and configuration.
SoloInput ==
  {Base, WrongName, RightName, NoToken, Post, ByAdmin, InnerByApp, ByUser, ByUserAlone,
   ByPlainUser, NoUser, Elsewhere, PublicElsewhere, Large}
SoloConfig == {Relaxed, Strict, Broken, Logging, Unset, Uncached}
SoloRoutes == {Table({open, inner, private}), Closed}

Symmetric == Permutations(Request)
=============================================================================
