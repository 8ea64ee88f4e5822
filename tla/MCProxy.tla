------------------------------ MODULE MCProxy ------------------------------
(* Users without, with plain and with colliding headers, at every kind of  *)
(* location, with and without headers of the client's own.                 *)
EXTENDS Proxy

Lower(name) == [name |-> name, upper |-> FALSE]
Upper(name) == [name |-> name, upper |-> TRUE]

\* The map with these keys.
Map(keys, values) == [k \in Spelling |-> IF k \in keys THEN values ELSE << >>]
Extras ==
  {None, Map({}, << >>),
   Map({Upper("x-user")}, <<"v1">>),
   Map({Lower("x-user"), Upper("x-role")}, <<"v1", "v2">>),
   Map({Lower("x-role"), Upper("x-role")}, <<"v1">>),
   Map({Upper("x-admin-id"), Lower("x-application")}, <<"v1">>),
   Map({Lower("x-request-id"), Lower("role")}, <<"v1">>)}

MCUser ==
  {[identity |-> "u", header |-> h, extra |-> e] :
     h \in {Lower("x-user"), Upper("x-role"), Lower("role")}, e \in Extras}

MCClient ==
  {NoHeaders,
   [h \in Name |-> IF h \in {"x-request-id", "x-admin-id", "x-application", "x-user"}
                   THEN <<"v1">> ELSE << >>]}

Anyone ==
  {[protocol |-> p, skipAuth |-> s, client |-> c, requestId |-> "id", endpoint |-> "e",
    app |-> a, user |-> u, admin |-> d] :
     p \in {"grpc", "http", "ws"}, s \in BOOLEAN, c \in MCClient,
     a \in {None, "a"}, u \in MCUser \cup {None}, d \in {None, "d"}}

\* Nobody is authenticated at a location that skips it; elsewhere only a user
\* whose setting waives it comes without an application.
MCInput ==
  {i \in Anyone : IF i.skipAuth THEN i.app = None /\ i.user = None /\ i.admin = None
                                ELSE i.app # None \/ i.user # None}

MCName ==
  {"x-request-id", "x-application", "x-admin-id", "proxy_method_name", "x-user", "x-role", "role"}
=============================================================================
