----------------------- MODULE MCUserAuthentication -----------------------
(* Two modules that share an endpoint with different durations, then one   *)
(* of them uncached and the other elsewhere; a third module has no setting *)
(* at all.  Tokens come in headers and cookies.                            *)
EXTENDS UserAuthentication, TLC

CONSTANTS m1, m2, m3, h, k

\* Endpoints and tokens that run together if nothing separates them.
MCEndpoint == {<<"a">>, <<"a", "b">>}
Short == <<"b">>
Long == <<"b", "b">>

MCToken == {Short, Long}

ByHeader == [name |-> "header", type |-> "HEADER", field |-> h]
ByCookie == [name |-> "cookie", type |-> "COOKIE", field |-> k]
For(modules, providers, endpoint, duration) ==
  [modules |-> modules, providers |-> providers, endpoint |-> endpoint, duration |-> duration]

Shared ==
  [providers |-> <<ByHeader, ByCookie>>,
   settings |-> <<For(<<m1>>, <<"cookie", "header">>, <<"a">>, 2),
                  For(<<m2>>, <<"header", "cookie">>, <<"a">>, 1)>>]
Split ==
  [providers |-> <<ByHeader, ByCookie>>,
   settings |-> <<For(<<m1>>, <<"header">>, <<"a">>, 0),
                  For(<<m2>>, <<"header", "cookie">>, <<"a", "b">>, 1)>>]
Duplicate ==
  [providers |-> <<ByHeader>>,
   settings |-> <<For(<<m1, m2>>, <<"header">>, <<"a">>, 2), For(<<m1>>, << >>, <<"a">>, 0)>>]
MCCustomAuth == {Shared, Split, Duplicate}

Fields(value) == [f \in Field |-> value]
MCInput ==
  {[module |-> m1, header |-> Fields(Long), cookie |-> Fields(Malformed)],
   [module |-> m2, header |-> Fields(Short), cookie |-> Fields(Long)],
   [module |-> m2, header |-> Fields(Blank), cookie |-> Fields(Long)],
   [module |-> m3, header |-> Fields(Short), cookie |-> Fields(None)]}

Symmetric == Permutations(Caller)
=============================================================================
