----------------------------- MODULE MCRoutes -----------------------------
(* Two configurations whose endpoints conflict in every way httprouter     *)
(* knows, and requests for what was kept, dropped and never declared.      *)
EXTENDS Routes

S(name) == [kind |-> "static", name |-> name]
P(name) == [kind |-> "param", name |-> name]
R(name) == [kind |-> "rest", name |-> name]

Slash(segments) == <<[slash |-> TRUE, segments |-> segments]>>
Bare(segments) == <<[slash |-> FALSE, segments |-> segments]>>
Verb(segments) == Bare(<<S("a")>>) \o Slash(segments)

D(module, method, words) ==
  [module |-> module, method |-> method, inner |-> module = "m2", words |-> words]

\* A parameter first, then what it shadows, a duplicate and a broken pattern.
ParamFirst ==
  <<D("m1", AnyMethod, Bare(<<S("a"), P("id")>>)),
    D("m2", "GET", Verb(<<S("a"), S("b")>>)),
    D("m2", AnyMethod, Slash(<<S("b")>>)),
    D("m1", "POST", Slash(<<S("b")>>)),
    D("m1", "GET", Slash(<<S("b"), P(None)>>))>>

\* The same endpoints, static ones first, and a subtree.
StaticFirst ==
  <<D("m2", "GET", Verb(<<S("a"), S("b")>>)),
    D("m1", AnyMethod, Bare(<<S("a"), P("id")>>)),
    D("m2", "GET", Slash(<<S("b"), R("id")>>)),
    D("m1", "GET", Slash(<<S("b"), S("a"), S("a")>>)),
    D("m1", "GET", Slash(<<S("b"), R("id"), S("a")>>))>>

MCMethods == <<"GET", "POST">>
MCConfig == {ParamFirst, StaticFirst}

Ask(method, path, withPrefix) ==
  [method |-> method, path |-> path, prefix |-> <<"b">>, withPrefix |-> withPrefix,
   errorOnUnknown |-> ~withPrefix]
MCInput ==
  {Ask("GET", <<"a", "b">>, TRUE), Ask("POST", <<"a", "b">>, TRUE),
   Ask("GET", <<"b", "a", "%">>, TRUE), Ask("GET", <<"b", "b">>, FALSE),
   Ask("POST", <<"b", "b">>, TRUE)}

=============================================================================
