---------------------------- MODULE RoutePaths ----------------------------
(***************************************************************************)
(* What an endpoint descriptor and a request mean to the router: patterns, *)
(* which of them the router refuses to hold together, and which requests   *)
(* they match.  A path is the sequence of its segments.  The rules of      *)
(* httprouter are external: a registration that breaks them panics.        *)
(***************************************************************************)
EXTENDS Integers, Sequences

CONSTANTS
  Name,        \* segments of requests, names of parameters
  Unparsable,  \* the segments that are not part of a valid URL
  AllHttpMethods, \* allHttpMethods, a sequence
  AnyMethod,         \* HttpMethod of a descriptor that names none
  Config,      \* routing configurations, see ConfigType
  Input,       \* requests, see InputType
  None         \* nothing

Method == {AllHttpMethods[m] : m \in DOMAIN AllHttpMethods}

\* A static segment, :name or *name; a wildcard's name may be missing.
Segment == [kind : {"static", "param", "rest"}, name : Name \cup {None}]
Path == [slash : BOOLEAN, segments : Seq(Segment)]     \* slash: begins with one

\* backend.Endpoints of all backends, in the order they are visited.  The path
\* of an endpoint is one word or, as in "GET /path", two.
Descriptor ==
  [module : Name, method : Method \cup {AnyMethod}, inner : BOOLEAN, words : Seq(Path)]
ConfigType == Seq(Descriptor)

\* EntryPointConfig of the location a request came in by.
InputType ==
  [method : Method, path : Seq(Name), prefix : Seq(Name), withPrefix : BOOLEAN,
   errorOnUnknown : BOOLEAN]

ASSUME RoutePathsAssumption ==
  /\ AllHttpMethods \in Seq(Method) /\ AllHttpMethods # << >>
  /\ \A k, m \in DOMAIN AllHttpMethods : AllHttpMethods[k] = AllHttpMethods[m] => k = m
  /\ AnyMethod \notin Method
  /\ Config \subseteq ConfigType
  /\ Input \subseteq InputType
  /\ \A cfg \in Config : \A d \in DOMAIN cfg : Len(cfg[d].words) \in {1, 2}
  /\ Unparsable \subseteq Name

---------------------------------------------------------------------------
(* Registration.                                                           *)

NormalizeDescriptorPath(d) ==
  [slash |-> TRUE, segments |-> d.words[Len(d.words)].segments]

MethodsOf(d) == IF d.method = AnyMethod THEN AllHttpMethods ELSE <<d.method>>

\* What registerEndpoint puts into the tree: the handler stands for the
\* descriptor it was made from.
Entry(cfg, d, m) ==
  [method |-> MethodsOf(cfg[d])[m], path |-> NormalizeDescriptorPath(cfg[d]), from |-> d]
Declared(cfg) ==
  UNION {{Entry(cfg, d, m) : m \in DOMAIN MethodsOf(cfg[d])} : d \in DOMAIN cfg}

\* httprouter refuses a path without a leading slash, an unnamed wildcard and
\* a *name that is not the end.
Malformed(path) ==
  \/ ~path.slash
  \/ \E k \in DOMAIN path.segments :
       /\ path.segments[k].kind # "static"
       /\ path.segments[k].name = None
  \/ \E k \in DOMAIN path.segments :
       /\ path.segments[k].kind = "rest"
       /\ k # Len(path.segments)

\* It also refuses a path it has, and a wildcard beside any other segment.
Clash(p, q) ==
  \/ p = q
  \/ \E k \in DOMAIN p \cap DOMAIN q :
       /\ \A j \in 1 .. k - 1 : p[j] = q[j]
       /\ p[k] # q[k]
       /\ p[k].kind # "static" \/ q[k].kind # "static"

Conflict(e, f) == e.method = f.method /\ Clash(e.path.segments, f.path.segments)

---------------------------------------------------------------------------
(* Resolution.                                                             *)

IsPrefix(p, s) == Len(p) <= Len(s) /\ \A k \in DOMAIN p : p[k] = s[k]

\* GetPaths.
LookupPath(in) ==
  IF ~in.withPrefix /\ IsPrefix(in.prefix, in.path)
  THEN SubSeq(in.path, Len(in.prefix) + 1, Len(in.path))
  ELSE in.path

Matches(p, s) ==
  /\ \/ Len(p) = Len(s)
     \/ Len(p) > 0 /\ p[Len(p)].kind = "rest" /\ Len(p) <= Len(s)
  /\ \A k \in DOMAIN p : p[k].kind = "static" => p[k].name = s[k]

\* Router.Lookup, in a tree that holds these entries.
Found(entries, in) ==
  {e \in entries : e.method = in.method /\ Matches(e.path.segments, LookupPath(in))}

Unknown == [status |-> "unknown", descriptor |-> None]
Unlisted == [status |-> "unlisted", descriptor |-> None]
Aborted == [status |-> "aborted", descriptor |-> None]
Listed(descriptor) == [status |-> "listed", descriptor |-> descriptor]
Answer(cfg) == {Unknown, Unlisted, Aborted} \cup {Listed(cfg[d]) : d \in DOMAIN cfg}

\* The answer that goes with what the lookup returned.  A request is built
\* from the path to carry the metadata; where that fails the handler
\* dereferences nil.
Resolve(cfg, found, in) ==
  IF found = {}
  THEN IF in.errorOnUnknown THEN Unknown ELSE Unlisted
  ELSE IF \E k \in DOMAIN LookupPath(in) : LookupPath(in)[k] \in Unparsable
  THEN Aborted
  ELSE Listed(cfg[(CHOOSE e \in found : TRUE).from])
=============================================================================
