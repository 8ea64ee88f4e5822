---------------------------- MODULE RoutesSpec ----------------------------
(***************************************************************************)
(* What the rest of the gateway may rely on: at any moment one routing     *)
(* configuration is in force, as a whole, and every request is answered    *)
(* from the one that is in force at one moment of its resolution.          *)
(***************************************************************************)
EXTENDS RoutePaths

CONSTANT Request

VARIABLES
  inForce, \* the configuration in force and the entries kept of it
  answer   \* answer[r]: what request r was told, None before

vars == <<inForce, answer>>

\* The entries kept are declared, no two of them conflict, and the only ones
\* dropped are malformed or conflict with one declared earlier and kept.
Kept(cfg, entries) ==
  /\ entries \subseteq Declared(cfg)
  /\ \A e, f \in entries : Conflict(e, f) => e = f
  /\ \A e \in Declared(cfg) \ entries :
       \/ Malformed(e.path)
       \/ \E f \in entries : f.from < e.from /\ Conflict(e, f)

Init ==
  /\ inForce = [config |-> << >>, entries |-> {}]
  /\ answer = [r \in Request |-> None]

Publish(cfg) ==
  /\ \E entries \in SUBSET Declared(cfg) :
       /\ Kept(cfg, entries)
       /\ inForce' = [config |-> cfg, entries |-> entries]
  /\ UNCHANGED answer

Ask(r, in) ==
  /\ answer[r] = None
  /\ answer' = [answer EXCEPT ![r] =
                  Resolve(inForce.config, Found(inForce.entries, in), in)]
  /\ UNCHANGED inForce

Forget(r) ==
  /\ answer[r] # None
  /\ answer' = [answer EXCEPT ![r] = None]
  /\ UNCHANGED inForce

Next ==
  \/ \E cfg \in Config : Publish(cfg)
  \/ \E r \in Request, in \in Input : Ask(r, in)
  \/ \E r \in Request : Forget(r)

Spec == Init /\ [][Next]_vars
=============================================================================
