----------------------------- MODULE GateSpec -----------------------------
(***************************************************************************)
(* What the gateway promises its clients and the modules behind it: a      *)
(* request is answered once; it reaches its target at most once, after the *)
(* services have vouched for it and after exactly the limits it is due     *)
(* have been charged, the rate before the day; and the status a client     *)
(* sees tells how far its request came.                                    *)
(***************************************************************************)

CONSTANTS Request, None

VARIABLES
  phase,   \* "new", "open" once its endpoint is known, "forwarded", "done"
  vouched, \* the requests that the services' answers so far entitle
  due,     \* due[r]: the limits that apply to r
  charged, \* charged[r]: the limits r has been counted against
  answer   \* answer[r]: the status of the response, None before

vars == <<phase, vouched, due, charged, answer>>

Limit == {"rate", "daily"}

Init ==
  /\ phase = [r \in Request |-> "new"]
  /\ vouched = {}
  /\ due = [r \in Request |-> {}]
  /\ charged = [r \in Request |-> {}]
  /\ answer = [r \in Request |-> None]

\* The endpoint and the configuration that hold for the request are fixed.
Resolve(r) ==
  /\ phase[r] = "new"
  /\ phase' = [phase EXCEPT ![r] = "open"]
  /\ \E limits \in SUBSET Limit : due' = [due EXCEPT ![r] = limits]
  /\ UNCHANGED <<charged, answer>>

\* Only an entitled request is counted, once, and the day only if the rate
\* has let it through.
Charge(r) ==
  /\ phase[r] = "open" /\ r \in vouched
  /\ \E l \in due[r] \ charged[r] :
       /\ l = "daily" /\ "rate" \in due[r] => "rate" \in charged[r]
       /\ charged' = [charged EXCEPT ![r] = @ \cup {l}]
  /\ UNCHANGED <<phase, due, answer>>

Forward(r) ==
  /\ phase[r] = "open" /\ r \in vouched
  /\ charged[r] = due[r]
  /\ phase' = [phase EXCEPT ![r] = "forwarded"]
  /\ UNCHANGED <<due, charged, answer>>

\* What the gateway itself may answer.  Nobody is told to come back later
\* without having been counted, or is turned away after it.  The 200 is the
\* empty response to a body that the logger could not read.
Refusals(r) ==
  IF phase[r] = "new" THEN {"501"}
  ELSE {"500", "aborted"} \cup (IF charged[r] = {} THEN {"200", "401", "403"} ELSE {"429"})

Refuse(r) ==
  /\ phase[r] \in {"new", "open"}
  /\ phase' = [phase EXCEPT ![r] = "done"]
  /\ \E status \in Refusals(r) : answer' = [answer EXCEPT ![r] = status]
  /\ UNCHANGED <<due, charged>>

Relay(r) ==
  /\ phase[r] = "forwarded"
  /\ phase' = [phase EXCEPT ![r] = "done"]
  /\ \E status \in {"200", "upstream", "503"} : answer' = [answer EXCEPT ![r] = status]
  /\ UNCHANGED <<due, charged>>

\* A service answers; nothing else happens.
Vouch == UNCHANGED <<phase, answer, charged, due>>

\* Along with any step the services may vouch for more requests, and what they
\* have vouched for once is not taken back.
Next ==
  /\ vouched \subseteq vouched'
  /\ \/ Vouch
     \/ \E r \in Request : Resolve(r) \/ Charge(r) \/ Forward(r) \/ Refuse(r) \/ Relay(r)

Spec == Init /\ [][Next]_vars
=============================================================================
