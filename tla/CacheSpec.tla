---------------------------- MODULE CacheSpec ----------------------------
(***************************************************************************)
(* What callers of cache.Cache may rely on.  The cache is a map of LIVE    *)
(* entries: an entry disappears by itself the instant its deadline has     *)
(* passed and not before unless a Set replaces it, a Get answers what is   *)
(* live at one instant, and neither locks nor a cleaner exist.             *)
(***************************************************************************)
EXTENDS Integers

CONSTANTS
  Key,         \* cache keys
  Data,        \* cached payloads
  LifeTime,    \* lifetimes callers pass to Set; may be zero or negative
  Goroutine,   \* callers
  Absent       \* "no entry", and the answer of a miss

VARIABLES
  live,        \* live[k]: the live entry of k, or Absent
  clock,       \* wall clock
  answer       \* answer[g]: the last call of g, and what a Get was told

vars == <<live, clock, answer>>

Entry == [data : Data, expiredAt : Int]
NoAnswer == [call |-> "none", key |-> Absent, data |-> Absent]

Init ==
  /\ live = [k \in Key |-> Absent]
  /\ clock = 0
  /\ answer = [g \in Goroutine |-> NoAnswer]

\* A deadline that has already passed leaves nothing to find.
Put(g, k, d, life) ==
  /\ live' = [live EXCEPT ![k] =
                IF life < 0 THEN Absent
                            ELSE [data |-> d, expiredAt |-> clock + life]]
  /\ answer' = [answer EXCEPT ![g] = [call |-> "set", key |-> k, data |-> d]]
  /\ UNCHANGED clock

Answer(g, k) ==
  /\ answer' = [answer EXCEPT ![g] =
                  [call |-> "get", key |-> k,
                   data |-> IF live[k] = Absent THEN Absent ELSE live[k].data]]
  /\ UNCHANGED <<live, clock>>

Elapse ==
  /\ clock' = clock + 1
  /\ live' = [k \in Key |-> IF live[k] = Absent THEN Absent
                            ELSE IF clock' > live[k].expiredAt THEN Absent
                            ELSE live[k]]
  /\ UNCHANGED answer

Next ==
  \/ \E g \in Goroutine, k \in Key, d \in Data, life \in LifeTime : Put(g, k, d, life)
  \/ \E g \in Goroutine, k \in Key : Answer(g, k)
  \/ Elapse

Spec == Init /\ [][Next]_vars
=============================================================================
