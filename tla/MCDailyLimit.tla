-------------------------- MODULE MCDailyLimit --------------------------
(* Instance of DailyLimit for TLC: more requests than any limit allows,    *)
(* over two days and three configurations.                                 *)
EXTENDS DailyLimit, TLC

CONSTANTS a1

MCLimitTable == {a1 :> 2, a1 :> 1, a1 :> Unlimited}
Symmetric == Permutations(Request)
=============================================================================
