----------------------------- MODULE MCCache -----------------------------
(* Instance of Cache for TLC: two goroutines over two keys.  The lifetimes *)
(* include the degenerate ones a configuration may give.                   *)
EXTENDS Cache

MCLifeTime == {-1, 0, 1}
=============================================================================
