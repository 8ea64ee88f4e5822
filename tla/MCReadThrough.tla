-------------------------- MODULE MCReadThrough --------------------------
(* Instance of ReadThrough for TLC: two requests over one key, so that     *)
(* their misses, replies and hits overlap, with a reload between them.     *)
EXTENDS ReadThrough

MCDuration == {-1, 2}
=============================================================================
