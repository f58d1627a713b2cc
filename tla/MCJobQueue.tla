----------------------------- MODULE MCJobQueue -----------------------------
(* Instances of JobQueue small enough for TLC. *)
EXTENDS JobQueue

CONSTANTS w1, w2, a1

OneKey   == {<<"client", 1>>}
Versions == {1, 2}
=============================================================================
