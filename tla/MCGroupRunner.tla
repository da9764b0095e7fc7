--------------------------- MODULE MCGroupRunner ---------------------------
(* An instance of GroupRunner for TLC. *)
EXTENDS GroupRunner

CONSTANTS w1, w2

MCWorkers == {w1, w2}
=============================================================================
