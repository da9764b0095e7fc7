---------------------------- MODULE MCKatoCalls ----------------------------
(* An instance of KatoCalls for TLC. *)
EXTENDS KatoCalls

CONSTANTS c1, c2, prod, gone

MCCalls == {c1, c2}
MCClusters == {prod, gone}
MCRegistered == {prod}
=============================================================================
