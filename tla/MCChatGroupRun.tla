--------------------------- MODULE MCChatGroupRun ---------------------------
(* Instances of ChatGroupRun for TLC. *)
EXTENDS ChatGroupRun

(* With a budget of 20 and a cap of 4 the summaries take 11, 6 and 14      *)
(* bytes: depending on the order and the outcomes all fits, it fits to the *)
(* byte, or a line or a summary is left out before one that is not.        *)
MCLine == 0 :> 4 @@ 1 :> 9 @@ 2 :> 5
MCRunes == 0 :> 6 @@ 1 :> 1 @@ 2 :> 3
MCWidth == 0 :> 1 @@ 1 :> 1 @@ 2 :> 3
=============================================================================
