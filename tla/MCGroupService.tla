--------------------------- MODULE MCGroupService ---------------------------
(* An instance of GroupService for TLC. *)
EXTENDS GroupService

CONSTANTS g1, g2, c1

MCGroups == {g1, g2}
MCChatRuns == {c1}
(* One client polls; later submissions can evict the record it polls. *)
MCPolled == {1}
=============================================================================
