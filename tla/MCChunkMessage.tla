-------------------------- MODULE MCChunkMessage --------------------------
(* An instance of ChunkMessage for TLC. *)
EXTENDS ChunkMessage

MCTails == {1, 2}
MCNames == {1, 2}
(* A bare tag, and one whose attribute holds an entity. *)
MCAttributes == {<<>>, <<"amp", "x", "semi">>}
=============================================================================
