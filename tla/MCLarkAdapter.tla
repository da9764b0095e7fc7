--------------------------- MODULE MCLarkAdapter ---------------------------
(* Instances of LarkAdapter for TLC. *)
EXTENDS LarkAdapter

CONSTANTS msg1, msg2, card1, h1, h2

MCMessages == {msg1, msg2}
MCCards == {card1}
MCGoroutines == {h1, h2}
(* No card yet, or one a former process left behind. *)
MCOldCards == {"none", "form", "confirm", "result"}
MCSymmetry == Permutations(Goroutine)
=============================================================================
