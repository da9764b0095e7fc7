----------------------------- MODULE AtMostOnce -----------------------------
(***************************************************************************)
(* What somebody who asks kato for something through the bot may conclude  *)
(* from what the bot says: a result means that it happened, once; a        *)
(* refusal, that it did not and will not; anything else leaves it open,    *)
(* and it may even happen later, but never twice.                          *)
(***************************************************************************)
EXTENDS Naturals

CONSTANT Call

VARIABLES
  asked,     \* calls made
  effects,   \* Call -> how often kato did what was asked
  verdict    \* Call -> what the caller may conclude

onceVars == <<asked, effects, verdict>>

OnceInit ==
  /\ asked = {}
  /\ effects = [c \in Call |-> 0]
  /\ verdict = [c \in Call |-> "none"]

Ask(c) ==
  /\ c \notin asked
  /\ asked' = asked \cup {c}
  /\ UNCHANGED <<effects, verdict>>

Effect(c) ==
  /\ c \in asked
  /\ effects[c] = 0
  /\ verdict[c] \in {"none", "open"}
  /\ effects' = [effects EXCEPT ![c] = 1]
  /\ UNCHANGED <<asked, verdict>>

Conclude(c) ==
  /\ c \in asked
  /\ verdict[c] = "none"
  /\ \/ effects[c] = 1 /\ verdict' = [verdict EXCEPT ![c] = "happened"]
     \/ effects[c] = 0 /\ verdict' = [verdict EXCEPT ![c] = "refused"]
     \/ verdict' = [verdict EXCEPT ![c] = "open"]
  /\ UNCHANGED <<asked, effects>>

OnceNext == \E c \in Call : Ask(c) \/ Effect(c) \/ Conclude(c)

OnceSpec == OnceInit /\ [][OnceNext]_onceVars
=============================================================================
