----------------------------- MODULE MCStartup -----------------------------
(* An instance of Startup for TLC. *)
EXTENDS Startup

CONSTANTS t1, none

MCRaw == {"a", " a", "b", " "}
MCTrim == [r \in MCRaw |-> CASE r = " a" -> "a" [] r = " " -> "" [] OTHER -> r]
MCTargets == {t1, none}

UpTo2(S) == UNION {[1 .. n -> S] : n \in 0 .. 2}

(* Any names, and one blank url. *)
MCClusterFiles ==
  UpTo2([name : MCRaw, url : {"b"}] \cup {[name |-> "a", url |-> " "]})

(* No use case, a blank one, one without targets, one listed twice. *)
MCUseCases ==
  {<<>>, <<[usecase |-> " ", targets |-> <<t1>>]>>, <<[usecase |-> "a", targets |-> <<>>]>>,
   <<[usecase |-> "a", targets |-> <<t1, none>>], [usecase |-> "b", targets |-> <<t1>>],
     [usecase |-> " a", targets |-> <<none>>]>>}

MCGroupFiles ==
  UpTo2([name : MCRaw, cluster : MCRaw \ {" a"}, concurrency : {0, 7}, usecases : MCUseCases])
=============================================================================
