------------------------------- MODULE Dedup -------------------------------
(***************************************************************************)
(* The bounded FIFO of recently seen event ids that each chat adapter      *)
(* keeps (dedup in internal/platform/lark/dispatch.go, the same code in    *)
(* internal/platform/telegram/dispatch.go).  seen runs under dedup.mu and  *)
(* is one atomic operation.                                                *)
(***************************************************************************)
EXTENDS Naturals, Sequences

CONSTANTS
  Id,        \* event ids
  EmptyId,   \* ""
  dedupCap   \* dedupCap

ASSUME CapAssumption == dedupCap \in Nat \ {0}
ASSUME IdAssumption == EmptyId \notin Id

VARIABLES
  ids,    \* dedup.ids
  order   \* dedup.order

dedupVars == <<ids, order>>

DedupInit == ids = {} /\ order = <<>>

(* Mutants: one id too few is kept; the forgotten id is the newest one. *)
rememberShort(id) ==
  LET longer == Append(order, id)
  IN  IF Len(longer) >= dedupCap
      THEN order' = Tail(longer) /\ ids' = (ids \cup {id}) \ {Head(longer)}
      ELSE order' = longer /\ ids' = ids \cup {id}
rememberNewest(id) ==
  LET longer == Append(order, id)
  IN  IF Len(longer) > dedupCap
      THEN order' = Tail(longer) /\ ids' = ids
      ELSE order' = longer /\ ids' = ids \cup {id}

(* Record an id and forget the oldest one when there are too many. *)
remember(id) ==
  LET longer == Append(order, id)
  IN  IF Len(longer) > dedupCap
      THEN order' = Tail(longer) /\ ids' = (ids \cup {id}) \ {Head(longer)}
      ELSE order' = longer /\ ids' = ids \cup {id}

(* seen(id) answers true. *)
Duplicate(id) == id # EmptyId /\ id \in ids

(* seen(id) answers false; an empty id is never recorded. *)
Accept(id) ==
  /\ ~Duplicate(id)
  /\ IF id = EmptyId THEN UNCHANGED dedupVars ELSE remember(id)

-----------------------------------------------------------------------------
(* The map and the queue hold the same ids, each once, at most dedupCap.   *)
DedupOK ==
  /\ order \in Seq(Id)
  /\ Len(order) <= dedupCap
  /\ ids = {order[i] : i \in 1 .. Len(order)}
  /\ \A i, j \in 1 .. Len(order) : order[i] = order[j] => i = j
=============================================================================
