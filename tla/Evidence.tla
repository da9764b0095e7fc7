------------------------------ MODULE Evidence ------------------------------
(***************************************************************************)
(* BuildEvidence (internal/summary/summary.go): what the LLM is told of a  *)
(* group run, within a budget of bytes.                                    *)
(*                                                                         *)
(* A result is the length of its line in bytes, whether it is healthy, and *)
(* its summary: a number of runes (none when it is blank), each of so many *)
(* bytes.  Summaries are of one line, so oneLine leaves them alone.        *)
(***************************************************************************)
EXTENDS Naturals, Sequences

CONSTANTS
  maxBytes,          \* the budget
  perItemSummaryCap  \* in runes

(* Summarize replaces a budget that is not positive by its default. *)
ASSUME BudgetAssumption ==
  /\ maxBytes \in Nat \ {0}
  /\ perItemSummaryCap \in Nat /\ perItemSummaryCap >= 4

-----------------------------------------------------------------------------
(* Bytes that truncateHeadTail leaves of n runes: as many runes as allowed, *)
(* one of them the ellipsis, for which the cap has room.                    *)
Ellipsis == 3
truncateHeadTail(n, width) ==
  IF n <= perItemSummaryCap THEN n * width
  ELSE (perItemSummaryCap - 1) * width + Ellipsis

(* Bytes of the second line of r, indented; none for a healthy or blank one. *)
Frame == 5
Detail(r) ==
  IF r.healthy \/ r.runes = 0 THEN 0
  ELSE Frame + truncateHeadTail(r.runes, r.width)

(* The block so far: the results whose line and whose summary it has, the  *)
(* bytes of both, and whether anything was left out.  The marker that says *)
(* so comes on top of the budget.                                          *)
NoEvidence == [lines |-> {}, details |-> {}, size |-> 0, truncated |-> FALSE]

WriteLine(e, k, r) ==
  [e EXCEPT !.lines = @ \cup {k}, !.size = @ + r.header]

WriteDetail(e, k, r) ==
  IF Detail(r) = 0 THEN e
  ELSE IF e.size + Detail(r) <= maxBytes
       THEN [e EXCEPT !.details = @ \cup {k}, !.size = @ + Detail(r)]
       ELSE [e EXCEPT !.truncated = TRUE]

(* Mutant: what does not fit ends the loop. *)
TurnStopping(rs, e, k) ==
  IF e.truncated THEN e
  ELSE IF e.size + rs[k].header > maxBytes THEN [e EXCEPT !.truncated = TRUE]
  ELSE WriteDetail(WriteLine(e, k, rs[k]), k, rs[k])

(* One turn of the loop, for result k: a line that does not fit is skipped, *)
(* and its summary with it.                                                 *)
Turn(rs, e, k) ==
  IF e.size + rs[k].header > maxBytes THEN [e EXCEPT !.truncated = TRUE]
  ELSE WriteDetail(WriteLine(e, k, rs[k]), k, rs[k])

BuildEvidence(rs) ==
  LET built[k \in 0 .. Len(rs)] ==
        IF k = 0 THEN NoEvidence ELSE Turn(rs, built[k - 1], k)
  IN  built[Len(rs)]

-----------------------------------------------------------------------------
(* What BuildEvidence promises, said of its result e without its loop *)

(* Bytes that e has of result k, and of the results before it. *)
WrittenOf(rs, e, k) ==
  (IF k \in e.lines THEN rs[k].header ELSE 0) + (IF k \in e.details THEN Detail(rs[k]) ELSE 0)

Written(rs, e, k) ==
  LET sum[j \in 0 .. Len(rs)] == IF j = 0 THEN 0 ELSE sum[j - 1] + WrittenOf(rs, e, j)
  IN  sum[k - 1]

Missing(rs, e) ==
  {k \in DOMAIN rs : k \notin e.lines \/ (Detail(rs[k]) # 0 /\ k \notin e.details)}

(* Lines and summaries keep within the budget, every summary has its line, *)
(* and what is missing did not fit behind what came before it, whatever    *)
(* was skipped on the way.                                                 *)
FillsBudget(rs, e) ==
  /\ e.details \subseteq e.lines
  /\ Written(rs, e, Len(rs) + 1) <= maxBytes
  /\ \A k \in Missing(rs, e) :
       Written(rs, e, k) + rs[k].header
         + (IF k \in e.lines THEN Detail(rs[k]) ELSE 0) > maxBytes
=============================================================================
