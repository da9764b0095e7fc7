------------------------------ MODULE GroupRun ------------------------------
(***************************************************************************)
(* What a group run promises to whoever started it, with no workers,       *)
(* channels or retries in sight.  A run over N work items is either        *)
(* refused before any work starts, or it starts, reports outcomes one item *)
(* at a time, each item at most once, and ends.  It may end with items     *)
(* missing only if its context was cancelled first.                        *)
(*                                                                         *)
(* GroupRunner.tla is the implementation (internal/core/group.go).         *)
(***************************************************************************)
EXTENDS Naturals

CONSTANT N      \* len(g.WorkItems()): targets expanded by use case

ASSUME NAssumption == N \in Nat

(* Work items by their position in g.WorkItems(). *)
Items == 0 .. N - 1

(* ServiceResult.Bucket(): the four ways one item can come out. *)
Buckets == {"healthy", "unhealthy", "unknown", "errored"}

(* No result has been received for the item. *)
NoOutcome == "none"

VARIABLES
  phase,      \* of the run: "idle", "running", "refused" or "ended"
  outcome,    \* Items -> bucket reported for the item, or NoOutcome
  cancelled   \* the run's context is done (timeout or cancel)

absVars == <<phase, outcome, cancelled>>

AbsInit ==
  /\ phase = "idle"
  /\ outcome = [i \in Items |-> NoOutcome]
  /\ cancelled = FALSE

(* The group's cluster is unknown, or the reporter could not be started. *)
Refuse ==
  /\ phase = "idle"
  /\ phase' = "refused"
  /\ UNCHANGED <<outcome, cancelled>>

Begin ==
  /\ phase = "idle"
  /\ phase' = "running"
  /\ UNCHANGED <<outcome, cancelled>>

Report(i, b) ==
  /\ phase = "running"
  /\ outcome[i] = NoOutcome
  /\ outcome' = [outcome EXCEPT ![i] = b]
  /\ UNCHANGED <<phase, cancelled>>

Cancel ==
  /\ ~cancelled
  /\ cancelled' = TRUE
  /\ UNCHANGED <<phase, outcome>>

End ==
  /\ phase = "running"
  /\ cancelled \/ \A i \in Items : outcome[i] # NoOutcome
  /\ phase' = "ended"
  /\ UNCHANGED <<outcome, cancelled>>

AbsNext ==
  \/ Refuse
  \/ Begin
  \/ \E i \in Items, b \in Buckets : Report(i, b)
  \/ Cancel
  \/ End

AbsSpec == AbsInit /\ [][AbsNext]_absVars
=============================================================================
