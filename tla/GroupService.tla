---------------------------- MODULE GroupService ----------------------------
(***************************************************************************)
(* The run store of internal/groupapi (Submit, GetRun, evictLocked) and    *)
(* the per-group gate it shares with the chat adapters                     *)
(* (GroupRunner.TryAcquire).                                               *)
(*                                                                         *)
(* A run is started either by a REST/MCP client, which gets a run id and   *)
(* polls it, or from a chat (Lark's handleGroupRun, Telegram's runGroup),  *)
(* which keeps no record.  Both hold the group's gate while they work.     *)
(* What Runner.Run does in between is GroupRunner.tla; here it is one step *)
(* that succeeds or fails, and it always ends (GroupRunner!Termination).   *)
(*                                                                         *)
(* Service.mu and GroupRunner.mu are held across no call: each critical    *)
(* section is one action.                                                  *)
(*                                                                         *)
(* Nothing is persisted: "A restart loses in-flight and recently finished  *)
(* runs" (groupapi.go), which is Restart.                                  *)
(***************************************************************************)
EXTENDS Integers, FiniteSets

CONSTANTS
  Group,      \* the configured groups
  NRuns,      \* bound: how many runs are submitted
  Polled,     \* the submitted runs whose clients poll
  ChatRun,    \* group runs triggered from a chat
  MaxRuns,    \* groupapi.maxRuns
  RunTTL,     \* groupapi.runTTL
  MaxTime,    \* bound: the last instant of the modelled clock
  MaxRestarts, \* bound: how often the process is restarted
  NoGroup     \* the group of a run that is not under way

(* The ids newRunID draws, numbered in the order they are drawn. *)
RunId == 1 .. NRuns

ASSUME FiniteAssumption == IsFiniteSet(Group) /\ NRuns \in Nat /\ Polled \subseteq RunId
ASSUME BoundAssumption == MaxRuns \in Nat \ {0} /\ RunTTL \in Nat /\ MaxTime \in Nat
                          /\ MaxRestarts \in Nat
ASSUME DistinctAssumption == RunId \cap ChatRun = {} /\ NoGroup \notin Group

Run == RunId \cup ChatRun

VARIABLES
  now,          \* time.Now()
  inFlight,     \* GroupRunner.inFlight: groups whose gate is taken
  at,           \* Run -> where the run's goroutine is
  grp,          \* Run -> its group while it is under way
  runs,         \* Service.runs: ids of the stored records
  status,       \* runRecord.Status
  startedAt,    \* runRecord.StartedAt
  completedAt,  \* runRecord.CompletedAt
  polled,       \* RunId -> what GetRun last told the client
  restarts      \* restarts so far

recordVars == <<status, startedAt, completedAt>>
vars == <<now, inFlight, at, grp, runs, recordVars, polled, restarts>>

Time == 0 .. MaxTime
Terminal == {"done", "failed"}

-----------------------------------------------------------------------------
(* Eviction *)

(* Terminal records that completed more than runTTL ago. *)
Expired == {r \in runs : status[r] \in Terminal /\ now - completedAt[r] > RunTTL}

(* Mutants: the cap is not enforced; the oldest record goes, running or    *)
(* not.                                                                    *)
OldestOverNone(S) == {{}}
OldestOverRunning(S) ==
  LET excess == Cardinality(S) - MaxRuns + 1
  IN  {old \in SUBSET S :
         /\ old = S \/ Cardinality(old) >= excess
         /\ old = {} \/ Cardinality(old) <= excess
         /\ \A r \in old, k \in S \ old : startedAt[r] <= startedAt[k]}

(* The oldest terminal records of S, enough of them to bring S under       *)
(* maxRuns, or all of them when that is not enough.  Records that started  *)
(* together are taken in any order (Go's map order).                       *)
OldestOver(S) ==
  LET terminal == {r \in S : status[r] \in Terminal}
      excess == Cardinality(S) - MaxRuns + 1
  IN  {old \in SUBSET terminal :
         /\ old = terminal \/ Cardinality(old) >= excess
         /\ old = {} \/ Cardinality(old) <= excess
         /\ \A r \in old, k \in terminal \ old : startedAt[r] <= startedAt[k]}

(* The stores evictLocked can leave. *)
evictLocked == {(runs \ Expired) \ old : old \in OldestOver(runs \ Expired)}

-----------------------------------------------------------------------------
Init ==
  /\ now = 0
  /\ inFlight = {}
  /\ at = [r \in Run |-> "new"]
  /\ grp = [r \in Run |-> NoGroup]
  /\ runs = {}
  /\ status = [r \in RunId |-> "none"]
  /\ startedAt = [r \in RunId |-> 0]
  /\ completedAt = [r \in RunId |-> 0]
  /\ polled = [r \in RunId |-> "never"]
  /\ restarts = 0

(* GroupRunner.TryAcquire(g) succeeds for run r. *)
TryAcquire(r, g) ==
  /\ g \notin inFlight
  /\ inFlight' = inFlight \cup {g}
  /\ grp' = [grp EXCEPT ![r] = g]

(* The func TryAcquire returned. *)
Release(r) == inFlight' = inFlight \ {grp[r]}

(* Submit: the gate is taken and the record built.  An unknown group (404) *)
(* and a taken gate (409) change nothing.                                  *)
SubmitAcquire(r, g) ==
  /\ at[r] = "new" /\ \A q \in 1 .. r - 1 : at[q] # "new"
  /\ TryAcquire(r, g)
  /\ at' = [at EXCEPT ![r] = "acquired"]
  /\ status' = [status EXCEPT ![r] = "running"]
  /\ startedAt' = [startedAt EXCEPT ![r] = now]
  /\ UNCHANGED <<now, runs, completedAt, polled, restarts>>

(* Submit, under s.mu: evict, store the record; then go and return the id. *)
SubmitInsert(r) ==
  /\ at[r] = "acquired"
  /\ \E kept \in evictLocked : runs' = kept \cup {r}
  /\ at' = [at EXCEPT ![r] = "working"]
  /\ UNCHANGED <<now, inFlight, grp, recordVars, polled, restarts>>

(* Runner.Run, and the summary of a successful run, are over. *)
RunReturns(r) ==
  /\ at[r] = "working"
  /\ \E outcome \in IF r \in RunId THEN {"succeeded", "erred"} ELSE {"finished"} :
       at' = [at EXCEPT ![r] = outcome]
  /\ UNCHANGED <<now, inFlight, grp, runs, recordVars, polled, restarts>>

(* Mutants: a failed run is tried again after its record says so; a failed *)
(* run returns without publishing; the gate is given back here and then    *)
(* again by the deferred release; the record gets a status of its own.     *)
PublishAgain(r) ==
  /\ at[r] \in {"succeeded", "erred"}
  /\ status' = [status EXCEPT ![r] = IF at[r] = "erred" THEN "failed" ELSE "done"]
  /\ completedAt' = [completedAt EXCEPT ![r] = now]
  /\ at' = [at EXCEPT ![r] = IF at[r] = "erred" THEN "working" ELSE "finished"]
  /\ UNCHANGED <<now, inFlight, grp, runs, startedAt, polled, restarts>>
PublishSuccess(r) ==
  /\ at[r] \in {"succeeded", "erred"}
  /\ status' = IF at[r] = "erred" THEN status ELSE [status EXCEPT ![r] = "done"]
  /\ completedAt' = [completedAt EXCEPT ![r] = now]
  /\ at' = [at EXCEPT ![r] = "finished"]
  /\ UNCHANGED <<now, inFlight, grp, runs, startedAt, polled, restarts>>
PublishReleasing(r) ==
  /\ at[r] \in {"succeeded", "erred"}
  /\ status' = [status EXCEPT ![r] = IF at[r] = "erred" THEN "failed" ELSE "done"]
  /\ completedAt' = [completedAt EXCEPT ![r] = now]
  /\ at' = [at EXCEPT ![r] = "finished"]
  /\ Release(r)
  /\ UNCHANGED <<now, grp, runs, startedAt, polled, restarts>>

PublishRaw(r) ==
  /\ at[r] \in {"succeeded", "erred"}
  /\ status' = [status EXCEPT ![r] = at[r]]
  /\ completedAt' = [completedAt EXCEPT ![r] = now]
  /\ at' = [at EXCEPT ![r] = "finished"]
  /\ UNCHANGED <<now, inFlight, grp, runs, startedAt, polled, restarts>>

(* The goroutine's last critical section: the record turns terminal. *)
Publish(r) ==
  /\ at[r] \in {"succeeded", "erred"}
  /\ status' = [status EXCEPT ![r] = IF at[r] = "erred" THEN "failed" ELSE "done"]
  /\ completedAt' = [completedAt EXCEPT ![r] = now]
  /\ at' = [at EXCEPT ![r] = "finished"]
  /\ UNCHANGED <<now, inFlight, grp, runs, startedAt, polled, restarts>>

(* defer release(): the last thing a run's goroutine does. *)
Finish(r) ==
  /\ at[r] = "finished"
  /\ Release(r)
  /\ at' = [at EXCEPT ![r] = "over"]
  /\ grp' = [grp EXCEPT ![r] = NoGroup]
  /\ UNCHANGED <<now, runs, recordVars, polled, restarts>>

(* A group card or button: Lark's handleGroupRun or Telegram's runGroup    *)
(* takes the gate and starts its goroutine.  A taken gate only renders a   *)
(* message.                                                                *)
ChatStart(c, g) ==
  /\ at[c] = "new"
  /\ TryAcquire(c, g)
  /\ at' = [at EXCEPT ![c] = "working"]
  /\ UNCHANGED <<now, runs, recordVars, polled, restarts>>

(* GetRun: the record's status, or 404 when it is not in the store.  A     *)
(* client knows the id once Submit returned it.                            *)
GetRun(r) ==
  /\ at[r] \notin {"new", "acquired"}
  /\ polled' = [polled EXCEPT ![r] = IF r \in runs THEN status[r] ELSE "notfound"]
  /\ UNCHANGED <<now, inFlight, at, grp, runs, recordVars, restarts>>

Tick ==
  /\ now < MaxTime
  /\ now' = now + 1
  /\ UNCHANGED <<inFlight, at, grp, runs, recordVars, polled, restarts>>

(* The process ends, by a signal or a fatal error, and a new one starts:    *)
(* the gates, the records and the goroutines were all its memory.  The     *)
(* clients keep the ids they were given.                                   *)
Restart ==
  /\ restarts < MaxRestarts
  /\ restarts' = restarts + 1
  /\ at' = [r \in Run |-> IF at[r] = "new" THEN "new" ELSE "lost"]
  /\ inFlight' = {}
  /\ runs' = {}
  /\ status' = [r \in RunId |-> "none"]
  /\ startedAt' = [r \in RunId |-> 0]
  /\ completedAt' = [r \in RunId |-> 0]
  /\ grp' = [r \in Run |-> NoGroup]
  /\ UNCHANGED <<now, polled>>

RunStep(r) == RunReturns(r) \/ Finish(r)
ServiceStep(r) == SubmitInsert(r) \/ Publish(r)

Next ==
  \/ \E r \in RunId, g \in Group : SubmitAcquire(r, g)
  \/ \E r \in RunId : ServiceStep(r)
  \/ \E r \in Run : RunStep(r)
  \/ \E c \in ChatRun, g \in Group : ChatStart(c, g)
  \/ \E r \in Polled : GetRun(r)
  \/ Tick
  \/ Restart

Spec == Init /\ [][Next]_vars

(* A started goroutine is scheduled and Runner.Run comes back; nobody has  *)
(* to submit, poll or let time pass.                                       *)
Fairness ==
  /\ \A r \in RunId : WF_vars(ServiceStep(r))
  /\ \A r \in Run : WF_vars(RunStep(r))

FairSpec == Spec /\ Fairness

-----------------------------------------------------------------------------
(* Properties *)

Places == {"new", "acquired", "working", "succeeded", "erred", "finished", "over",
           "lost"}
Busy == {"acquired", "working", "succeeded", "erred", "finished"}

TypeOK ==
  /\ now \in Time
  /\ inFlight \subseteq Group
  /\ at \in [Run -> Places]
  /\ grp \in [Run -> Group \cup {NoGroup}]
  /\ runs \subseteq RunId
  /\ status \in [RunId -> {"none", "running"} \cup Terminal]
  /\ startedAt \in [RunId -> Time]
  /\ completedAt \in [RunId -> Time]
  /\ polled \in [RunId -> {"never", "running", "notfound"} \cup Terminal]
  /\ restarts \in 0 .. MaxRestarts

(* Runs of one group never overlap, whichever entry points started them,   *)
(* and the gate is taken exactly for the groups that have a run: it is     *)
(* neither leaked nor released under a run that is still working.          *)
OneRunPerGroup ==
  /\ \A q, r \in Run : at[q] \in Busy /\ at[r] \in Busy /\ grp[q] = grp[r] => q = r
  /\ inFlight = {grp[r] : r \in {q \in Run : at[q] \in Busy}}

(* The record of a run that is still working is never evicted, so its      *)
(* client can always poll it.                                              *)
RunningIsStored ==
  \A r \in RunId : at[r] \in {"working", "succeeded", "erred"} => r \in runs

(* The store is bounded by maxRuns, or by the number of groups where there *)
(* are more of those: records over maxRuns are only ever running ones at   *)
(* the time they are stored, at most one per group.                        *)
StoreBounded ==
  Cardinality(runs) <= MaxRuns \/ Cardinality(runs) <= Cardinality(Group)

(* What a client polls only ever moves forward: running, then one terminal *)
(* status that never changes, then not found for good; and it is told not  *)
(* found only of a run that has ended or that a restart lost.              *)
PollsMoveForward ==
  [][\A r \in RunId : polled'[r] # polled[r] =>
       \/ polled[r] = "never"
       \/ polled[r] = "running" /\ polled'[r] \in Terminal
       \/ polled[r] = "running" /\ polled'[r] = "notfound"
            /\ (status[r] \in Terminal \/ at[r] = "lost")
       \/ polled[r] \in Terminal /\ polled'[r] = "notfound"]_vars

(* Every accepted run reaches a terminal status, unless a restart loses    *)
(* it; and either way its group can be run again.                          *)
SubmittedRunsEnd ==
  /\ \A r \in RunId : at[r] = "acquired" ~> status[r] \in Terminal \/ at[r] = "lost"
  /\ \A g \in Group : g \in inFlight ~> g \notin inFlight
=============================================================================
