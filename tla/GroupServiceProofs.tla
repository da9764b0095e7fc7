------------------------- MODULE GroupServiceProofs -------------------------
(***************************************************************************)
(* GroupService for every number of groups and runs, every size of the     *)
(* store and every TTL, with restarts: a group has one run at a time, a    *)
(* run's record is there while the run is, polls move forward and the      *)
(* store is bounded.                                                       *)
(***************************************************************************)
EXTENDS GroupService, FiniteSetTheorems, TLAPS

-----------------------------------------------------------------------------
(* The inductive invariant, by parts *)

(* A run has a group exactly while it is under way, no two runs share one, *)
(* and the gates taken are those of the groups that have a run.            *)
GateInv ==
  /\ \A r \in Run : at[r] \in Busy <=> grp[r] # NoGroup
  /\ \A q, r \in Run : grp[q] = grp[r] /\ grp[q] # NoGroup => q = r
  /\ \A g \in Group : g \in inFlight <=> \E r \in Run : grp[r] = g

(* Chat runs keep no record and so never get near one. *)
ChatInv == \A c \in ChatRun : at[c] \notin {"acquired", "succeeded", "erred"}

(* A record says running until its run is finished, and is stored from the *)
(* moment the run starts at least until then.                              *)
RecordInv(r) ==
  /\ at[r] \in {"acquired", "working", "succeeded", "erred"} => status[r] = "running"
  /\ at[r] \in {"finished", "over"} => status[r] \in Terminal
  /\ at[r] \in {"working", "succeeded", "erred"} => r \in runs
  /\ r \in runs => at[r] \notin {"new", "acquired", "lost"}

(* What a client was told is still so, or was before the record went. *)
PollInv(r) ==
  /\ polled[r] # "never" => at[r] \notin {"new", "acquired"}
  /\ polled[r] \in Terminal =>
       at[r] \in {"finished", "over", "lost"} /\ (r \in runs => status[r] = polled[r])
  /\ polled[r] = "notfound" => at[r] \in {"finished", "over", "lost"} /\ r \notin runs

IInv ==
  /\ TypeOK
  /\ GateInv
  /\ ChatInv
  /\ \A r \in RunId : RecordInv(r) /\ PollInv(r)
  /\ StoreBounded

-----------------------------------------------------------------------------
(* evictLocked takes only terminal records, and either makes room for one  *)
(* more record or leaves running ones only.                                *)
LEMMA Eviction ==
  ASSUME TypeOK, NEW kept \in evictLocked
  PROVE  /\ kept \subseteq runs
         /\ \A r \in runs : status[r] \notin Terminal => r \in kept
         /\ IsFiniteSet(kept)
         /\ \/ Cardinality(kept) <= MaxRuns - 1
            \/ \A r \in kept : status[r] \notin Terminal
<1> DEFINE S == runs \ Expired
           terminal == {r \in S : status[r] \in Terminal}
           excess == Cardinality(S) - MaxRuns + 1
<1>1. PICK old \in SUBSET terminal :
        /\ kept = S \ old
        /\ old = terminal \/ Cardinality(old) >= excess
  BY DEF evictLocked, OldestOver
<1>2. IsFiniteSet(RunId) /\ IsFiniteSet(S) /\ IsFiniteSet(old) /\ IsFiniteSet(kept)
  <2>1. IsFiniteSet(RunId)
    BY FiniteAssumption, FS_Interval DEF RunId
  <2>2. S \subseteq RunId /\ old \subseteq RunId /\ kept \subseteq RunId
    BY <1>1 DEF TypeOK
  <2> QED
    BY <2>1, <2>2, FS_Subset
<1>3. CASE Cardinality(old) >= excess
  <2>1. old \subseteq S /\ kept = S \ old
    BY <1>1
  <2>2. Cardinality(kept) = Cardinality(S) - Cardinality(old)
    <3>1. S \cap old = old
      BY <2>1
    <3>2. Cardinality(S \ old) = Cardinality(S) - Cardinality(S \cap old)
      BY <1>2, FS_Difference
    <3> QED
      BY <2>1, <3>1, <3>2
  <2>3. Cardinality(S) \in Nat /\ Cardinality(old) \in Nat
    BY <1>2, FS_CardinalityType
  <2>4. Cardinality(kept) <= MaxRuns - 1
    BY <1>3, <2>2, <2>3, BoundAssumption
  <2> QED
    BY <1>1, <1>2, <2>4 DEF Expired
<1>4. CASE old = terminal
  BY <1>1, <1>2, <1>4 DEF Expired
<1> QED
  BY <1>1, <1>3, <1>4
-----------------------------------------------------------------------------
(* Each part is kept by every step *)

(* Every variable keeps its type. *)
LEMMA TypeInductive ==
  ASSUME IInv, [Next]_vars
  PROVE  TypeOK'
<1>1. ASSUME NEW r \in RunId, NEW g \in Group, SubmitAcquire(r, g)
      PROVE  TypeOK'
  BY <1>1, FiniteAssumption, BoundAssumption DEF SubmitAcquire, TryAcquire, IInv, TypeOK, Run, Places, Time, Terminal, recordVars
<1>2. ASSUME NEW r \in RunId, SubmitInsert(r)
      PROVE  TypeOK'
  <2>1. PICK kept \in evictLocked : runs' = kept \cup {r}
    BY <1>2 DEF SubmitInsert
  <2>2. kept \subseteq runs /\ \A q \in runs : status[q] \notin Terminal => q \in kept
    BY Eviction DEF IInv
  <2> QED
    BY <1>2, <2>1, <2>2 DEF SubmitInsert, IInv, TypeOK, Run, Places, recordVars
<1>3. ASSUME NEW r \in RunId, Publish(r)
      PROVE  TypeOK'
  BY <1>3, FiniteAssumption, BoundAssumption DEF Publish, IInv, TypeOK, Run, Places, Time, Terminal, recordVars
<1>4. ASSUME NEW r \in Run, RunReturns(r)
      PROVE  TypeOK'
  BY <1>4, FiniteAssumption, BoundAssumption DEF RunReturns, IInv, TypeOK, Run, Places, Time, Terminal, recordVars
<1>5. ASSUME NEW r \in Run, Finish(r)
      PROVE  TypeOK'
  BY <1>5, FiniteAssumption, BoundAssumption DEF Finish, Release, IInv, TypeOK, Run, Places, Time, Terminal, recordVars
<1>6. ASSUME NEW r \in ChatRun, NEW g \in Group, ChatStart(r, g)
      PROVE  TypeOK'
  BY <1>6, FiniteAssumption, BoundAssumption DEF ChatStart, TryAcquire, IInv, TypeOK, Run, Places, Time, Terminal, recordVars
<1>7. ASSUME NEW r \in Polled, GetRun(r)
      PROVE  TypeOK'
  <2>1. r \in runs => status[r] \in {"running"} \cup Terminal
    <3>1. r \in RunId /\ at[r] \in Places /\ RecordInv(r)
      BY <1>7, FiniteAssumption DEF IInv, TypeOK, Run
    <3> QED
      BY <3>1 DEF RecordInv, Places
  <2>2. polled' \in [RunId -> {"never", "running", "notfound"} \cup Terminal]
    BY <1>7, <2>1, FiniteAssumption DEF GetRun, IInv, TypeOK
  <2> QED
    BY <1>7, <2>2 DEF GetRun, IInv, TypeOK, recordVars
<1>8. ASSUME Tick
      PROVE  TypeOK'
  BY <1>8, FiniteAssumption, BoundAssumption DEF Tick, IInv, TypeOK, Run, Places, Time, Terminal, recordVars
<1>9. ASSUME Restart
      PROVE  TypeOK'
  BY <1>9, FiniteAssumption, BoundAssumption DEF Restart, IInv, TypeOK, Run, Places, Time, Terminal, recordVars
<1>10. CASE UNCHANGED vars
  BY <1>10 DEF vars, recordVars, IInv, TypeOK, Run, Places, Time, Terminal, recordVars
<1> QED
  BY <1>1, <1>2, <1>3, <1>4, <1>5, <1>6, <1>7, <1>8, <1>9, <1>10 DEF Next, ServiceStep, RunStep

(* The gate is taken with the run's group and given back with it. *)
LEMMA GateInductive ==
  ASSUME IInv, [Next]_vars
  PROVE  GateInv'
<1>1. ASSUME NEW r \in RunId, NEW g \in Group, SubmitAcquire(r, g)
      PROVE  GateInv'
  BY <1>1, DistinctAssumption DEF SubmitAcquire, TryAcquire, IInv, TypeOK, GateInv, Run, Busy, recordVars
<1>2. ASSUME NEW r \in RunId, SubmitInsert(r)
      PROVE  GateInv'
  BY <1>2, DistinctAssumption DEF SubmitInsert, IInv, TypeOK, GateInv, Run, Busy, recordVars
<1>3. ASSUME NEW r \in RunId, Publish(r)
      PROVE  GateInv'
  BY <1>3, DistinctAssumption DEF Publish, IInv, TypeOK, GateInv, Run, Busy, recordVars
<1>4. ASSUME NEW r \in Run, RunReturns(r)
      PROVE  GateInv'
  BY <1>4, DistinctAssumption DEF RunReturns, IInv, TypeOK, GateInv, Run, Busy, recordVars
<1>5. ASSUME NEW r \in Run, Finish(r)
      PROVE  GateInv'
  BY <1>5, DistinctAssumption DEF Finish, Release, IInv, TypeOK, GateInv, Run, Busy, recordVars
<1>6. ASSUME NEW r \in ChatRun, NEW g \in Group, ChatStart(r, g)
      PROVE  GateInv'
  BY <1>6, DistinctAssumption DEF ChatStart, TryAcquire, IInv, TypeOK, GateInv, Run, Busy, recordVars
<1>7. ASSUME NEW r \in Polled, GetRun(r)
      PROVE  GateInv'
  BY <1>7, DistinctAssumption DEF GetRun, IInv, TypeOK, GateInv, Run, Busy, recordVars
<1>8. ASSUME Tick
      PROVE  GateInv'
  BY <1>8, DistinctAssumption DEF Tick, IInv, TypeOK, GateInv, Run, Busy, recordVars
<1>9. ASSUME Restart
      PROVE  GateInv'
  BY <1>9, DistinctAssumption DEF Restart, IInv, TypeOK, GateInv, Run, Busy, recordVars
<1>10. CASE UNCHANGED vars
  BY <1>10 DEF vars, recordVars, IInv, TypeOK, GateInv, Run, Busy, recordVars
<1> QED
  BY <1>1, <1>2, <1>3, <1>4, <1>5, <1>6, <1>7, <1>8, <1>9, <1>10 DEF Next, ServiceStep, RunStep

(* Only submitted runs go through the store. *)
LEMMA ChatInductive ==
  ASSUME IInv, [Next]_vars
  PROVE  ChatInv'
<1>1. ASSUME NEW r \in RunId, NEW g \in Group, SubmitAcquire(r, g)
      PROVE  ChatInv'
  BY <1>1, DistinctAssumption DEF SubmitAcquire, TryAcquire, IInv, TypeOK, ChatInv, Run, recordVars
<1>2. ASSUME NEW r \in RunId, SubmitInsert(r)
      PROVE  ChatInv'
  BY <1>2, DistinctAssumption DEF SubmitInsert, IInv, TypeOK, ChatInv, Run, recordVars
<1>3. ASSUME NEW r \in RunId, Publish(r)
      PROVE  ChatInv'
  BY <1>3, DistinctAssumption DEF Publish, IInv, TypeOK, ChatInv, Run, recordVars
<1>4. ASSUME NEW r \in Run, RunReturns(r)
      PROVE  ChatInv'
  BY <1>4, DistinctAssumption DEF RunReturns, IInv, TypeOK, ChatInv, Run, recordVars
<1>5. ASSUME NEW r \in Run, Finish(r)
      PROVE  ChatInv'
  BY <1>5, DistinctAssumption DEF Finish, Release, IInv, TypeOK, ChatInv, Run, recordVars
<1>6. ASSUME NEW r \in ChatRun, NEW g \in Group, ChatStart(r, g)
      PROVE  ChatInv'
  BY <1>6, DistinctAssumption DEF ChatStart, TryAcquire, IInv, TypeOK, ChatInv, Run, recordVars
<1>7. ASSUME NEW r \in Polled, GetRun(r)
      PROVE  ChatInv'
  BY <1>7, DistinctAssumption DEF GetRun, IInv, TypeOK, ChatInv, Run, recordVars
<1>8. ASSUME Tick
      PROVE  ChatInv'
  BY <1>8, DistinctAssumption DEF Tick, IInv, TypeOK, ChatInv, Run, recordVars
<1>9. ASSUME Restart
      PROVE  ChatInv'
  BY <1>9, DistinctAssumption DEF Restart, IInv, TypeOK, ChatInv, Run, recordVars
<1>10. CASE UNCHANGED vars
  BY <1>10 DEF vars, recordVars, IInv, TypeOK, ChatInv, Run, recordVars
<1> QED
  BY <1>1, <1>2, <1>3, <1>4, <1>5, <1>6, <1>7, <1>8, <1>9, <1>10 DEF Next, ServiceStep, RunStep

(* A record is stored after its run took the gate, and evicted only when its run is finished. *)
LEMMA RecordInductive ==
  ASSUME IInv, [Next]_vars
  PROVE  \A q \in RunId : RecordInv(q)'
<1>1. ASSUME NEW r \in RunId, NEW g \in Group, SubmitAcquire(r, g)
      PROVE  \A q \in RunId : RecordInv(q)'
  BY <1>1, DistinctAssumption DEF SubmitAcquire, TryAcquire, IInv, TypeOK, RecordInv, ChatInv, Run, Terminal, recordVars
<1>2. ASSUME NEW r \in RunId, SubmitInsert(r)
      PROVE  \A q \in RunId : RecordInv(q)'
  <2>1. PICK kept \in evictLocked : runs' = kept \cup {r}
    BY <1>2 DEF SubmitInsert
  <2>2. kept \subseteq runs /\ \A q \in runs : status[q] \notin Terminal => q \in kept
    BY Eviction DEF IInv
  <2> TAKE q \in RunId
  <2>3. at'[q] = (IF q = r THEN "working" ELSE at[q]) /\ status' = status /\ at[r] = "acquired"
    BY <1>2 DEF SubmitInsert, IInv, TypeOK, Run, recordVars
  <2>4. q # r => (q \in runs' <=> q \in kept)
    BY <2>1
  <2>5. q # r /\ q \in runs /\ status[q] \notin Terminal => q \in runs'
    BY <2>2, <2>4
  <2> QED
    BY <2>1, <2>2, <2>3, <2>4, <2>5 DEF IInv, RecordInv, Terminal
<1>3. ASSUME NEW r \in RunId, Publish(r)
      PROVE  \A q \in RunId : RecordInv(q)'
  BY <1>3, DistinctAssumption DEF Publish, IInv, TypeOK, RecordInv, ChatInv, Run, Terminal, recordVars
<1>4. ASSUME NEW r \in Run, RunReturns(r)
      PROVE  \A q \in RunId : RecordInv(q)'
  BY <1>4, DistinctAssumption DEF RunReturns, IInv, TypeOK, RecordInv, ChatInv, Run, Terminal, recordVars
<1>5. ASSUME NEW r \in Run, Finish(r)
      PROVE  \A q \in RunId : RecordInv(q)'
  BY <1>5, DistinctAssumption DEF Finish, Release, IInv, TypeOK, RecordInv, ChatInv, Run, Terminal, recordVars
<1>6. ASSUME NEW r \in ChatRun, NEW g \in Group, ChatStart(r, g)
      PROVE  \A q \in RunId : RecordInv(q)'
  BY <1>6, DistinctAssumption DEF ChatStart, TryAcquire, IInv, TypeOK, RecordInv, ChatInv, Run, Terminal, recordVars
<1>7. ASSUME NEW r \in Polled, GetRun(r)
      PROVE  \A q \in RunId : RecordInv(q)'
  BY <1>7, DistinctAssumption DEF GetRun, IInv, TypeOK, RecordInv, ChatInv, Run, Terminal, recordVars
<1>8. ASSUME Tick
      PROVE  \A q \in RunId : RecordInv(q)'
  BY <1>8, DistinctAssumption DEF Tick, IInv, TypeOK, RecordInv, ChatInv, Run, Terminal, recordVars
<1>9. ASSUME Restart
      PROVE  \A q \in RunId : RecordInv(q)'
  BY <1>9, DistinctAssumption DEF Restart, IInv, TypeOK, RecordInv, ChatInv, Run, Terminal, recordVars
<1>10. CASE UNCHANGED vars
  BY <1>10 DEF vars, recordVars, IInv, TypeOK, RecordInv, ChatInv, Run, Terminal, recordVars
<1> QED
  BY <1>1, <1>2, <1>3, <1>4, <1>5, <1>6, <1>7, <1>8, <1>9, <1>10 DEF Next, ServiceStep, RunStep

(* What a client was told can only be overtaken by the end of its run. *)
LEMMA PollInductive ==
  ASSUME IInv, [Next]_vars
  PROVE  \A q \in RunId : PollInv(q)'
<1>1. ASSUME NEW r \in RunId, NEW g \in Group, SubmitAcquire(r, g)
      PROVE  \A q \in RunId : PollInv(q)'
  BY <1>1, FiniteAssumption, DistinctAssumption DEF SubmitAcquire, TryAcquire, IInv, TypeOK, RecordInv, PollInv, ChatInv, Run, Terminal, recordVars
<1>2. ASSUME NEW r \in RunId, SubmitInsert(r)
      PROVE  \A q \in RunId : PollInv(q)'
  <2>1. PICK kept \in evictLocked : runs' = kept \cup {r}
    BY <1>2 DEF SubmitInsert
  <2>2. kept \subseteq runs /\ \A q \in runs : status[q] \notin Terminal => q \in kept
    BY Eviction DEF IInv
  <2> TAKE q \in RunId
  <2>3. /\ at'[q] = (IF q = r THEN "working" ELSE at[q]) /\ at[r] = "acquired"
        /\ status' = status /\ polled' = polled
    BY <1>2 DEF SubmitInsert, IInv, TypeOK, Run, recordVars
  <2> QED
    BY <2>1, <2>2, <2>3 DEF IInv, RecordInv, PollInv, Terminal
<1>3. ASSUME NEW r \in RunId, Publish(r)
      PROVE  \A q \in RunId : PollInv(q)'
  BY <1>3, FiniteAssumption, DistinctAssumption DEF Publish, IInv, TypeOK, RecordInv, PollInv, ChatInv, Run, Terminal, recordVars
<1>4. ASSUME NEW r \in Run, RunReturns(r)
      PROVE  \A q \in RunId : PollInv(q)'
  BY <1>4, FiniteAssumption, DistinctAssumption DEF RunReturns, IInv, TypeOK, RecordInv, PollInv, ChatInv, Run, Terminal, recordVars
<1>5. ASSUME NEW r \in Run, Finish(r)
      PROVE  \A q \in RunId : PollInv(q)'
  BY <1>5, FiniteAssumption, DistinctAssumption DEF Finish, Release, IInv, TypeOK, RecordInv, PollInv, ChatInv, Run, Terminal, recordVars
<1>6. ASSUME NEW r \in ChatRun, NEW g \in Group, ChatStart(r, g)
      PROVE  \A q \in RunId : PollInv(q)'
  BY <1>6, FiniteAssumption, DistinctAssumption DEF ChatStart, TryAcquire, IInv, TypeOK, RecordInv, PollInv, ChatInv, Run, Terminal, recordVars
<1>7. ASSUME NEW r \in Polled, GetRun(r)
      PROVE  \A q \in RunId : PollInv(q)'
  <2> TAKE q \in RunId
  <2>1. r \in RunId /\ at' = at /\ status' = status /\ runs' = runs
    BY <1>7, FiniteAssumption DEF GetRun, recordVars
  <2>2. CASE q # r
    <3>1. polled'[q] = polled[q]
      BY <1>7, <2>1, <2>2 DEF GetRun, IInv, TypeOK
    <3> QED
      BY <2>1, <3>1 DEF IInv, PollInv, Terminal
  <2>3. CASE q = r
    <3>1. at[r] \notin {"new", "acquired"} /\ RecordInv(r) /\ at[r] \in Places
      BY <1>7, <2>1 DEF GetRun, IInv, TypeOK, Run
    <3>2. polled'[r] = IF r \in runs THEN status[r] ELSE "notfound"
      BY <1>7, <2>1 DEF GetRun, IInv, TypeOK
    <3> QED
      BY <2>1, <2>3, <3>1, <3>2 DEF RecordInv, PollInv, Terminal, Places
  <2> QED
    BY <2>2, <2>3
<1>8. ASSUME Tick
      PROVE  \A q \in RunId : PollInv(q)'
  BY <1>8, FiniteAssumption, DistinctAssumption DEF Tick, IInv, TypeOK, RecordInv, PollInv, ChatInv, Run, Terminal, recordVars
<1>9. ASSUME Restart
      PROVE  \A q \in RunId : PollInv(q)'
  BY <1>9, FiniteAssumption, DistinctAssumption DEF Restart, IInv, TypeOK, RecordInv, PollInv, ChatInv, Run, Terminal, recordVars
<1>10. CASE UNCHANGED vars
  BY <1>10 DEF vars, recordVars, IInv, TypeOK, RecordInv, PollInv, ChatInv, Run, Terminal, recordVars
<1> QED
  BY <1>1, <1>2, <1>3, <1>4, <1>5, <1>6, <1>7, <1>8, <1>9, <1>10 DEF Next, ServiceStep, RunStep

(* The store grows only by Submit, which evicts first; what it cannot      *)
(* evict is running, and running runs have different groups.               *)
LEMMA StoreInductive ==
  ASSUME IInv, TypeOK', GateInv', [Next]_vars
  PROVE  StoreBounded'
<1>0. IsFiniteSet(RunId) /\ runs \subseteq RunId
  <2>1. IsFiniteSet(RunId)
    BY FiniteAssumption, FS_Interval DEF RunId
  <2> QED
    BY <2>1 DEF IInv, TypeOK
<1>1. ASSUME NEW r \in RunId, SubmitInsert(r)
      PROVE  StoreBounded'
  <2>1. PICK kept \in evictLocked : runs' = kept \cup {r}
    BY <1>1 DEF SubmitInsert
  <2>2. /\ kept \subseteq runs /\ IsFiniteSet(kept)
        /\ \/ Cardinality(kept) <= MaxRuns - 1
           \/ \A q \in kept : status[q] \notin Terminal
    BY Eviction DEF IInv
  <2>3. CASE Cardinality(kept) <= MaxRuns - 1
    <3>0. Cardinality(kept) \in Nat
      BY <2>2, FS_CardinalityType
    <3>1. Cardinality(kept \cup {r}) = IF r \in kept THEN Cardinality(kept) ELSE Cardinality(kept) + 1
      BY <2>2, FS_AddElement
    <3>2. Cardinality(kept \cup {r}) \in Nat
      BY <2>2, FS_AddElement, FS_CardinalityType
    <3>3. Cardinality(runs') <= MaxRuns
      BY <2>1, <2>3, <3>0, <3>1, <3>2, BoundAssumption
    <3> QED
      BY <3>3 DEF StoreBounded
  <2>4. CASE \A q \in kept : status[q] \notin Terminal
    <3>1. \A q \in runs' : q \in Run /\ at'[q] \in Busy
      <4>1. at[r] = "acquired" /\ at' = [at EXCEPT ![r] = "working"]
        BY <1>1 DEF SubmitInsert
      <4>2. ASSUME NEW q \in kept
            PROVE  at[q] \in {"working", "succeeded", "erred"}
        <5>1. q \in RunId /\ at[q] \in Places /\ RecordInv(q)
          BY <1>0, <2>2 DEF IInv, TypeOK, Run
        <5> QED
          BY <2>2, <2>4, <5>1 DEF RecordInv, Places
      <4> QED
        BY <1>0, <2>1, <2>2, <4>1, <4>2 DEF Busy, Run, IInv, TypeOK
    <3> DEFINE f == [q \in runs' |-> grp'[q]]
    <3>2. f \in Injection(runs', Group)
      <4>1. \A q \in runs' : grp'[q] \in Group
        BY <3>1 DEF GateInv, TypeOK, IInv
      <4>2. \A p, q \in runs' : grp'[p] = grp'[q] => p = q
        BY <3>1 DEF GateInv, IInv
      <4> QED
        BY <4>1, <4>2 DEF Injection, IsInjective
    <3>3. Cardinality(runs') <= Cardinality(Group)
      BY <3>2, FiniteAssumption, FS_Injection
    <3> QED
      BY <3>3 DEF StoreBounded
  <2> QED
    BY <2>2, <2>3, <2>4
<1>2. CASE runs' = runs
  BY <1>2 DEF IInv, StoreBounded
<1>3. CASE runs' = {}
  BY <1>3, FS_EmptySet, BoundAssumption DEF StoreBounded
<1> QED
  BY <1>1, <1>2, <1>3
  DEF Next, SubmitAcquire, ServiceStep, Publish, RunStep, RunReturns, Finish, ChatStart,
      GetRun, Tick, Restart, vars

-----------------------------------------------------------------------------
(* The invariant holds in every reachable state: gates, runs, records and  *)
(* what clients were told agree, across evictions and restarts.            *)
THEOREM Inductive == Spec => []IInv
<1>1. Init => IInv
  <2> SUFFICES ASSUME Init
               PROVE  IInv
    OBVIOUS
  <2>1. TypeOK
    BY BoundAssumption DEF Init, TypeOK, Time, Places
  <2>2. GateInv /\ ChatInv
    BY DistinctAssumption DEF Init, GateInv, ChatInv, Busy, Run
  <2>3. ASSUME NEW r \in RunId
        PROVE  RecordInv(r) /\ PollInv(r)
    BY DEF Init, RecordInv, PollInv, Run, Terminal
  <2>4. StoreBounded
    BY FS_EmptySet, BoundAssumption DEF Init, StoreBounded
  <2> QED
    BY <2>1, <2>2, <2>3, <2>4 DEF IInv
<1>2. IInv /\ [Next]_vars => IInv'
  BY TypeInductive, GateInductive, ChatInductive, RecordInductive, PollInductive,
     StoreInductive
  DEF IInv
<1> QED
  BY <1>1, <1>2, PTL DEF Spec

(* Every variable keeps its type. *)
THEOREM TypeCorrect == Spec => []TypeOK
<1>1. IInv => TypeOK
  BY DEF IInv
<1> QED
  BY <1>1, Inductive, PTL

(* Runs of one group never overlap, whoever started them, and no gate is   *)
(* leaked or given back early.                                             *)
THEOREM GroupsRunOnce == Spec => []OneRunPerGroup
<1>1. IInv => OneRunPerGroup
  <2> SUFFICES ASSUME IInv
               PROVE  OneRunPerGroup
    OBVIOUS
  <2>1. ASSUME NEW q \in Run, NEW r \in Run, at[q] \in Busy, grp[q] = grp[r]
        PROVE  q = r
    BY <2>1 DEF IInv, GateInv
  <2>2. inFlight = {grp[r] : r \in {q \in Run : at[q] \in Busy}}
    BY DistinctAssumption DEF IInv, GateInv, TypeOK
  <2> QED
    BY <2>1, <2>2 DEF OneRunPerGroup
<1> QED
  BY <1>1, Inductive, PTL

(* A run that is still working can be polled. *)
THEOREM RunningIsKept == Spec => []RunningIsStored
<1>1. IInv => RunningIsStored
  BY DEF IInv, RecordInv, RunningIsStored
<1> QED
  BY <1>1, Inductive, PTL

(* The store holds at most maxRuns records, or one for each group. *)
THEOREM StoreIsBounded == Spec => []StoreBounded
<1>1. IInv => StoreBounded
  BY DEF IInv
<1> QED
  BY <1>1, Inductive, PTL

(* What a client polls moves forward only, whatever is evicted, stored,    *)
(* finished or restarted between two polls.                                *)
THEOREM PollsAreMonotone == Spec => PollsMoveForward
<1>1. IInv /\ [Next]_vars =>
        [\A r \in RunId : polled'[r] # polled[r] =>
           \/ polled[r] = "never"
           \/ polled[r] = "running" /\ polled'[r] \in Terminal
           \/ polled[r] = "running" /\ polled'[r] = "notfound"
                /\ (status[r] \in Terminal \/ at[r] = "lost")
           \/ polled[r] \in Terminal /\ polled'[r] = "notfound"]_vars
  <2> SUFFICES ASSUME IInv, Next, NEW r \in RunId, polled'[r] # polled[r]
               PROVE  \/ polled[r] = "never"
                      \/ polled[r] = "running" /\ polled'[r] \in Terminal
                      \/ polled[r] = "running" /\ polled'[r] = "notfound"
                           /\ (status[r] \in Terminal \/ at[r] = "lost")
                      \/ polled[r] \in Terminal /\ polled'[r] = "notfound"
    OBVIOUS
  <2>1. PICK q \in Polled : GetRun(q)
    BY DEF Next, SubmitAcquire, ServiceStep, SubmitInsert, Publish, RunStep, RunReturns,
           Finish, ChatStart, Tick, Restart
  <2>2. q = r
    BY <2>1, FiniteAssumption DEF GetRun, IInv, TypeOK
  <2>3. /\ polled'[r] = IF r \in runs THEN status[r] ELSE "notfound"
        /\ at[r] \in Places \ {"new", "acquired"} /\ RecordInv(r) /\ PollInv(r)
        /\ polled[r] \in {"never", "running", "notfound"} \cup Terminal
    BY <2>1, <2>2 DEF GetRun, IInv, TypeOK, Run
  <2>4. r \in runs => status[r] \in {"running"} \cup Terminal
    BY <2>3 DEF RecordInv, Places
  <2>5. r \notin runs => at[r] \in {"finished", "over", "lost"}
    BY <2>3 DEF RecordInv, Places
  <2> QED
    BY <2>3, <2>4, <2>5 DEF RecordInv, PollInv, Terminal
<1> QED
  BY <1>1, Inductive, PTL DEF Spec, PollsMoveForward
=============================================================================
