------------------------- MODULE GroupRunnerProofs -------------------------
(***************************************************************************)
(* Proofs about GroupRunner, for every number of items, every pool size    *)
(* and every retry bound.                                                  *)
(***************************************************************************)
EXTENDS GroupRunner, FiniteSetTheorems, TLAPS

-----------------------------------------------------------------------------
(* The inductive invariant, by parts. *)

Started == caller \in {"collect", "report", "returned"}

(* What the goroutines' control points say of the channels. *)
ControlInv ==
  /\ ~Started => /\ next = 0 /\ ~jobsClosed /\ ~resultsClosed
                 /\ \A w \in Worker : pc[w] = "idle"
  /\ Started => \A w \in Worker : pc[w] # "idle"
  /\ jobsClosed => next = N \/ ctxDone
  /\ \A w \in Worker : pc[w] = "exit" => jobsClosed
  /\ resultsClosed => \A w \in Worker : pc[w] = "exit"
  /\ caller = "returned" => resultsClosed
  /\ caller = "report" <=> cur # NoItem
  /\ cur # NoItem => outcome[cur] # NoOutcome

(* An item not handed out yet has been touched by nobody. *)
UndispatchedInv ==
  \A i \in Items : i >= next =>
    outcome[i] = NoOutcome /\ calls[i] = 0 /\ lastAnswer[i] = NoOutcome

(* A worker's locals agree with its control point. *)
WorkerInv(w) ==
  /\ pc[w] \notin Holding =>
       job[w] = NoItem /\ attempt[w] = 0 /\ out[w] = NoOutcome
  /\ pc[w] \in Holding =>
       job[w] \in Items /\ job[w] < next /\ outcome[job[w]] = NoOutcome
  /\ pc[w] = "run" =>
       /\ calls[job[w]] = attempt[w] + 1
       /\ lastAnswer[job[w]] \in {NoOutcome, "retriable"}
  /\ pc[w] = "backoff" =>
       /\ calls[job[w]] = attempt[w]
       /\ lastAnswer[job[w]] = "retriable"
  /\ pc[w] = "send" =>
       /\ lastAnswer[job[w]] # NoOutcome
       /\ out[w] = Bucket(lastAnswer[job[w]])
       /\ lastAnswer[job[w]] = "retriable" => ctxDone \/ calls[job[w]] = maxRetries + 1

WorkersInv == \A w \in Worker : WorkerInv(w)

(* No two workers hold the same item, and an item handed out and not yet   *)
(* received is held by one.                                                *)
OwnershipInv ==
  /\ \A v, w \in Worker :
       pc[v] \in Holding /\ pc[w] \in Holding /\ job[v] = job[w] => v = w
  /\ \A i \in Items : i < next /\ outcome[i] = NoOutcome =>
       \E w \in Worker : pc[w] \in Holding /\ job[w] = i

(* The reporter has seen what the collector has, but for the item in hand. *)
ReporterInv ==
  rep.results = {i \in Items : outcome[i] # NoOutcome /\ i # cur}

IInv ==
  /\ TypeOK
  /\ ControlInv
  /\ UndispatchedInv
  /\ WorkersInv
  /\ OwnershipInv
  /\ OutcomeJustified
  /\ ReporterInv

-----------------------------------------------------------------------------
(* The bound on retries is a number, whatever is configured. *)
LEMMA RetriesNat == maxRetries \in Nat
BY ConfigAssumption DEF maxRetries, defaultMaxGroupRetries

(* There is at least one worker, whatever is configured. *)
LEMMA SomeWorker == Worker # {}
<1>1. conc \in Nat /\ conc # 0
  BY ConfigAssumption DEF conc, defaultGroupConcurrency
<1>. QED
  BY <1>1, WorkerAssumption, FS_EmptySet

(* Before Run is called nothing is in any hand.                            *)
LEMMA InitInv == Init => IInv
<1>. SUFFICES ASSUME Init PROVE IInv
  OBVIOUS
<1>. USE NAssumption, RetriesNat DEF Init
<1>1. TypeOK
  <2>1. ZeroTallies \in [Buckets -> Nat]
    BY DEF ZeroTallies
  <2>2. 0 \in 0 .. maxRetries /\ 0 \in 0 .. maxRetries + 1 /\ 0 \in 0 .. N
    OBVIOUS
  <2>. QED
    BY <2>1, <2>2 DEF TypeOK, WorkerPC
<1>2. ControlInv
  BY DEF ControlInv, Started, NoItem
<1>3. UndispatchedInv
  BY DEF UndispatchedInv
<1>4. WorkersInv
  BY DEF WorkersInv, WorkerInv, Holding
<1>5. OwnershipInv
  BY DEF OwnershipInv, Holding, Items
<1>6. OutcomeJustified
  BY DEF OutcomeJustified
<1>7. ReporterInv
  BY DEF ReporterInv
<1>. QED
  BY <1>1, <1>2, <1>3, <1>4, <1>5, <1>6, <1>7 DEF IInv

-----------------------------------------------------------------------------
(* One lemma per action. *)

(* Counting a result keeps the tallies numbers. *)
LEMMA TallyType ==
  ASSUME NEW t \in [Buckets -> Nat], NEW b \in Buckets
  PROVE  Tally(t, b) \in [Buckets -> Nat]
BY DEF Tally

(* A step that moves no item between goroutines keeps OwnershipInv. *)
LEMMA OwnershipKept ==
  ASSUME OwnershipInv, outcome' = outcome, next' = next,
         \A v \in Worker : /\ pc'[v] \in Holding <=> pc[v] \in Holding
                           /\ pc[v] \in Holding => job'[v] = job[v]
  PROVE  OwnershipInv'
<1>1. ASSUME NEW v \in Worker, NEW w \in Worker,
             pc'[v] \in Holding, pc'[w] \in Holding, job'[v] = job'[w]
      PROVE  v = w
  BY <1>1 DEF OwnershipInv
<1>2. ASSUME NEW i \in Items, i < next', outcome'[i] = NoOutcome
      PROVE  \E w \in Worker : pc'[w] \in Holding /\ job'[w] = i
  <2>1. PICK w \in Worker : pc[w] \in Holding /\ job[w] = i
    BY <1>2 DEF OwnershipInv
  <2>. QED
    BY <2>1
<1>. QED
  BY <1>1, <1>2 DEF OwnershipInv

(* A step that leaves items still with the feeder alone.                   *)
LEMMA UndispatchedKept ==
  ASSUME UndispatchedInv, N \in Nat, next \in Int, next' \in Int, next <= next',
         \A i \in Items : i >= next' =>
           /\ outcome'[i] = outcome[i] /\ calls'[i] = calls[i]
           /\ lastAnswer'[i] = lastAnswer[i]
  PROVE  UndispatchedInv'
<1>. SUFFICES ASSUME NEW i \in Items, i >= next'
              PROVE  outcome'[i] = NoOutcome /\ calls'[i] = 0 /\ lastAnswer'[i] = NoOutcome
  BY DEF UndispatchedInv
<1>1. i \in Int /\ i >= next
  BY DEF Items
<1>. QED
  BY <1>1 DEF UndispatchedInv

(* A step that receives nothing and leaves what is known of the items      *)
(* received alone.                                                         *)
LEMMA JustifiedKept ==
  ASSUME OutcomeJustified, outcome' = outcome, ctxDone => ctxDone',
         \A i \in Items : outcome[i] # NoOutcome =>
           calls'[i] = calls[i] /\ lastAnswer'[i] = lastAnswer[i]
  PROVE  OutcomeJustified'
BY DEF OutcomeJustified

(* A step of the workers or the feeder does not concern the reporter. *)
LEMMA ReporterKept ==
  ASSUME ReporterInv, rep' = rep, outcome' = outcome, cur' = cur
  PROVE  ReporterInv'
BY DEF ReporterInv

(* A worker keeps its invariant over a step of others that leaves its     *)
(* locals, and what is known of its item, alone.                           *)
LEMMA OtherWorkerInv ==
  ASSUME NEW v \in Worker, WorkerInv(v), next \in Int, next' \in Int, next <= next',
         ctxDone => ctxDone',
         pc'[v] = pc[v], job'[v] = job[v], attempt'[v] = attempt[v], out'[v] = out[v],
         pc[v] \in Holding => /\ calls'[job[v]] = calls[job[v]]
                              /\ lastAnswer'[job[v]] = lastAnswer[job[v]]
                              /\ outcome'[job[v]] = outcome[job[v]]
  PROVE  WorkerInv(v)'
<1>1. (pc[v] \notin Holding => job[v] = NoItem /\ attempt[v] = 0 /\ out[v] = NoOutcome)'
  BY DEF WorkerInv
<1>2. (pc[v] \in Holding =>
         job[v] \in Items /\ job[v] < next /\ outcome[job[v]] = NoOutcome)'
  BY NAssumption DEF WorkerInv, Items
<1>3. (pc[v] = "run" => /\ calls[job[v]] = attempt[v] + 1
                        /\ lastAnswer[job[v]] \in {NoOutcome, "retriable"})'
  BY DEF WorkerInv, Holding
<1>4. (pc[v] = "backoff" => /\ calls[job[v]] = attempt[v]
                            /\ lastAnswer[job[v]] = "retriable")'
  BY DEF WorkerInv, Holding
<1>5. (pc[v] = "send" =>
         /\ lastAnswer[job[v]] # NoOutcome
         /\ out[v] = Bucket(lastAnswer[job[v]])
         /\ lastAnswer[job[v]] = "retriable" => ctxDone \/ calls[job[v]] = maxRetries + 1)'
  BY DEF WorkerInv, Holding, Bucket
<1>. QED
  BY <1>1, <1>2, <1>3, <1>4, <1>5 DEF WorkerInv


(* A reporter that cannot start ends Run before anything is dispatched.    *)
LEMMA StartRefusedInv ==
  ASSUME IInv, StartRefused
  PROVE  IInv'
<1>. USE NAssumption, RetriesNat
       DEF IInv, StartRefused, vars, feederVars, workerVars, collectVars,
           katoVars, TypeOK, Items, Buckets, Holding, WorkerPC, NoItem, NoOutcome
<1>1. TypeOK'
  BY DEF WorkersInv, WorkerInv
<1>2. ControlInv'
  BY DEF ControlInv, Started
<1>3. UndispatchedInv'
  BY DEF UndispatchedInv, WorkersInv, WorkerInv
<1>4. WorkersInv'
  BY DEF WorkersInv, WorkerInv, OwnershipInv, UndispatchedInv, ControlInv
<1>5. OwnershipInv'
  BY DEF OwnershipInv, WorkersInv, WorkerInv
<1>6. OutcomeJustified'
  BY DEF OutcomeJustified, WorkersInv, WorkerInv
<1>7. ReporterInv'
  BY DEF ReporterInv, ControlInv, WorkersInv, WorkerInv
<1>. QED
  BY <1>1, <1>2, <1>3, <1>4, <1>5, <1>6, <1>7

(* The goroutines start with nothing dispatched and nothing reported.      *)
LEMMA StartRunInv ==
  ASSUME IInv, StartRun
  PROVE  IInv'
<1>. USE NAssumption, RetriesNat
       DEF IInv, StartRun, vars, feederVars, workerVars, collectVars,
           katoVars, TypeOK, Items, Buckets, Holding, WorkerPC, NoItem, NoOutcome
<1>1. TypeOK'
  BY DEF WorkersInv, WorkerInv
<1>2. ControlInv'
  BY DEF ControlInv, Started
<1>3. UndispatchedInv'
  BY DEF UndispatchedInv, WorkersInv, WorkerInv
<1>4. WorkersInv'
  BY DEF WorkersInv, WorkerInv, ControlInv, Started
<1>5. OwnershipInv'
  <2>1. \A v \in Worker : pc'[v] \in Holding <=> pc[v] \in Holding
    BY DEF ControlInv, Started
  <2>. QED
    BY <2>1, OwnershipKept DEF OwnershipInv
<1>6. OutcomeJustified'
  BY DEF OutcomeJustified, WorkersInv, WorkerInv
<1>7. ReporterInv'
  BY DEF ReporterInv, ControlInv, WorkersInv, WorkerInv
<1>. QED
  BY <1>1, <1>2, <1>3, <1>4, <1>5, <1>6, <1>7

(* An outcome goes from the one worker that holds it to the collector.     *)
LEMMA CollectInv ==
  ASSUME NEW w \in Worker, IInv, Collect(w)
  PROVE  IInv'
<1>. USE NAssumption, RetriesNat
       DEF IInv, Collect, vars, feederVars, workerVars, collectVars,
           katoVars, TypeOK, Items, Buckets, Holding, WorkerPC, NoItem, NoOutcome
<1>1. TypeOK'
  <2>1. job[w] \in Items /\ out[w] \in Buckets
    <3>1. out[w] = Bucket(lastAnswer[job[w]]) /\ job[w] \in Items
          /\ lastAnswer[job[w]] # NoOutcome
      BY DEF WorkersInv, WorkerInv
    <3>. QED
      BY <3>1 DEF Bucket, Answers
  <2>2. summ' \in [Buckets -> Nat]
    BY <2>1, TallyType
  <2>3. outcome' \in [Items -> Buckets \cup {NoOutcome}]
    BY <2>1
  <2>4. pc' \in [Worker -> WorkerPC] /\ job' \in [Worker -> Items \cup {NoItem}]
    OBVIOUS
  <2>5. attempt' \in [Worker -> 0 .. maxRetries]
    OBVIOUS
  <2>6. out' \in [Worker -> Buckets \cup {NoOutcome}]
    OBVIOUS
  <2>. QED
    BY <2>1, <2>2, <2>3, <2>4, <2>5, <2>6
<1>2. ControlInv'
  <2>1. job[w] \in Items /\ out[w] # NoOutcome
    <3>1. out[w] = Bucket(lastAnswer[job[w]]) /\ job[w] \in Items
          /\ lastAnswer[job[w]] # NoOutcome
      BY DEF WorkersInv, WorkerInv
    <3>. QED
      BY <3>1 DEF Bucket, Answers
  <2>2. /\ ControlInv /\ pc \in [Worker -> WorkerPC] /\ pc[w] = "send"
        /\ outcome \in [Items -> Buckets \cup {NoOutcome}]
        /\ caller = "collect" /\ caller' = "report" /\ cur' = job[w]
        /\ outcome' = [outcome EXCEPT ![job[w]] = out[w]]
        /\ pc' = [pc EXCEPT ![w] = "recv"] /\ next' = next
        /\ jobsClosed' = jobsClosed /\ resultsClosed' = resultsClosed
        /\ ctxDone' = ctxDone
    OBVIOUS
  <2>. HIDE DEF IInv, TypeOK, Collect
  <2>. QED
    BY <2>1, <2>2 DEF ControlInv, Started
<1>3. UndispatchedInv'
  <2>1. job[w] \in Items /\ job[w] < next
    BY DEF WorkersInv, WorkerInv
  <2>2. \A i \in Items : i >= next => i # job[w]
    BY <2>1
  <2>. QED
    BY <2>2, UndispatchedKept
<1>4. WorkersInv'
  <2>. SUFFICES ASSUME NEW v \in Worker PROVE WorkerInv(v)'
    BY DEF WorkersInv
  <2>0. WorkerInv(v) /\ WorkerInv(w)
    BY DEF WorkersInv
  <2>1. CASE v = w
    BY <2>0, <2>1 DEF WorkerInv, ControlInv, UndispatchedInv
  <2>2. CASE v # w
    <3>1. pc[v] \in Holding /\ pc[w] \in Holding => job[v] # job[w]
      BY <2>2 DEF OwnershipInv
    <3>2. /\ pc'[v] = pc[v] /\ job'[v] = job[v]
          /\ attempt'[v] = attempt[v] /\ out'[v] = out[v]
      BY <2>2
    <3>3. pc[v] \in Holding => /\ calls'[job[v]] = calls[job[v]]
                               /\ outcome'[job[v]] = outcome[job[v]]
      BY <2>0, <3>1 DEF WorkerInv
    <3>. QED
      BY <2>0, <3>2, <3>3, OtherWorkerInv
  <2>. QED
    BY <2>1, <2>2
<1>5. OwnershipInv'
  <2>0. WorkerInv(w) /\ out[w] # NoOutcome
    BY DEF WorkersInv, WorkerInv, Bucket, Answers
  <2>1. ASSUME NEW u \in Worker, NEW v \in Worker,
               pc'[u] \in Holding, pc'[v] \in Holding, job'[u] = job'[v]
        PROVE  u = v
    BY <2>1 DEF OwnershipInv
  <2>2. ASSUME NEW i \in Items, i < next', outcome'[i] = NoOutcome
        PROVE  \E v \in Worker : pc'[v] \in Holding /\ job'[v] = i
    <3>1. i # job[w] /\ outcome[i] = NoOutcome
      BY <2>0, <2>2 DEF WorkerInv
    <3>2. PICK v \in Worker : pc[v] \in Holding /\ job[v] = i
      BY <2>2, <3>1 DEF OwnershipInv
    <3>. QED
      BY <3>1, <3>2
  <2>. QED
    BY <2>1, <2>2 DEF OwnershipInv
<1>6. OutcomeJustified'
  <2>0. WorkerInv(w)
    BY DEF WorkersInv
  <2>1. ASSUME NEW i \in Items, outcome'[i] # NoOutcome
        PROVE  /\ outcome'[i] = Bucket(lastAnswer'[i])
               /\ lastAnswer'[i] = "retriable" =>
                    ctxDone' \/ calls'[i] = maxRetries + 1
    <3>1. CASE i = job[w]
      BY <2>0, <2>1, <3>1 DEF WorkerInv
    <3>2. CASE i # job[w]
      BY <2>1, <3>2 DEF OutcomeJustified
    <3>. QED
      BY <3>1, <3>2
  <2>. QED
    BY <2>1 DEF OutcomeJustified, Bucket
<1>7. ReporterInv'
  <2>0. job[w] \in Items /\ outcome[job[w]] = NoOutcome /\ cur = NoItem
    BY DEF WorkersInv, WorkerInv, ControlInv
  <2>1. ASSUME NEW i \in Items
        PROVE  (outcome[i] # NoOutcome /\ i # cur)
               <=> (outcome'[i] # NoOutcome /\ i # cur')
    BY <2>0
  <2>. QED
    BY <2>1 DEF ReporterInv
<1>. QED
  BY <1>1, <1>2, <1>3, <1>4, <1>5, <1>6, <1>7

(* The collector has told the reporter of the outcome in its hand.         *)
LEMMA ServiceDoneInv ==
  ASSUME IInv, ServiceDone
  PROVE  IInv'
<1>. USE NAssumption, RetriesNat
       DEF IInv, ServiceDone, vars, feederVars, workerVars, collectVars,
           katoVars, TypeOK, Items, Buckets, Holding, WorkerPC, NoItem, NoOutcome
<1>1. TypeOK'
  <2>1. cur \in Items /\ outcome[cur] \in Buckets
    BY DEF ControlInv
  <2>2. rep' \in [tally : [Buckets -> Nat], results : SUBSET Items]
    BY <2>1, TallyType
  <2>. QED
    BY <2>2
<1>2. ControlInv'
  BY DEF ControlInv, Started
<1>3. UndispatchedInv'
  BY DEF UndispatchedInv, WorkersInv, WorkerInv
<1>4. WorkersInv'
  BY DEF WorkersInv, WorkerInv, OwnershipInv, UndispatchedInv, ControlInv
<1>5. OwnershipInv'
  BY DEF OwnershipInv, WorkersInv, WorkerInv
<1>6. OutcomeJustified'
  BY DEF OutcomeJustified, WorkersInv, WorkerInv
<1>7. ReporterInv'
  BY DEF ReporterInv, ControlInv, WorkersInv, WorkerInv
<1>. QED
  BY <1>1, <1>2, <1>3, <1>4, <1>5, <1>6, <1>7

(* Run ends when the results are closed and the collector's hand is empty. *)
LEMMA FinishInv ==
  ASSUME IInv, Finish
  PROVE  IInv'
<1>. USE NAssumption, RetriesNat
       DEF IInv, Finish, vars, feederVars, workerVars, collectVars,
           katoVars, TypeOK, Items, Buckets, Holding, WorkerPC, NoItem, NoOutcome
<1>1. TypeOK'
  BY DEF WorkersInv, WorkerInv
<1>2. ControlInv'
  BY DEF ControlInv, Started
<1>3. UndispatchedInv'
  BY DEF UndispatchedInv, WorkersInv, WorkerInv
<1>4. WorkersInv'
  BY DEF WorkersInv, WorkerInv, OwnershipInv, UndispatchedInv, ControlInv
<1>5. OwnershipInv'
  BY DEF OwnershipInv, WorkersInv, WorkerInv
<1>6. OutcomeJustified'
  BY DEF OutcomeJustified, WorkersInv, WorkerInv
<1>7. ReporterInv'
  BY DEF ReporterInv, ControlInv, WorkersInv, WorkerInv
<1>. QED
  BY <1>1, <1>2, <1>3, <1>4, <1>5, <1>6, <1>7

(* The next item goes to a worker that holds none.                         *)
LEMMA DeliverInv ==
  ASSUME NEW w \in Worker, IInv, Deliver(w)
  PROVE  IInv'
<1>. USE NAssumption, RetriesNat
       DEF IInv, Deliver, Feeding, vars, feederVars, workerVars, collectVars,
           katoVars, TypeOK, Items, Buckets, Holding, WorkerPC, NoItem, NoOutcome
<1>0. /\ next \in Items /\ calls[next] = 0 /\ outcome[next] = NoOutcome
      /\ lastAnswer[next] = NoOutcome
  BY DEF UndispatchedInv
<1>a. /\ \A i \in Items : i # next => calls'[i] = calls[i]
      /\ lastAnswer' = lastAnswer /\ outcome' = outcome /\ next' = next + 1
      /\ ctxDone' = ctxDone /\ rep' = rep /\ cur' = cur
  BY <1>0
<1>b. pc' = [pc EXCEPT ![w] = "run"] /\ job' = [job EXCEPT ![w] = next] /\ pc[w] = "recv"
  OBVIOUS
<1>1. TypeOK'
  <2>2. calls' \in [Items -> 0 .. maxRetries + 1]
    BY <1>0
  <2>3. pc' \in [Worker -> WorkerPC]
    OBVIOUS
  <2>4. job' \in [Worker -> Items \cup {NoItem}]
    BY <1>0
  <2>5. next' \in 0 .. N
    OBVIOUS
  <2>. QED
    BY <2>2, <2>3, <2>4, <2>5
<1>2. ControlInv'
  BY DEF ControlInv, Started
<1>3. UndispatchedInv'
  <2>1. \A i \in Items : i >= next + 1 => i # next
    OBVIOUS
  <2>. QED
    BY <1>a, <2>1, UndispatchedKept
<1>4. WorkersInv'
  <2>. SUFFICES ASSUME NEW v \in Worker PROVE WorkerInv(v)'
    BY DEF WorkersInv
  <2>0. WorkerInv(v) /\ WorkerInv(w)
    BY DEF WorkersInv
  <2>1. CASE v = w
    BY <2>0, <2>1, <1>0 DEF WorkerInv
  <2>2. CASE v # w
    <3>1. /\ pc'[v] = pc[v] /\ job'[v] = job[v]
          /\ attempt'[v] = attempt[v] /\ out'[v] = out[v]
      BY <2>2
    <3>2. pc[v] \in Holding => job[v] \in Items /\ job[v] # next
      BY <2>0 DEF WorkerInv
    <3>3. next \in Int
      OBVIOUS
    <3>. HIDE DEF IInv, TypeOK, Deliver
    <3>. QED
      BY <1>a, <2>0, <3>1, <3>2, <3>3, OtherWorkerInv
  <2>. QED
    BY <2>1, <2>2
<1>5. OwnershipInv'
  <2>a. /\ OwnershipInv /\ WorkersInv /\ next \in Int
        /\ pc \in [Worker -> WorkerPC] /\ job \in [Worker -> Items \cup {NoItem}]
    <3>. HIDE DEF Deliver, Items, Holding, WorkerPC, NoItem, NoOutcome
    <3>. QED
      OBVIOUS
  <2>. HIDE DEF IInv, TypeOK, Deliver
  <2>0. \A v \in Worker : pc[v] \in Holding => job[v] # next
    BY <2>a DEF WorkersInv, WorkerInv
  <2>1. ASSUME NEW u \in Worker, NEW v \in Worker,
               pc'[u] \in Holding, pc'[v] \in Holding, job'[u] = job'[v]
        PROVE  u = v
    BY <1>b, <2>a, <2>0, <2>1 DEF OwnershipInv
  <2>2. ASSUME NEW i \in Items, i < next', outcome'[i] = NoOutcome
        PROVE  \E v \in Worker : pc'[v] \in Holding /\ job'[v] = i
    <3>1. CASE i = next
      BY <1>b, <2>a, <3>1
    <3>2. CASE i < next
      <4>1. PICK v \in Worker : pc[v] \in Holding /\ job[v] = i
        BY <1>a, <2>a, <2>2, <3>2 DEF OwnershipInv
      <4>2. v # w
        BY <1>b, <4>1
      <4>. QED
        BY <1>b, <2>a, <4>1, <4>2
    <3>. QED
      BY <1>a, <2>a, <2>2, <3>1, <3>2
  <2>. QED
    BY <2>1, <2>2 DEF OwnershipInv
<1>6. OutcomeJustified'
  <2>1. \A i \in Items : outcome[i] # NoOutcome => i # next
    BY <1>0
  <2>. QED
    BY <1>a, <2>1, JustifiedKept
<1>7. ReporterInv'
  BY <1>a, ReporterKept
<1>. QED
  BY <1>1, <1>2, <1>3, <1>4, <1>5, <1>6, <1>7

(* The feeder stops: at the last item, or early on a context that is done. *)
LEMMA CloseJobsInv ==
  ASSUME IInv, CloseJobs
  PROVE  IInv'
<1>. USE NAssumption, RetriesNat
       DEF IInv, CloseJobs, Feeding, AllFed, vars, feederVars, workerVars, collectVars,
           katoVars, TypeOK, Items, Buckets, Holding, WorkerPC, NoItem, NoOutcome
<1>1. TypeOK'
  BY DEF WorkersInv, WorkerInv
<1>2. ControlInv'
  BY DEF ControlInv, Started
<1>3. UndispatchedInv'
  BY DEF UndispatchedInv, WorkersInv, WorkerInv
<1>4. WorkersInv'
  BY DEF WorkersInv, WorkerInv, OwnershipInv, UndispatchedInv, ControlInv
<1>5. OwnershipInv'
  BY DEF OwnershipInv, WorkersInv, WorkerInv
<1>6. OutcomeJustified'
  BY DEF OutcomeJustified, WorkersInv, WorkerInv
<1>7. ReporterInv'
  BY DEF ReporterInv, ControlInv, WorkersInv, WorkerInv
<1>. QED
  BY <1>1, <1>2, <1>3, <1>4, <1>5, <1>6, <1>7

(* The results close after the last worker has left.                       *)
LEMMA CloseResultsInv ==
  ASSUME IInv, CloseResults
  PROVE  IInv'
<1>. USE NAssumption, RetriesNat
       DEF IInv, CloseResults, WorkersGone, vars, feederVars, workerVars, collectVars,
           katoVars, TypeOK, Items, Buckets, Holding, WorkerPC, NoItem, NoOutcome
<1>1. TypeOK'
  BY DEF WorkersInv, WorkerInv
<1>2. ControlInv'
  BY DEF ControlInv, Started
<1>3. UndispatchedInv'
  BY DEF UndispatchedInv, WorkersInv, WorkerInv
<1>4. WorkersInv'
  BY DEF WorkersInv, WorkerInv, OwnershipInv, UndispatchedInv, ControlInv
<1>5. OwnershipInv'
  BY DEF OwnershipInv, WorkersInv, WorkerInv
<1>6. OutcomeJustified'
  BY DEF OutcomeJustified, WorkersInv, WorkerInv
<1>7. ReporterInv'
  BY DEF ReporterInv, ControlInv, WorkersInv, WorkerInv
<1>. QED
  BY <1>1, <1>2, <1>3, <1>4, <1>5, <1>6, <1>7

(* A worker leaves with nothing in hand.                                   *)
LEMMA WorkerExitInv ==
  ASSUME NEW w \in Worker, IInv, WorkerExit(w)
  PROVE  IInv'
<1>. USE NAssumption, RetriesNat
       DEF IInv, WorkerExit, vars, feederVars, workerVars, collectVars,
           katoVars, TypeOK, Items, Buckets, Holding, WorkerPC, NoItem, NoOutcome
<1>1. TypeOK'
  BY DEF WorkersInv, WorkerInv
<1>2. ControlInv'
  BY DEF ControlInv, Started
<1>3. UndispatchedInv'
  BY UndispatchedKept
<1>4. WorkersInv'
  <2>. SUFFICES ASSUME NEW v \in Worker PROVE WorkerInv(v)'
    BY DEF WorkersInv
  <2>1. WorkerInv(v) /\ next \in Int
    BY DEF WorkersInv
  <2>2. CASE v = w
    <3>1. /\ pc[v] = "recv" /\ pc'[v] = "exit"
          /\ job' = job /\ attempt' = attempt /\ out' = out
      BY <2>2
    <3>. HIDE DEF IInv, TypeOK, WorkerExit
    <3>. QED
      BY <2>1, <3>1 DEF WorkerInv
  <2>3. CASE v # w
    <3>1. /\ pc'[v] = pc[v] /\ job' = job /\ attempt' = attempt /\ out' = out
          /\ calls' = calls /\ lastAnswer' = lastAnswer /\ outcome' = outcome
          /\ next' = next /\ ctxDone' = ctxDone
      BY <2>3
    <3>. HIDE DEF IInv, TypeOK, WorkerExit
    <3>. QED
      BY <2>1, <3>1, OtherWorkerInv
  <2>. QED
    BY <2>2, <2>3
<1>5. OwnershipInv'
  <2>1. \A v \in Worker : pc'[v] \in Holding <=> pc[v] \in Holding
    OBVIOUS
  <2>. QED
    BY <2>1, OwnershipKept DEF OwnershipInv
<1>6. OutcomeJustified'
  BY JustifiedKept
<1>7. ReporterInv'
  BY ReporterKept
<1>. QED
  BY <1>1, <1>2, <1>3, <1>4, <1>5, <1>6, <1>7

(* An answer settles the item, or sends the worker to wait for a retry.    *)
LEMMA KatoReturnsInv ==
  ASSUME NEW w \in Worker, NEW a \in Answers, IInv, KatoReturns(w, a)
  PROVE  IInv'
<1>. USE NAssumption, RetriesNat
       DEF IInv, KatoReturns, Bucket, retriable, AttemptLeft, Answers, vars, feederVars, workerVars, collectVars,
           katoVars, TypeOK, Items, Buckets, Holding, WorkerPC, NoItem, NoOutcome
<1>0. job[w] \in Items /\ job[w] < next /\ outcome[job[w]] = NoOutcome
  BY DEF WorkersInv, WorkerInv
<1>a. /\ \A i \in Items : i # job[w] => lastAnswer'[i] = lastAnswer[i]
      /\ calls' = calls /\ outcome' = outcome /\ next' = next /\ ctxDone' = ctxDone
      /\ rep' = rep /\ cur' = cur
  BY <1>0
<1>b. \E p \in {"backoff", "send"} : pc' = [pc EXCEPT ![w] = p]
  OBVIOUS
<1>1. TypeOK'
  <2>1. job[w] \in Items
    BY DEF WorkersInv, WorkerInv
  <2>2. attempt' \in [Worker -> 0 .. maxRetries]
    <3>1. CASE attempt' = attempt
      BY <3>1
    <3>2. CASE attempt[w] < maxRetries /\ attempt' = [attempt EXCEPT ![w] = @ + 1]
      BY <3>2
    <3>. QED
      BY <3>1, <3>2
  <2>3. out' \in [Worker -> Buckets \cup {NoOutcome}]
    OBVIOUS
  <2>4. pc' \in [Worker -> WorkerPC]
    BY <1>b
  <2>5. lastAnswer' \in [Items -> Answers \cup {NoOutcome}]
    BY <2>1
  <2>. QED
    BY <2>2, <2>3, <2>4, <2>5
<1>2. ControlInv'
  <2>1. /\ ControlInv /\ pc \in [Worker -> WorkerPC] /\ pc[w] = "run"
        /\ caller' = caller /\ cur' = cur /\ outcome' = outcome /\ next' = next
        /\ jobsClosed' = jobsClosed /\ resultsClosed' = resultsClosed
        /\ ctxDone' = ctxDone
    OBVIOUS
  <2>. HIDE DEF IInv, TypeOK, KatoReturns
  <2>. QED
    BY <1>b, <2>1 DEF ControlInv, Started
<1>3. UndispatchedInv'
  <2>1. \A i \in Items : i >= next => i # job[w]
    BY <1>0
  <2>. QED
    BY <1>a, <2>1, UndispatchedKept
<1>4. WorkersInv'
  <2>. SUFFICES ASSUME NEW v \in Worker PROVE WorkerInv(v)'
    BY DEF WorkersInv
  <2>0. WorkerInv(v) /\ WorkerInv(w)
    BY DEF WorkersInv
  <2>1. CASE v = w
    <3>0. /\ job[w] \in Items /\ job[w] < next /\ outcome[job[w]] = NoOutcome
          /\ calls[job[w]] = attempt[w] + 1 /\ lastAnswer'[job[w]] = a
      BY <2>0 DEF WorkerInv
    <3>1. CASE retriable(a) /\ AttemptLeft(w)
      BY <2>1, <3>0, <3>1 DEF WorkerInv
    <3>2. CASE ~(retriable(a) /\ AttemptLeft(w))
      <4>1. a = "retriable" => attempt[w] = maxRetries
        BY <3>2
      <4>2. /\ pc'[w] = "send" /\ out'[w] = Bucket(a) /\ job'[w] = job[w]
            /\ a # NoOutcome
        BY <3>2
      <4>. HIDE DEF IInv, TypeOK, KatoReturns, retriable, AttemptLeft, Answers
      <4>. QED
        BY <1>a, <2>1, <3>0, <4>1, <4>2 DEF WorkerInv
    <3>. QED
      BY <3>1, <3>2
  <2>2. CASE v # w
    <3>1. pc[v] \in Holding /\ pc[w] \in Holding => job[v] # job[w]
      BY <2>2 DEF OwnershipInv
    <3>2. /\ pc'[v] = pc[v] /\ attempt'[v] = attempt[v] /\ out'[v] = out[v]
          /\ job'[v] = job[v]
      BY <2>2
    <3>4. next \in Int
      OBVIOUS
    <3>6. pc[w] \in Holding /\ (pc[v] \in Holding => job[v] \in Items)
      BY <2>0 DEF WorkerInv
    <3>. HIDE DEF IInv, TypeOK, KatoReturns
    <3>. QED
      BY <1>a, <2>0, <3>2, <3>1, <3>4, <3>6, OtherWorkerInv
  <2>. QED
    BY <2>1, <2>2
<1>5. OwnershipInv'
  <2>1. \A v \in Worker : pc'[v] \in Holding <=> pc[v] \in Holding
    OBVIOUS
  <2>. QED
    BY <2>1, OwnershipKept DEF OwnershipInv
<1>6. OutcomeJustified'
  <2>1. \A i \in Items : outcome[i] # NoOutcome => i # job[w]
    BY <1>0
  <2>. QED
    BY <1>a, <2>1, JustifiedKept
<1>7. ReporterInv'
  BY <1>a, ReporterKept
<1>. QED
  BY <1>1, <1>2, <1>3, <1>4, <1>5, <1>6, <1>7

(* One more call for an item kato has not settled.                         *)
LEMMA BackoffElapsedInv ==
  ASSUME NEW w \in Worker, IInv, BackoffElapsed(w)
  PROVE  IInv'
<1>. USE NAssumption, RetriesNat
       DEF IInv, BackoffElapsed, vars, feederVars, workerVars, collectVars,
           katoVars, TypeOK, Items, Buckets, Holding, WorkerPC, NoItem, NoOutcome
<1>0. job[w] \in Items /\ job[w] < next /\ outcome[job[w]] = NoOutcome
  BY DEF WorkersInv, WorkerInv
<1>a. /\ \A i \in Items : i # job[w] => calls'[i] = calls[i]
      /\ lastAnswer' = lastAnswer /\ outcome' = outcome /\ next' = next /\ ctxDone' = ctxDone
      /\ rep' = rep /\ cur' = cur
  BY <1>0
<1>1. TypeOK'
  <2>1. job[w] \in Items /\ calls[job[w]] = attempt[w]
    BY DEF WorkersInv, WorkerInv
  <2>a. attempt[w] \in 0 .. maxRetries
    OBVIOUS
  <2>2. calls[job[w]] + 1 \in 0 .. maxRetries + 1
    <3>. HIDE DEF IInv, TypeOK, BackoffElapsed
    <3>. QED
      BY <2>1, <2>a
  <2>3. calls' \in [Items -> 0 .. maxRetries + 1]
    BY <2>1, <2>2
  <2>4. pc' \in [Worker -> WorkerPC]
    OBVIOUS
  <2>. QED
    BY <2>3, <2>4
<1>2. ControlInv'
  BY DEF ControlInv, Started
<1>3. UndispatchedInv'
  <2>1. \A i \in Items : i >= next => i # job[w]
    BY <1>0
  <2>. QED
    BY <1>a, <2>1, UndispatchedKept
<1>4. WorkersInv'
  <2>. SUFFICES ASSUME NEW v \in Worker PROVE WorkerInv(v)'
    BY DEF WorkersInv
  <2>0. WorkerInv(v) /\ WorkerInv(w)
    BY DEF WorkersInv
  <2>1. CASE v = w
    BY <2>0, <2>1 DEF WorkerInv, ControlInv, UndispatchedInv
  <2>2. CASE v # w
    <3>1. pc[v] \in Holding /\ pc[w] \in Holding => job[v] # job[w]
      BY <2>2 DEF OwnershipInv
    <3>2. /\ pc'[v] = pc[v] /\ job'[v] = job[v]
          /\ attempt'[v] = attempt[v] /\ out'[v] = out[v]
      BY <2>2
    <3>4. next \in Int
      OBVIOUS
    <3>6. pc[w] \in Holding /\ (pc[v] \in Holding => job[v] \in Items)
      BY <2>0 DEF WorkerInv
    <3>. HIDE DEF IInv, TypeOK, BackoffElapsed
    <3>. QED
      BY <1>a, <2>0, <3>2, <3>1, <3>4, <3>6, OtherWorkerInv
  <2>. QED
    BY <2>1, <2>2
<1>5. OwnershipInv'
  <2>1. \A v \in Worker : pc'[v] \in Holding <=> pc[v] \in Holding
    OBVIOUS
  <2>. QED
    BY <2>1, OwnershipKept DEF OwnershipInv
<1>6. OutcomeJustified'
  <2>1. \A i \in Items : outcome[i] # NoOutcome => i # job[w]
    BY <1>0
  <2>. QED
    BY <1>a, <2>1, JustifiedKept
<1>7. ReporterInv'
  BY <1>a, ReporterKept
<1>. QED
  BY <1>1, <1>2, <1>3, <1>4, <1>5, <1>6, <1>7

(* A wait cut short by the context makes the item's outcome an error.      *)
LEMMA BackoffCancelledInv ==
  ASSUME NEW w \in Worker, IInv, BackoffCancelled(w)
  PROVE  IInv'
<1>. USE NAssumption, RetriesNat
       DEF IInv, BackoffCancelled, vars, feederVars, workerVars, collectVars,
           katoVars, TypeOK, Items, Buckets, Holding, WorkerPC, NoItem, NoOutcome
<1>1. TypeOK'
  BY DEF WorkersInv, WorkerInv
<1>2. ControlInv'
  BY DEF ControlInv, Started
<1>3. UndispatchedInv'
  BY DEF UndispatchedInv, WorkersInv, WorkerInv
<1>4. WorkersInv'
  <2>. SUFFICES ASSUME NEW v \in Worker PROVE WorkerInv(v)'
    BY DEF WorkersInv
  <2>0. WorkerInv(v) /\ WorkerInv(w)
    BY DEF WorkersInv
  <2>1. CASE v = w
    BY <2>0, <2>1 DEF WorkerInv, Bucket
  <2>2. CASE v # w
    <3>1. pc[v] \in Holding /\ pc[w] \in Holding => job[v] # job[w]
      BY <2>2 DEF OwnershipInv
    <3>2. /\ pc'[v] = pc[v] /\ job'[v] = job[v]
          /\ attempt'[v] = attempt[v] /\ out'[v] = out[v]
      BY <2>2
    <3>3. pc[v] \in Holding => /\ calls'[job[v]] = calls[job[v]]
                               /\ outcome'[job[v]] = outcome[job[v]]
      BY <2>0, <3>1 DEF WorkerInv
    <3>. QED
      BY <2>0, <3>2, <3>3, OtherWorkerInv
  <2>. QED
    BY <2>1, <2>2
<1>5. OwnershipInv'
  <2>1. \A v \in Worker : pc'[v] \in Holding <=> pc[v] \in Holding
    OBVIOUS
  <2>. QED
    BY <2>1, OwnershipKept DEF OwnershipInv
<1>6. OutcomeJustified'
  BY DEF OutcomeJustified, WorkersInv, WorkerInv
<1>7. ReporterInv'
  BY DEF ReporterInv, ControlInv, WorkersInv, WorkerInv
<1>. QED
  BY <1>1, <1>2, <1>3, <1>4, <1>5, <1>6, <1>7

(* The context is done; no one has moved yet.                              *)
LEMMA CtxCancelInv ==
  ASSUME IInv, CtxCancel
  PROVE  IInv'
<1>. USE NAssumption, RetriesNat
       DEF IInv, CtxCancel, vars, feederVars, workerVars, collectVars,
           katoVars, TypeOK, Items, Buckets, Holding, WorkerPC, NoItem, NoOutcome
<1>1. TypeOK'
  BY DEF WorkersInv, WorkerInv
<1>2. ControlInv'
  BY DEF ControlInv, Started
<1>3. UndispatchedInv'
  BY DEF UndispatchedInv, WorkersInv, WorkerInv
<1>4. WorkersInv'
  BY DEF WorkersInv, WorkerInv, OwnershipInv, UndispatchedInv, ControlInv
<1>5. OwnershipInv'
  BY DEF OwnershipInv, WorkersInv, WorkerInv
<1>6. OutcomeJustified'
  BY DEF OutcomeJustified, WorkersInv, WorkerInv
<1>7. ReporterInv'
  BY DEF ReporterInv, ControlInv, WorkersInv, WorkerInv
<1>. QED
  BY <1>1, <1>2, <1>3, <1>4, <1>5, <1>6, <1>7

-----------------------------------------------------------------------------
(* The invariant holds, and what follows from it. *)

(* Every step keeps the invariant.                                         *)
LEMMA NextInv == IInv /\ [Next]_vars => IInv'
<1>. SUFFICES ASSUME IInv, [Next]_vars PROVE IInv'
  OBVIOUS
<1>1. CASE UNCHANGED vars
  BY <1>1 DEF IInv, vars, feederVars, workerVars, collectVars, katoVars, TypeOK,
     ControlInv, Started, UndispatchedInv, WorkersInv, WorkerInv, OwnershipInv,
     OutcomeJustified, ReporterInv
<1>2. CASE CallerStep
  BY <1>2, StartRefusedInv, StartRunInv, ServiceDoneInv, FinishInv DEF CallerStep
<1>3. CASE CloseJobs
  BY <1>3, CloseJobsInv
<1>4. CASE CloseResults
  BY <1>4, CloseResultsInv
<1>5. ASSUME NEW w \in Worker, WorkerStep(w)
      PROVE  IInv'
  BY <1>5, CollectInv, DeliverInv, WorkerExitInv, KatoReturnsInv,
     BackoffElapsedInv, BackoffCancelledInv DEF WorkerStep
<1>6. CASE CtxCancel
  BY <1>6, CtxCancelInv
<1>. QED
  BY <1>1, <1>2, <1>3, <1>4, <1>5, <1>6 DEF Next

(* The inductive invariant holds of every reachable state of Run. *)
THEOREM Inductive == Spec => []IInv
<1>. QED
  BY InitInv, NextInv, PTL DEF Spec

(* Every variable of Run keeps its type; in particular no item is ever     *)
(* called more than maxRetries + 1 times.                                  *)
THEOREM TypeCorrect == Spec => []TypeOK
<1>1. IInv => TypeOK
  BY DEF IInv
<1>. QED
  BY <1>1, Inductive, PTL

(* No item is lost between goroutines and none is held by two workers.     *)
THEOREM ItemsAreConserved == Spec => []ItemsConserved
<1>1. IInv => ItemsConserved
  <2>. SUFFICES ASSUME IInv, NEW i \in Items
                PROVE  IF i >= next
                       THEN InHand(i) = {} /\ outcome[i] = NoOutcome
                       ELSE IF outcome[i] = NoOutcome
                            THEN \E w \in Worker : InHand(i) = {w}
                            ELSE InHand(i) = {}
    BY DEF ItemsConserved
  <2>. USE NAssumption DEF IInv, TypeOK, Items
  <2>1. CASE i >= next
    <3>1. \A w \in Worker : ~(pc[w] \in Holding /\ job[w] = i)
      BY <2>1 DEF WorkersInv, WorkerInv
    <3>. QED
      BY <2>1, <3>1 DEF InHand, UndispatchedInv
  <2>2. CASE i < next /\ outcome[i] = NoOutcome
    <3>1. PICK w \in Worker : pc[w] \in Holding /\ job[w] = i
      BY <2>2 DEF OwnershipInv
    <3>2. InHand(i) = {w}
      BY <3>1 DEF InHand, OwnershipInv
    <3>. QED
      BY <2>2, <3>2
  <2>3. CASE i < next /\ outcome[i] # NoOutcome
    <3>1. \A w \in Worker : ~(pc[w] \in Holding /\ job[w] = i)
      BY <2>3 DEF WorkersInv, WorkerInv
    <3>. QED
      BY <2>3, <3>1 DEF InHand
  <2>. QED
    BY <2>1, <2>2, <2>3
<1>. QED
  BY <1>1, Inductive, PTL

(* When Run is back, every worker has left and jobs is closed; a refused   *)
(* run never called kato.                                                  *)
THEOREM NothingOutlivesRun == Spec => []NoGoroutineLeft
<1>1. IInv => NoGoroutineLeft
  <2>. SUFFICES ASSUME IInv PROVE NoGoroutineLeft
    OBVIOUS
  <2>1. caller = "returned" => jobsClosed /\ \A w \in Worker : pc[w] = "exit"
    BY SomeWorker DEF IInv, ControlInv
  <2>2. caller = "refused" => \A i \in Items : calls[i] = 0
    BY NAssumption DEF IInv, ControlInv, Started, UndispatchedInv, Items
  <2>. QED
    BY <2>1, <2>2 DEF NoGoroutineLeft
<1>. QED
  BY <1>1, Inductive, PTL

(* A run that ends without having been cancelled has reported every item.  *)
LEMMA ReturnedIsComplete ==
  ASSUME IInv, resultsClosed, ~ctxDone
  PROVE  \A i \in Items : outcome[i] # NoOutcome
<1>1. jobsClosed /\ next = N /\ \A w \in Worker : pc[w] = "exit"
  BY SomeWorker DEF IInv, ControlInv
<1>. QED
  BY <1>1, NAssumption DEF IInv, OwnershipInv, Items, Holding

(* Run is back and the context was not done: every item has an outcome and *)
(* is in the results.                                                      *)
THEOREM CompleteWithoutCancel == Spec => []CompleteUnlessCancelled
<1>1. IInv => CompleteUnlessCancelled
  <2>. SUFFICES ASSUME IInv, caller = "returned", ~ctxDone
                PROVE  rep.results = Items /\ \A i \in Items : outcome[i] # NoOutcome
    BY DEF CompleteUnlessCancelled
  <2>1. resultsClosed /\ cur = NoItem
    BY DEF IInv, ControlInv
  <2>2. \A i \in Items : outcome[i] # NoOutcome
    BY <2>1, ReturnedIsComplete
  <2>3. \A i \in Items : i # cur
    BY <2>1, NAssumption DEF Items, NoItem
  <2>. QED
    BY <2>2, <2>3 DEF IInv, ReporterInv
<1>. QED
  BY <1>1, Inductive, PTL

(* What is reported for an item is what kato last said of it.              *)
THEOREM OutcomesAreJustified == Spec => []OutcomeJustified
<1>1. IInv => OutcomeJustified
  BY DEF IInv
<1>. QED
  BY <1>1, Inductive, PTL

-----------------------------------------------------------------------------
(* Kato is never called again for an item it has settled. *)

(* A call is an item's first, or a retry after an answer that allows one.  *)
LEMMA CallsJustified ==
  ASSUME IInv, [Next]_vars, NEW i \in Items, calls'[i] # calls[i]
  PROVE  lastAnswer[i] \in {NoOutcome, "retriable"} /\ calls[i] <= maxRetries
<1>. USE NAssumption, RetriesNat DEF IInv, TypeOK
<1>1. ASSUME NEW w \in Worker, Deliver(w)
      PROVE  lastAnswer[i] = NoOutcome /\ calls[i] <= maxRetries
  <2>1. i = next
    BY <1>1 DEF Deliver
  <2>. QED
    BY <2>1 DEF UndispatchedInv, Items
<1>2. ASSUME NEW w \in Worker, BackoffElapsed(w)
      PROVE  lastAnswer[i] = "retriable" /\ calls[i] <= maxRetries
  <2>1. i = job[w] /\ pc[w] = "backoff"
    BY <1>2 DEF BackoffElapsed
  <2>. QED
    BY <2>1 DEF WorkersInv, WorkerInv
<1>3. \E w \in Worker : Deliver(w) \/ BackoffElapsed(w)
  BY DEF Next, vars, CallerStep, WorkerStep, StartRefused, StartRun, ServiceDone,
     Finish, CloseJobs, CloseResults, Collect, WorkerExit, KatoReturns,
     BackoffCancelled, CtxCancel, feederVars, workerVars, collectVars, katoVars
<1>. QED
  BY <1>1, <1>2, <1>3

(* The worker calls kato again only after a retriable answer, and at most  *)
(* maxRetries times more (runWithRetry).                                   *)
THEOREM NoRerun == Spec => NoCallAfterFinalAnswer
<1>1. IInv /\ [Next]_vars =>
        [\A i \in Items : calls'[i] # calls[i] =>
           lastAnswer[i] \in {NoOutcome, "retriable"} /\ calls[i] <= maxRetries]_vars
  BY CallsJustified
<1>. QED
  BY <1>1, Inductive, PTL DEF Spec, NoCallAfterFinalAnswer

-----------------------------------------------------------------------------
(* The tallies. *)

ItemsIn(b) == {i \in Items : outcome[i] = b}
Reported(b) == {i \in Items : outcome[i] = b /\ i # cur}

(* Sets of items can be counted.                                           *)
LEMMA ItemSetsFinite ==
  ASSUME NEW S \in SUBSET Items
  PROVE  IsFiniteSet(S)
<1>1. IsFiniteSet(Items)
  BY FS_Interval, NAssumption DEF Items
<1>. QED
  BY <1>1, FS_Subset

(* An outcome taken in hand is counted by the collector, not yet by the    *)
(* reporter.                                                               *)
LEMMA CollectTallies ==
  ASSUME IInv, TalliesAgree, NEW w \in Worker, Collect(w), NEW b \in Buckets
  PROVE  /\ summ'[b] = Cardinality(ItemsIn(b)')
         /\ rep'.tally[b] = Cardinality(Reported(b)')
<1>1. /\ job[w] \in Items /\ outcome[job[w]] = NoOutcome /\ cur = NoItem
      /\ out[w] \in Buckets
  BY DEF IInv, TypeOK, WorkersInv, WorkerInv, Collect, Holding, ControlInv,
     Bucket, Answers, Buckets
<1>2. /\ summ'[b] = IF b = out[w] THEN summ[b] + 1 ELSE summ[b]
      /\ rep' = rep
  BY <1>1 DEF Collect, Tally, IInv, TypeOK
<1>3. /\ summ[b] = Cardinality(ItemsIn(b))
      /\ rep.tally[b] = Cardinality(Reported(b))
  BY DEF TalliesAgree, ItemsIn, Reported
<1>a. /\ outcome' = [outcome EXCEPT ![job[w]] = out[w]] /\ cur' = job[w]
      /\ outcome \in [Items -> Buckets \cup {NoOutcome}]
  BY DEF Collect, IInv, TypeOK
<1>4. ItemsIn(b)' = IF b = out[w] THEN ItemsIn(b) \cup {job[w]} ELSE ItemsIn(b)
  BY <1>1, <1>a DEF ItemsIn, Buckets, NoOutcome
<1>5. Reported(b)' = Reported(b)
  <2>1. \A i \in Items : i # cur
    BY <1>1, NAssumption DEF Items, NoItem
  <2>2. \A i \in Items :
          (outcome'[i] = b /\ i # cur') <=> (outcome[i] = b /\ i # cur)
    BY <1>1, <1>a, <2>1 DEF Buckets, NoOutcome
  <2>. QED
    BY <2>2 DEF Reported
<1>6. job[w] \notin ItemsIn(b)
  BY <1>1 DEF ItemsIn, Buckets, NoOutcome
<1>7. IsFiniteSet(ItemsIn(b))
  BY ItemSetsFinite DEF ItemsIn
<1>8. Cardinality(ItemsIn(b) \cup {job[w]}) = Cardinality(ItemsIn(b)) + 1
  BY <1>6, <1>7, FS_AddElement
<1>. QED
  BY <1>2, <1>3, <1>4, <1>5, <1>8

(* The reporter counts the outcome in hand, once.                          *)
LEMMA ServiceDoneTallies ==
  ASSUME IInv, TalliesAgree, ServiceDone, NEW b \in Buckets
  PROVE  /\ summ'[b] = Cardinality(ItemsIn(b)')
         /\ rep'.tally[b] = Cardinality(Reported(b)')
<1>1. cur \in Items /\ outcome[cur] \in Buckets
  BY DEF IInv, TypeOK, ControlInv, ServiceDone
<1>2. /\ rep'.tally[b] = IF b = outcome[cur] THEN rep.tally[b] + 1 ELSE rep.tally[b]
      /\ summ' = summ
  BY <1>1 DEF ServiceDone, Tally, IInv, TypeOK
<1>3. /\ summ[b] = Cardinality(ItemsIn(b))
      /\ rep.tally[b] = Cardinality(Reported(b))
  BY DEF TalliesAgree, ItemsIn, Reported
<1>4. ItemsIn(b)' = ItemsIn(b)
  BY DEF ServiceDone, ItemsIn
<1>5. Reported(b)' = IF b = outcome[cur] THEN Reported(b) \cup {cur} ELSE Reported(b)
  BY <1>1, NAssumption DEF ServiceDone, Reported, NoItem, Items
<1>6. cur \notin Reported(b)
  BY DEF Reported
<1>7. IsFiniteSet(Reported(b))
  BY ItemSetsFinite DEF Reported
<1>8. Cardinality(Reported(b) \cup {cur}) = Cardinality(Reported(b)) + 1
  BY <1>6, <1>7, FS_AddElement
<1>. QED
  BY <1>2, <1>3, <1>4, <1>5, <1>8

(* The collector's tallies, which replace the reporter's, are the same.    *)
LEMMA FinishTallies ==
  ASSUME IInv, TalliesAgree, Finish, NEW b \in Buckets
  PROVE  /\ summ'[b] = Cardinality(ItemsIn(b)')
         /\ rep'.tally[b] = Cardinality(Reported(b)')
<1>1. cur = NoItem
  BY DEF IInv, ControlInv, Finish
<1>2. rep'.tally = summ /\ UNCHANGED <<summ, cur, outcome>>
  BY DEF Finish, IInv, TypeOK
<1>3. Reported(b)' = ItemsIn(b) /\ ItemsIn(b)' = ItemsIn(b)
  BY <1>1, <1>2, NAssumption DEF Reported, ItemsIn, NoItem, Items
<1>. QED
  BY <1>2, <1>3 DEF TalliesAgree, ItemsIn

(* Every step keeps both tallies equal to the numbers of outcomes.         *)
LEMMA NextTallies == IInv /\ TalliesAgree /\ [Next]_vars => TalliesAgree'
<1>. SUFFICES ASSUME IInv, TalliesAgree, [Next]_vars, NEW b \in Buckets
              PROVE  /\ summ'[b] = Cardinality(ItemsIn(b)')
                     /\ rep'.tally[b] = Cardinality(Reported(b)')
  BY DEF TalliesAgree, ItemsIn, Reported
<1>1. CASE UNCHANGED <<summ, rep, outcome, cur>>
  BY <1>1 DEF TalliesAgree, ItemsIn, Reported
<1>2. CASE ServiceDone
  BY <1>2, ServiceDoneTallies
<1>3. CASE Finish
  BY <1>3, FinishTallies
<1>4. ASSUME NEW w \in Worker, Collect(w)
      PROVE  /\ summ'[b] = Cardinality(ItemsIn(b)')
             /\ rep'.tally[b] = Cardinality(Reported(b)')
  BY <1>4, CollectTallies
<1>5. \/ UNCHANGED <<summ, rep, outcome, cur>>
      \/ ServiceDone
      \/ Finish
      \/ \E w \in Worker : Collect(w)
  BY DEF Next, vars, CallerStep, WorkerStep, StartRefused, StartRun, Deliver,
     BackoffElapsed, CloseJobs, CloseResults, WorkerExit, KatoReturns,
     BackoffCancelled, CtxCancel, feederVars, workerVars, collectVars, katoVars
<1>. QED
  BY <1>1, <1>2, <1>3, <1>4, <1>5

(* The runner's tallies and the CollectingReporter's own are both the      *)
(* number of items received in each bucket.                                *)
THEOREM TalliesAreExact == Spec => []TalliesAgree
<1>1. Init => TalliesAgree
  <2>. SUFFICES ASSUME Init, NEW b \in Buckets
                PROVE  /\ summ[b] = Cardinality(ItemsIn(b))
                       /\ rep.tally[b] = Cardinality(Reported(b))
    BY DEF TalliesAgree, ItemsIn, Reported
  <2>1. ItemsIn(b) = {} /\ Reported(b) = {}
    BY DEF Init, ItemsIn, Reported, Buckets, NoOutcome
  <2>2. summ[b] = 0 /\ rep.tally[b] = 0
    BY DEF Init, ZeroTallies
  <2>. QED
    BY <2>1, <2>2, FS_EmptySet
<1>. QED
  BY <1>1, NextTallies, Inductive, PTL DEF Spec

-----------------------------------------------------------------------------
(* Run implements GroupRun. *)

(* The first state of Run is one of the abstract group run.                *)
LEMMA InitRefines == Init => Abs!AbsInit
BY DEF Init, Abs!AbsInit, absPhase, Items, Abs!Items, NoOutcome, Abs!NoOutcome

(* Every step of Run is a step of the abstract group run, or none.         *)
LEMMA NextRefines == IInv /\ [Next]_vars => [Abs!AbsNext]_(Abs!absVars)
<1>. SUFFICES ASSUME IInv, [Next]_vars PROVE [Abs!AbsNext]_(Abs!absVars)
  OBVIOUS
<1>. USE DEF Abs!absVars, Abs!AbsNext, absPhase
<1>1. CASE StartRefused
  BY <1>1 DEF StartRefused, Abs!Refuse
<1>2. CASE StartRun
  BY <1>2 DEF StartRun, Abs!Begin
<1>3. ASSUME NEW w \in Worker, Collect(w)
      PROVE  Abs!AbsNext
  <2>1. /\ job[w] \in Abs!Items /\ outcome[job[w]] = Abs!NoOutcome
        /\ out[w] \in Abs!Buckets
    BY <1>3 DEF IInv, TypeOK, WorkersInv, WorkerInv, Collect, Holding, Bucket,
       Answers, Abs!Items, Items, Abs!Buckets, Abs!NoOutcome, NoOutcome
  <2>2. Abs!Report(job[w], out[w])
    BY <1>3, <2>1 DEF Collect, Abs!Report
  <2>. QED
    BY <2>1, <2>2
<1>4. CASE ServiceDone
  BY <1>4 DEF ServiceDone
<1>5. CASE Finish
  <2>1. ctxDone \/ \A i \in Abs!Items : outcome[i] # Abs!NoOutcome
    BY <1>5, ReturnedIsComplete DEF Finish, Abs!Items, Items, Abs!NoOutcome, NoOutcome
  <2>. QED
    BY <1>5, <2>1 DEF Finish, Abs!End
<1>6. CASE CtxCancel
  BY <1>6 DEF CtxCancel, Abs!Cancel, collectVars
<1>7. CASE UNCHANGED <<caller, outcome, ctxDone>>
  BY <1>7
<1>8. \/ StartRefused \/ StartRun \/ ServiceDone \/ Finish \/ CtxCancel
      \/ \E w \in Worker : Collect(w)
      \/ UNCHANGED <<caller, outcome, ctxDone>>
  BY DEF Next, vars, CallerStep, WorkerStep, Deliver, BackoffElapsed, CloseJobs,
     CloseResults, WorkerExit, KatoReturns, BackoffCancelled, collectVars
<1>. QED
  BY <1>1, <1>2, <1>3, <1>4, <1>5, <1>6, <1>7, <1>8

(* Every behaviour of the pool is, seen from outside, a behaviour of       *)
(* GroupRun.                                                               *)
THEOREM Refinement == Spec => RefinesGroupRun
<1>. QED
  BY InitRefines, NextRefines, Inductive, PTL DEF Spec, RefinesGroupRun, Abs!AbsSpec
=============================================================================
