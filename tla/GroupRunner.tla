---------------------------- MODULE GroupRunner ----------------------------
(***************************************************************************)
(* GroupRunner.Run (internal/core/group.go): one group's work items fanned *)
(* out to kato by a bounded pool of worker goroutines, with retries, a     *)
(* context that may be cancelled at any time, and one collecting goroutine *)
(* that drives the GroupReporter serially.                                 *)
(*                                                                         *)
(* Five kinds of goroutine share two unbuffered channels:                  *)
(*                                                                         *)
(*   feeder --jobs--> worker (x conc) --results--> caller of Run           *)
(*   closer: waits for every worker, then closes results                   *)
(*   kato and the context: the environment                                 *)
(*                                                                         *)
(* A send and the receive that meets it on an unbuffered channel are one   *)
(* step of two goroutines (Deliver, Collect).                              *)
(***************************************************************************)
EXTENDS Integers, FiniteSets

CONSTANTS
  N,             \* len(g.WorkItems())
  Worker,        \* the worker goroutines Run starts
  Concurrency,   \* g.Concurrency, as configured
  MaxRetries     \* gr.MaxRetries, as configured

(* group.go: the fallbacks for values that make no sense. *)
defaultGroupConcurrency == 5
defaultMaxGroupRetries == 3

conc == IF Concurrency < 1 THEN defaultGroupConcurrency ELSE Concurrency

maxRetries == IF MaxRetries < 0 THEN defaultMaxGroupRetries ELSE MaxRetries

ASSUME NAssumption == N \in Nat
ASSUME ConfigAssumption == Concurrency \in Int /\ MaxRetries \in Int
ASSUME WorkerAssumption == IsFiniteSet(Worker) /\ Cardinality(Worker) = conc

Items == 0 .. N - 1
Buckets == {"healthy", "unhealthy", "unknown", "errored"}
NoOutcome == "none"

(* What kc.Run can come back with.  The first three are a result with      *)
(* Healthy true, false and nil; "retriable" is a 429, a 5xx or a transport *)
(* error (a done context included), "fatal" any other HTTP status.         *)
Answers == {"healthy", "unhealthy", "unknown", "retriable", "fatal"}

NoItem == N      \* a worker, or the collector, that holds no item

VARIABLES
  caller,        \* Run's own goroutine: start, collect, report, returned, refused
  err,           \* Run's returned error is non-nil
  ctxDone,       \* ctx.Done() is closed
  next,          \* feeder: index of the item it offers next
  jobsClosed,    \* feeder has closed jobs and ended
  resultsClosed, \* closer has closed results and ended
  pc,            \* worker: idle, recv, run, backoff, send, exit
  job,           \* worker: item it holds
  attempt,       \* worker: runOne's loop counter
  out,           \* worker: bucket of the result it is sending
  summ,          \* collector: summ's tallies by bucket
  cur,           \* collector: item of the result in hand
  outcome,       \* collector: bucket received for each item
  rep,           \* CollectingReporter: Summary's tallies and the items in Results
  calls,         \* kato: calls made for each item
  lastAnswer     \* kato: its latest answer for each item

feederVars == <<next, jobsClosed>>
workerVars == <<pc, job, attempt, out>>
collectVars == <<caller, err, summ, cur, outcome, rep>>
katoVars == <<calls, lastAnswer>>
vars == <<feederVars, workerVars, collectVars, katoVars, ctxDone, resultsClosed>>

-----------------------------------------------------------------------------
(* Pure parts *)

(* Mutant: every error is retried. *)
retriableAny(a) == a \in {"retriable", "fatal"}

(* retriable(err). *)
retriable(a) == a = "retriable"

(* ServiceResult.Bucket() of the result built from kato's last answer. *)
Bucket(a) == IF a \in {"retriable", "fatal"} THEN "errored" ELSE a

ZeroTallies == [b \in Buckets |-> 0]

(* One more result in bucket b. *)
Tally(t, b) == [t EXCEPT ![b] = @ + 1]

(* Mutants of runOne's loop bound, by one in either direction. *)
AttemptLeftShort(w) == attempt[w] + 1 < maxRetries
AttemptLeftLong(w) == attempt[w] <= maxRetries

(* for attempt := 0; attempt <= maxRetries: another attempt may follow. *)
AttemptLeft(w) == attempt[w] < maxRetries

(* Mutants of the feeder's loop: it stops before the last item, or forgets *)
(* to close jobs when it runs out of items.                                *)
AllFedEarly == next >= N - 1
AllFedNever == FALSE

(* The feeder's range over the work items is over. *)
AllFed == next = N

(* Mutant: the closer waits for one worker only. *)
WorkersGoneOne == \E w \in Worker : pc[w] = "exit"

(* wg.Wait(). *)
WorkersGone == \A w \in Worker : pc[w] = "exit"

-----------------------------------------------------------------------------
Init ==
  /\ caller = "start" /\ err = FALSE /\ ctxDone = FALSE
  /\ next = 0 /\ jobsClosed = FALSE /\ resultsClosed = FALSE
  /\ pc = [w \in Worker |-> "idle"]
  /\ job = [w \in Worker |-> NoItem]
  /\ attempt = [w \in Worker |-> 0]
  /\ out = [w \in Worker |-> NoOutcome]
  /\ summ = ZeroTallies
  /\ cur = NoItem
  /\ outcome = [i \in Items |-> NoOutcome]
  /\ rep = [tally |-> ZeroTallies, results |-> {}]
  /\ calls = [i \in Items |-> 0]
  /\ lastAnswer = [i \in Items |-> NoOutcome]

-----------------------------------------------------------------------------
(* The caller of Run *)

(* Unknown cluster, or reporter.Start failed: no goroutine is started. *)
StartRefused ==
  /\ caller = "start"
  /\ caller' = "refused"
  /\ err' = TRUE
  /\ UNCHANGED <<feederVars, workerVars, summ, cur, outcome, rep, katoVars,
                 ctxDone, resultsClosed>>

(* reporter.Start succeeded: workers, feeder and closer start.             *)
StartRun ==
  /\ caller = "start"
  /\ caller' = "collect"
  /\ pc' = [w \in Worker |-> "recv"]
  /\ UNCHANGED <<feederVars, job, attempt, out, err, summ, cur, outcome, rep,
                 katoVars, ctxDone, resultsClosed>>

(* results hands worker w's result to the range loop, which tallies it. *)
Collect(w) ==
  /\ caller = "collect"
  /\ pc[w] = "send"
  /\ caller' = "report"
  /\ cur' = job[w]
  /\ outcome' = [outcome EXCEPT ![job[w]] = out[w]]
  /\ summ' = Tally(summ, out[w])
  /\ pc' = [pc EXCEPT ![w] = "recv"]
  /\ job' = [job EXCEPT ![w] = NoItem]
  /\ attempt' = [attempt EXCEPT ![w] = 0]
  /\ out' = [out EXCEPT ![w] = NoOutcome]
  /\ UNCHANGED <<feederVars, err, rep, katoVars, ctxDone, resultsClosed>>

(* reporter.ServiceDone; whatever it returns is ignored. *)
ServiceDone ==
  /\ caller = "report"
  /\ caller' = "collect"
  /\ rep' = [tally |-> Tally(rep.tally, outcome[cur]),
             results |-> rep.results \cup {cur}]
  /\ cur' = NoItem
  /\ UNCHANGED <<feederVars, workerVars, err, summ, outcome, katoVars,
                 ctxDone, resultsClosed>>

(* Mutant: a reporter that adds the final tallies to its own. *)
FinishAdding ==
  /\ caller = "collect"
  /\ resultsClosed
  /\ caller' = "returned"
  /\ rep' = [rep EXCEPT !.tally = [b \in Buckets |-> @[b] + summ[b]]]
  /\ err' \in BOOLEAN
  /\ UNCHANGED <<feederVars, workerVars, summ, cur, outcome, katoVars,
                 ctxDone, resultsClosed>>

(* results is closed: Finish replaces the reporter's summary, and its error *)
(* is Run's.                                                                *)
Finish ==
  /\ caller = "collect"
  /\ resultsClosed
  /\ caller' = "returned"
  /\ rep' = [rep EXCEPT !.tally = summ]
  /\ err' \in BOOLEAN
  /\ UNCHANGED <<feederVars, workerVars, summ, cur, outcome, katoVars,
                 ctxDone, resultsClosed>>

-----------------------------------------------------------------------------
(* The feeder and the closer *)

Feeding == caller \in {"collect", "report"} /\ ~jobsClosed

(* jobs <- job meets worker w's range; w makes its first kato call. *)
Deliver(w) ==
  /\ Feeding
  /\ next < N
  /\ pc[w] = "recv"
  /\ next' = next + 1
  /\ pc' = [pc EXCEPT ![w] = "run"]
  /\ job' = [job EXCEPT ![w] = next]
  /\ calls' = [calls EXCEPT ![next] = @ + 1]
  /\ UNCHANGED <<jobsClosed, attempt, out, collectVars, lastAnswer,
                 ctxDone, resultsClosed>>

(* Every item was handed out, or the select took ctx.Done(): close(jobs). *)
CloseJobs ==
  /\ Feeding
  /\ AllFed \/ ctxDone
  /\ jobsClosed' = TRUE
  /\ UNCHANGED <<next, workerVars, collectVars, katoVars, ctxDone, resultsClosed>>

(* wg.Wait() returns once every worker is gone. *)
CloseResults ==
  /\ caller \in {"collect", "report"}
  /\ ~resultsClosed
  /\ WorkersGone
  /\ resultsClosed' = TRUE
  /\ UNCHANGED <<feederVars, workerVars, collectVars, katoVars, ctxDone>>

-----------------------------------------------------------------------------
(* A worker: for j := range jobs { results <- runOne(...) } *)

WorkerExit(w) ==
  /\ pc[w] = "recv"
  /\ jobsClosed
  /\ pc' = [pc EXCEPT ![w] = "exit"]
  /\ UNCHANGED <<feederVars, job, attempt, out, collectVars, katoVars,
                 ctxDone, resultsClosed>>

(* kc.Run returns a: the result is final unless a can be retried and an    *)
(* attempt is left.                                                        *)
KatoReturns(w, a) ==
  /\ pc[w] = "run"
  /\ lastAnswer' = [lastAnswer EXCEPT ![job[w]] = a]
  /\ \/ /\ retriable(a) /\ AttemptLeft(w)
        /\ pc' = [pc EXCEPT ![w] = "backoff"]
        /\ attempt' = [attempt EXCEPT ![w] = @ + 1]
        /\ out' = out
     \/ /\ ~(retriable(a) /\ AttemptLeft(w))
        /\ pc' = [pc EXCEPT ![w] = "send"]
        /\ out' = [out EXCEPT ![w] = Bucket(a)]
        /\ attempt' = attempt
  /\ UNCHANGED <<feederVars, job, collectVars, calls, ctxDone, resultsClosed>>

(* time.After fires first (a select takes either ready case, so also when  *)
(* the context is done): call kato again.                                  *)
BackoffElapsed(w) ==
  /\ pc[w] = "backoff"
  /\ pc' = [pc EXCEPT ![w] = "run"]
  /\ calls' = [calls EXCEPT ![job[w]] = @ + 1]
  /\ UNCHANGED <<feederVars, job, attempt, out, collectVars, lastAnswer,
                 ctxDone, resultsClosed>>

(* Mutant: a cancelled backoff ends without a result for the item. *)
BackoffCancelledSilently(w) ==
  /\ pc[w] = "backoff"
  /\ ctxDone
  /\ pc' = [pc EXCEPT ![w] = "recv"]
  /\ UNCHANGED <<feederVars, job, attempt, out, collectVars, katoVars,
                 ctxDone, resultsClosed>>

(* ctx.Done() during the backoff: give up with the context's error. *)
BackoffCancelled(w) ==
  /\ pc[w] = "backoff"
  /\ ctxDone
  /\ pc' = [pc EXCEPT ![w] = "send"]
  /\ out' = [out EXCEPT ![w] = "errored"]
  /\ UNCHANGED <<feederVars, job, attempt, collectVars, katoVars,
                 ctxDone, resultsClosed>>

(* The run's deadline passes or it is cancelled: at any moment. *)
CtxCancel ==
  /\ ~ctxDone
  /\ ctxDone' = TRUE
  /\ UNCHANGED <<feederVars, workerVars, collectVars, katoVars, resultsClosed>>

-----------------------------------------------------------------------------
CallerStep ==
  StartRefused \/ StartRun \/ ServiceDone \/ Finish

WorkerStep(w) ==
  \/ Collect(w)
  \/ Deliver(w)
  \/ WorkerExit(w)
  \/ \E a \in Answers : KatoReturns(w, a)
  \/ BackoffElapsed(w)
  \/ BackoffCancelled(w)

Next ==
  \/ CallerStep
  \/ CloseJobs
  \/ CloseResults
  \/ \E w \in Worker : WorkerStep(w)
  \/ CtxCancel

Spec == Init /\ [][Next]_vars

(* Goroutines are scheduled; kc.Run returns because every call is bounded  *)
(* by the HTTP client's timeout; a backoff timer fires.  Nothing is assumed *)
(* of the context: a run ends whether or not it is ever cancelled.          *)
Fairness ==
  /\ WF_vars(CallerStep)
  /\ WF_vars(CloseJobs)
  /\ WF_vars(CloseResults)
  /\ \A w \in Worker : WF_vars(WorkerStep(w))

FairSpec == Spec /\ Fairness

-----------------------------------------------------------------------------
(* Properties *)

WorkerPC == {"idle", "recv", "run", "backoff", "send", "exit"}
Holding == {"run", "backoff", "send"}

TypeOK ==
  /\ caller \in {"start", "collect", "report", "returned", "refused"}
  /\ err \in BOOLEAN /\ ctxDone \in BOOLEAN
  /\ next \in 0 .. N /\ jobsClosed \in BOOLEAN /\ resultsClosed \in BOOLEAN
  /\ pc \in [Worker -> WorkerPC]
  /\ job \in [Worker -> Items \cup {NoItem}]
  /\ attempt \in [Worker -> 0 .. maxRetries]
  /\ out \in [Worker -> Buckets \cup {NoOutcome}]
  /\ summ \in [Buckets -> Nat]
  /\ cur \in Items \cup {NoItem}
  /\ outcome \in [Items -> Buckets \cup {NoOutcome}]
  /\ rep \in [tally : [Buckets -> Nat], results : SUBSET Items]
  /\ calls \in [Items -> 0 .. maxRetries + 1]
  /\ lastAnswer \in [Items -> Answers \cup {NoOutcome}]

InHand(i) == {w \in Worker : pc[w] \in Holding /\ job[w] = i}

(* Every item is in exactly one place: still with the feeder, in the hands *)
(* of one worker, or received by the collector.  No item is dropped        *)
(* between goroutines and none is run by two workers.                      *)
ItemsConserved ==
  /\ \A i \in Items :
       IF i >= next
       THEN InHand(i) = {} /\ outcome[i] = NoOutcome
       ELSE IF outcome[i] = NoOutcome
            THEN \E w \in Worker : InHand(i) = {w}
            ELSE InHand(i) = {}

(* The runner counts buckets in summ and the CollectingReporter counts     *)
(* them again for itself: both agree with the results received.            *)
TalliesAgree ==
  \A b \in Buckets :
    /\ summ[b] = Cardinality({i \in Items : outcome[i] = b})
    /\ rep.tally[b] = Cardinality({i \in Items : outcome[i] = b /\ i # cur})

(* A run that came back without its context having been cancelled has      *)
(* reported every item.                                                    *)
CompleteUnlessCancelled ==
  (caller = "returned" /\ ~ctxDone) =>
    rep.results = Items /\ \A i \in Items : outcome[i] # NoOutcome

(* Nothing Run started outlives it: no worker is still calling kato or     *)
(* blocked on a channel nobody reads.                                      *)
NoGoroutineLeft ==
  /\ caller = "returned" => jobsClosed /\ \A w \in Worker : pc[w] = "exit"
  /\ caller = "refused" => \A i \in Items : calls[i] = 0

(* The bucket reported for an item is what kato last answered for it, and  *)
(* an item is given up on a retriable answer only when its attempts are    *)
(* spent or the context is done.                                           *)
OutcomeJustified ==
  \A i \in Items : outcome[i] # NoOutcome =>
    /\ outcome[i] = Bucket(lastAnswer[i])
    /\ lastAnswer[i] = "retriable" => ctxDone \/ calls[i] = maxRetries + 1

(* kato is called for an item only the first time or after a retriable     *)
(* answer: a success or a bad request is never run a second time, by any   *)
(* worker.                                                                 *)
NoCallAfterFinalAnswer ==
  [][\A i \in Items : calls'[i] # calls[i] =>
       lastAnswer[i] \in {NoOutcome, "retriable"} /\ calls[i] <= maxRetries]_vars

(* groupapi's GroupResult: a done run delivers "every service's outcome".  *)
(* Run returns nil, and groupapi publishes done, also when the context     *)
(* ended before every item was handed out: TLC refutes this one.           *)
DoneHasEveryOutcome == (caller = "returned" /\ ~err) => rep.results = Items

(* Every run ends, cancelled or not. *)
Termination == <>(caller \in {"returned", "refused"})

-----------------------------------------------------------------------------
(* Run implements the abstract group run. *)

absPhase ==
  CASE caller = "start" -> "idle"
    [] caller \in {"collect", "report"} -> "running"
    [] caller = "returned" -> "ended"
    [] caller = "refused" -> "refused"

Abs == INSTANCE GroupRun WITH phase <- absPhase, cancelled <- ctxDone

(* Seen from outside, Run behaves as GroupRun: one outcome per item, and   *)
(* it ends incomplete only when cancelled.                                 *)
RefinesGroupRun == Abs!AbsSpec
=============================================================================
