\* Three items over two workers, one retry: more items than workers, and every
\* answer, retry and cancellation in every order, with the fairness of the
\* scheduler and of kato's HTTP timeout.
CONSTANTS
  w1 = w1
  w2 = w2
  Worker <- MCWorkers
  N = 3
  Concurrency = 2
  MaxRetries = 1
SPECIFICATION FairSpec
INVARIANTS
  TypeOK
  ItemsConserved
  TalliesAgree
  CompleteUnlessCancelled
  NoGoroutineLeft
  OutcomeJustified
PROPERTIES
  NoCallAfterFinalAnswer
  Termination
  RefinesGroupRun
\* A run ends.
CHECK_DEADLOCK FALSE
