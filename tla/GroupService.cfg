\* Two groups, three submitted runs and one chat run over a store for one
\* record, whose TTL can pass once, and one restart at any point.
CONSTANTS
  g1 = g1
  g2 = g2
  c1 = c1
  Group <- MCGroups
  ChatRun <- MCChatRuns
  NRuns = 3
  Polled <- MCPolled
  MaxRuns = 1
  RunTTL = 0
  MaxTime = 1
  MaxRestarts = 1
  NoGroup = NoGroup
SPECIFICATION FairSpec
INVARIANTS
  TypeOK
  OneRunPerGroup
  RunningIsStored
  StoreBounded
PROPERTIES
  PollsMoveForward
  SubmittedRunsEnd
\* Runs and the clock are bounded.
CHECK_DEADLOCK FALSE
