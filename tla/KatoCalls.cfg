\* Two calls through any doors to a configured and an unknown cluster, two
\* retries for a group's target, every loss and delay.
CONSTANTS
  c1 = c1
  c2 = c2
  prod = prod
  gone = gone
  Call <- MCCalls
  Cluster <- MCClusters
  Registered <- MCRegistered
  MaxRetries = 2
SPECIFICATION Spec
INVARIANTS
  TypeOK
  TargetsBounded
PROPERTIES
  RefinesAtMostOnce
\* Calls end.
CHECK_DEADLOCK FALSE
