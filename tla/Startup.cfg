\* Files of up to two clusters and two groups, with blank, padded and repeated
\* names, groups in unknown clusters, and every combination of platforms.
CONSTANTS
  t1 = t1
  none = none
  Raw <- MCRaw
  trim <- MCTrim
  Target <- MCTargets
  EmptyTarget = none
  ClusterFiles <- MCClusterFiles
  GroupFiles <- MCGroupFiles
SPECIFICATION Spec
INVARIANTS
  ServesOnlyValid
  ServesConfiguration
\* The process ends.
CHECK_DEADLOCK FALSE
