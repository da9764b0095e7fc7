\* Three targets with every outcome, both platforms, a summary in two pieces.
CONSTANTS
  N = 3
  Parts = 2
  maxBytes = 20
  perItemSummaryCap = 4
  Line <- MCLine
  Runes <- MCRunes
  Width <- MCWidth
SPECIFICATION ChatSpec
INVARIANTS
  TypeOK
  ProgressIsTrue
  FinalIsComplete
  SummaryIsComplete
  EvidenceFillsBudget
  GateCoversRun
PROPERTIES
  GateReleased
