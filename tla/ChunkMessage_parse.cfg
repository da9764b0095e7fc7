\* An element that lies across a cut.
CONSTANTS
  tgMaxMessage = 11
  Tails <- MCTails
  Names <- MCNames
  Attributes <- MCAttributes
  MaxAtoms = 4
SPECIFICATION Spec
INVARIANTS
  ChunksParse
\* chunk4096 returns.
CHECK_DEADLOCK FALSE
