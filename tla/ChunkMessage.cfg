\* Every text of up to six atoms, the longest of six bytes, over a limit they
\* exceed up to three times.
CONSTANTS
  tgMaxMessage = 11
  Tails <- MCTails
  Names <- MCNames
  Attributes <- MCAttributes
  MaxAtoms = 6
SPECIFICATION Spec
INVARIANTS
  Lossless
  Fits
  AtomsWhole
\* chunk4096 returns.
CHECK_DEADLOCK FALSE
