\* A Run click whose event is delivered twice.
CONSTANTS
  msg1 = msg1
  msg2 = msg2
  card1 = card1
  h1 = h1
  h2 = h2
  Id <- MCMessages
  EmptyId = EmptyId
  dedupCap = 1
  Card <- MCCards
  OldCards <- MCOldCards
  Goroutine <- MCGoroutines
  MaxConcurrent = 2
  MaxClicks = 2
  MaxDeliveries = 4
SYMMETRY MCSymmetry
SPECIFICATION Spec
INVARIANTS
  OneRunPerClick
\* Users stop clicking and Lark stops delivering at the bounds.
CHECK_DEADLOCK FALSE
