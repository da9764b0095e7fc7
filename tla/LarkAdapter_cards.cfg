\* Messages and card actions delivered up to four times in all, a memory of one
\* message, one card, two overlapping handlers and one run slot.
CONSTANTS
  msg1 = msg1
  msg2 = msg2
  card1 = card1
  h1 = h1
  h2 = h2
  Id <- MCMessages
  EmptyId = EmptyId
  dedupCap = 1
  Card <- MCCards
  OldCards <- MCOldCards
  Goroutine <- MCGoroutines
  MaxConcurrent = 1
  MaxClicks = 2
  MaxDeliveries = 4
SPECIFICATION FairSpec
INVARIANTS
  TypeOK
  PickersApart
  SlotsAreCounted
PROPERTIES
  RunningResolves
\* Users stop clicking and Lark stops delivering at the bounds.
CHECK_DEADLOCK FALSE
