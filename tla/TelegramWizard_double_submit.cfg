\* One user answers the last prompt twice.
CONSTANTS
  alice = alice
  bob = bob
  m1 = m1
  m2 = m2
  h1 = h1
  h2 = h2
  h3 = h3
  User <- MCOneUser
  Message <- MCMessage
  UseCase <- MCForm
  NInput = 1
  NoMessage = NoMessage
  NoSession = NoSession
  Goroutine <- MCHandlers3
  Required <- MCRequired
  MaxConcurrent = 2
  MaxUpdates = 5
  OldScreens <- MCNoOldScreens
  Unreliable = FALSE
SYMMETRY MCSymmetry
SPECIFICATION Spec
INVARIANTS
  NoDoubleSubmit
\* Users stop sending after MaxUpdates.
CHECK_DEADLOCK FALSE
