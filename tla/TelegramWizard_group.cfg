\* A group chat: two users, two wizard messages that may show what an earlier
\* process left, a form and a use case without
\* inputs, one run slot, calls to Telegram that fail.
CONSTANTS
  alice = alice
  bob = bob
  m1 = m1
  m2 = m2
  h1 = h1
  h2 = h2
  h3 = h3
  User <- MCUsers
  Message <- MCMessages
  UseCase <- MCUseCases
  NInput = 1
  NoMessage = NoMessage
  NoSession = NoSession
  Goroutine <- MCHandlers2
  Required <- MCRequired
  MaxConcurrent = 1
  MaxUpdates = 5
  OldScreens <- MCOldScreens
  Unreliable = TRUE
SYMMETRY MCSymmetry
SPECIFICATION Spec
INVARIANTS
  TypeOK
  OneWizardPerUser
  RunsAreComplete
  SlotsAreCounted
\* Users stop sending after MaxUpdates.
CHECK_DEADLOCK FALSE
