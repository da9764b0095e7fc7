\* A private chat: one user, two wizard messages, a form and a use case without
\* inputs, and two overlapping, fair handlers.
CONSTANTS
  alice = alice
  bob = bob
  m1 = m1
  m2 = m2
  h1 = h1
  h2 = h2
  h3 = h3
  User <- MCOneUser
  Message <- MCMessages
  UseCase <- MCUseCases
  NInput = 1
  NoMessage = NoMessage
  NoSession = NoSession
  Goroutine <- MCHandlers2
  Required <- MCRequired
  MaxConcurrent = 1
  MaxUpdates = 4
  OldScreens <- MCOldScreens
  Unreliable = TRUE
SPECIFICATION FairSpec
INVARIANTS
  IndexedIsOwn
PROPERTIES
  HandlersFinish
\* Users stop sending after MaxUpdates.
CHECK_DEADLOCK FALSE
