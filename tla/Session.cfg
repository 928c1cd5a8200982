SPECIFICATION FairSpec
CONSTANTS
  FloodLimit = 2
  MaxRequests = 2
  MaxEvents = 3
  MaxRestarts = 1
INVARIANTS
  TypeOK
  ReadyShowsChats
PROPERTIES
  EndsForAReason
  EventuallySignedIn
  QuitsAfterViewClosed
CHECK_DEADLOCK FALSE
