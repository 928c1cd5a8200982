SPECIFICATION FairSpec
CONSTANTS
  Names <- ThreeNames
  Links <- TwoLinks
  TypeOf <- Types
  Restricted <- Third
  MaxAsks = 2
INVARIANTS
  TypeOK
  OneDialogEach
  LinkGoesWithTitle
PROPERTIES
  EventuallyShown
CHECK_DEADLOCK FALSE
