SPECIFICATION Spec
CHECK_DEADLOCK FALSE
CONSTANTS
  Files <- TwoFiles
  NoFile <- None
  FileOf <- FourMessages
  First <- MiddleTwo
  MaxEvents = 2
  MaxInbox = 2
INVARIANTS
  TypeOK
  FilesOnTheirRows
  NoFalseCompleted
