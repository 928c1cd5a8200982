SPECIFICATION FairSpec
CHECK_DEADLOCK FALSE
CONSTANTS
  Files <- TwoFiles
  NoFile <- None
  FileOf <- FourMessages
  First <- MiddleTwo
  MaxEvents = 1
  MaxInbox = 2
PROPERTY EventuallyLeavesQueue
