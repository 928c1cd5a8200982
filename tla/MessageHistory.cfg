SPECIFICATION Spec
CONSTANTS
  Stored = 1
  Replies <- FourthAnswers
  MESSAGE_LIMIT = 2
  Newer = 1
  MaxEvents = 4
  MaxInbox = 3
INVARIANTS
  TypeOK
  NoDoubleRow
  NoGap
  HistoryEndIsEnd
CHECK_DEADLOCK FALSE
CONSTRAINT Untroubled
