SPECIFICATION FairSpec
CONSTANTS
  Generations <- TwoGenerations
  Size <- TwoChunksAndNone
INVARIANTS
  TypeOK
  OneAnswerLast
  NoFalseSuccess
  NoDanglingConversion
PROPERTIES
  DeliversFiles
  DeletedStaysSilent
  EventuallyAnswered
CHECK_DEADLOCK FALSE
