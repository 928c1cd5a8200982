SPECIFICATION StartSpec
CONSTANTS
  Chats <- TwoChats
  Open <- First
  PageSize = 1
  MaxMessages = 2
  MaxInbox = 4
  MaxEvents = 4
INVARIANTS
  TypeOK
  BadgeCurrent
PROPERTIES
  EventuallyRead
CHECK_DEADLOCK FALSE
