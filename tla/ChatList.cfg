SPECIFICATION FairSpec
CONSTANTS
  Chats <- TwoChats
  Orders <- ThreeOrders
  PageSize = 1
  MaxChanges = 2
  MaxResets = 1
  MaxPages = 1
  MaxAsked = 1
  MaxInbox = 2
INVARIANTS
  TypeOK
  NoDuplicateRows
  RowsSorted
  RowsCurrent
  NoLostChat
PROPERTIES
  MirrorsChats
  EventuallyListed
