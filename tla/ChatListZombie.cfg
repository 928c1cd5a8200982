SPECIFICATION Spec
CONSTANTS
  Chats <- TwoChats
  Orders <- TwoOrders
  PageSize = 1
  MaxChanges = 3
  MaxResets = 0
  MaxPages = 1
  MaxAsked = 1
  MaxInbox = 2
PROPERTIES
  AddedRowsHaveOrder
