SPECIFICATION FairSpec
CONSTANTS
  Chats <- TwoChats
  ConnectionStates <- States
  QuitOnCloseUi = FALSE
  MaxMessages = 2
  MaxInbox = 3
  MaxEvents = 5
INVARIANTS
  TypeOK
  OnePerChat
  NothingLeftBehind
  NoNotificationForReadChat
PROPERTIES
  EventuallyPublished
CHECK_DEADLOCK FALSE
