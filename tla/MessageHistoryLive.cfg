SPECIFICATION FairSpec
CONSTANTS
  Stored = 2
  Replies <- NoReplies
  MESSAGE_LIMIT = 2
  Newer = 1
  MaxEvents = 2
  MaxInbox = 1
PROPERTIES
  EventuallyConnected
CHECK_DEADLOCK FALSE
