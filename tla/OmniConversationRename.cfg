CONSTANTS
  Requests = {r1, r2}
  Absent = Absent
  Retention = 2
  MaxConversationClock = 2
SPECIFICATION ConversationSpec
PROPERTIES
  RenameIsKept
CHECK_DEADLOCK FALSE
