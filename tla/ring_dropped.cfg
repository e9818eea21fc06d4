SPECIFICATION Spec
CONSTANTS
  Cap = 2
  MaxSeq = 4
PROPERTIES DroppedOnlyUnread
CHECK_DEADLOCK FALSE
