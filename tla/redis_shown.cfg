CONSTANTS
  Resumed = FALSE
  Replies <- MCReplies
SPECIFICATION Spec
CHECK_DEADLOCK FALSE
INVARIANTS ShownIsReply
