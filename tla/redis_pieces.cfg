CONSTANTS
  Resumed = TRUE
  Replies <- MCReplies
SPECIFICATION Spec
CHECK_DEADLOCK FALSE
INVARIANTS ResultIsReply
