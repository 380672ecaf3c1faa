SPECIFICATION Spec
CONSTANTS
  u1 = u1
  u2 = u2
  Uids = {u1, u2}
  MaxReplies <- MCMaxReplies
INVARIANTS RepliesInOrder TablesAreSound
PROPERTIES EveryoneIsAnswered AbandonedIsAborted
CHECK_DEADLOCK FALSE
