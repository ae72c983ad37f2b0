SPECIFICATION Spec
CONSTANTS
  MaxEditors = 2
  MaxTexts = 1
  MaxLives = 1
CHECK_DEADLOCK FALSE
INVARIANT RepliesThread
