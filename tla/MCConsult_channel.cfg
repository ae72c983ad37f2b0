SPECIFICATION FairSpec
CONSTANTS
  MaxQuestions = 2
  MaxRequests = 3
  Texts = {"t1", "t2", "t3"}
  Blank = {"t2"}
  Members = {"m1"}
  Addressee <- MCAddressee
  Answers = {"a1", "a2"}
  NoAnswer = NoAnswer
  NoText = NoText
  MaxPending = 1
  MaxPolls = 1
  MaxCrashes = 1
  Torn = TRUE
CHECK_DEADLOCK FALSE
INVARIANTS OneAnswer QueueSound NobodyForgotten
PROPERTIES ImplementsBox HoldsEnd
