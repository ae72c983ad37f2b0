SPECIFICATION FairSpec
CONSTANTS
  Sockets = {k1, k2}
  Talking = {k1}
  NoSocket = NoSocket
  Modes = {"direct", "byo-model"}
  HasFallback = TRUE
  MaxTurns = 2
  MaxTokens = 1
  MaxInputs = 2
CHECK_DEADLOCK FALSE
INVARIANTS AbortedStaysSilent OneVoice RepliesAsSent
PROPERTIES FailureEndsCall
