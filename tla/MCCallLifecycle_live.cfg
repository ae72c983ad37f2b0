SPECIFICATION FairSpec
CONSTANTS
  Calls = {c1}
  Keys = {k1}
  NoCall = NoCall
  NoKey = NoKey
  Kinds = {"device", "delegate", "rehearsal"}
  MaxConcurrent = 1
  MaxEnds = 2
  MaxCrashes = 0
  HasHangup = TRUE
  Reach = {"initiated", "ringing", "inProgress", "completed", "noAnswer", "processing", "done", "failed"}
  Faults = {"hangupFails", "answerLost"}
CHECK_DEADLOCK FALSE
PROPERTIES EveryCallCloses
