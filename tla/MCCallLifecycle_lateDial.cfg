SPECIFICATION Spec
CONSTANTS
  Calls = {c1}
  Keys = {k1}
  NoCall = NoCall
  NoKey = NoKey
  Kinds = {"device"}
  MaxConcurrent = 1
  MaxEnds = 1
  MaxCrashes = 0
  HasHangup = FALSE
  Reach = {"initiated", "ringing", "inProgress", "completed", "noAnswer", "processing", "done", "failed"}
  Faults = {}
CHECK_DEADLOCK FALSE
INVARIANTS EndedMeansHungUp
