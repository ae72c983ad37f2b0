SPECIFICATION Spec
CONSTANTS
  Calls = {c1, c2}
  Keys = {k1}
  NoCall = NoCall
  NoKey = NoKey
  Kinds = {"device", "consult", "rehearsal"}
  MaxConcurrent = 1
  MaxEnds = 1
  MaxCrashes = 1
  HasHangup = TRUE
  Reach = {"initiated", "ringing", "inProgress", "completed", "processing", "done"}
  Faults = {"hangupFails", "torn", "answerLost"}
CHECK_DEADLOCK FALSE
SYMMETRY Symmetry
INVARIANTS DialGatesHold CallsAreKept
PROPERTIES EventsTellTheTruth NeverDowngraded
