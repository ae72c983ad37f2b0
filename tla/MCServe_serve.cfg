SPECIFICATION ServeSpec
CONSTANTS
  MaxLives = 2
  MaxChildren = 5
  GiveUpAfter = 3
  MissingBinary = TRUE
  Calls = {c1, c2, c3}
  NoCall = NoCall
  MaxBrief = 3
  MaxAgents = 3
  AgentFaults = {"refused", "lost", "deleted"}
  Tasks = {t1, t2, t3}
  Sids = {s1, s2}
  RecordingFaults = {"refused", "lost"}
CHECK_DEADLOCK FALSE
INVARIANTS ChildrenBounded TypesOK OneAgent SpeaksByItsBrief Playable DeletedStaysDeleted
PROPERTIES TunnelComesBack
