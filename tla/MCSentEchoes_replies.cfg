SPECIFICATION Spec
CONSTANTS
  Sends = {"s1"}
  Waits = {w1, w2}
  Attachment = "file"
  TextOf <- MCTextOf
  WithFile = {"s1"}
  Others = {"a"}
  MaxOthers = 2
  MaxEntries = 2
  Outcomes = {"sent", "refused"}
  Overlap = FALSE
CHECK_DEADLOCK FALSE
SYMMETRY Symmetry
INVARIANTS TypeOK NoSwallow
PROPERTIES NoPhantom Consistent
