CONSTANTS
  none = none
  unparsed = unparsed
  Name = {"sel_a", "sel_b", "flt"}
  Detection <- MCDetection
  Field = {"port", "bytes"}
  Value <- MCValue
  Missing = none
  Text = unparsed
  Pattern <- MCPattern
  Matching <- MCMatching
  MaxWords = 7
SPECIFICATION Spec
CHECK_DEADLOCK FALSE
INVARIANTS
  ConditionsMean
  AbsenceMatchesNothing
