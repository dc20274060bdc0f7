SPECIFICATION Spec
CONSTANTS
  k1 = k1
  k2 = k2
  Key = {k1, k2}
  None = None
  Restored <- MCRestored
  Generated = {k1, k2}
  Service <- MCService
  MaxClicks = 3
  MaxLog = 3
INVARIANTS TypeOK FactsAreTrue SentIsSigned CopiesAreCurrent StatusIsTrue
CHECK_DEADLOCK FALSE
