SPECIFICATION Spec
CONSTANTS
  w1 = w1
  w2 = w2
  w3 = w3
  Worker = {w1, w2}
  MaxCrashes = 0
INVARIANTS ServedIconsAreText
CHECK_DEADLOCK FALSE
