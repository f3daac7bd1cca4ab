SPECIFICATION Spec
CONSTANTS
  Conn = {w1, w2}
  Id = {i1, i2}
  MaxSubs = 2
INVARIANT EndIsTold
CHECK_DEADLOCK FALSE
