SPECIFICATION MCSpec
CONSTANTS
  Sid = {s1, s2, s3}
  Begun = {s1}
  Request = {r1, r2}
  MaxWrites = 1
  MaxSaves = 1
  MaxMishaps = 1
  Failing = {"get", "set", "del", "expire"}
  Instance = {i1, i2, i3}
  Payload = {m1, m2}
  MaxPublishes = 3
SYMMETRY Symmetry
INVARIANTS NothingLost EndedStays FirstInOrder
CHECK_DEADLOCK FALSE
