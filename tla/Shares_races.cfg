SPECIFICATION Spec
CONSTANTS
  r1 = r1
  r2 = r2
  p1 = p1
  p2 = p2
  p3 = p3
  a1 = a1
  a2 = a2
  a3 = a3
  h1 = h1
  Absent = Absent
  Gone = Gone
  Req = {r1, r2}
  Person = {p1, p2, p3}
  Account = {a1, a2, a3}
  Uuid = {h1}
SYMMETRY Names
INVARIANTS TypeOK NoSelfShare
PROPERTIES AddresseeKept StatusMovesRightly NothingLingers
CHECK_DEADLOCK FALSE
