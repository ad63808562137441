SPECIFICATION ContentSpec
CONSTANTS
  r1 = r1
  r2 = r2
  u1 = u1
  u2 = u2
  s1 = s1
  s2 = s2
  c1 = c1
  e1 = e1
  Absent = Absent
  Req = {r1, r2}
  User = {u1, u2}
  Slot = {s1, s2}
  Coll = {c1}
  Entry = {e1}
SYMMETRY Names
CONSTRAINT TwoOfInterest
INVARIANTS ContentTypeOK
PROPERTIES OnlyMembersWrite EnteredFolderWasLive OnlyPostRevives
