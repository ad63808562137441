SPECIFICATION Spec
CONSTANTS
  r1 = r1
  r2 = r2
  u1 = u1
  u2 = u2
  u3 = u3
  s1 = s1
  s2 = s2
  s3 = s3
  Absent = Absent
  Req = {r1, r2}
  User = {u1, u2, u3}
  Slot = {s1, s2, s3}
SYMMETRY Names
CONSTRAINT OverlapsOfTwo
INVARIANTS TypeOK OwnerStays MembersAreThemselves
PROPERTIES JoiningIsOnesOwn AdminsArePeers
