SPECIFICATION Spec
CONSTANTS
  r1 = r1
  r2 = r2
  r3 = r3
  t1 = t1
  t2 = t2
  t3 = t3
  Absent = Absent
  Req = {r1}
  Token = {t1, t2, t3}
  Pw = {p1, p2}
  Salt = {s1, s2}
SYMMETRY TokenNames
INVARIANTS CredentialsAgree
PROPERTIES ReuseEndsTheLogin RekeyEndsSessions
