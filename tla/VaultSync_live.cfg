SPECIFICATION FairSpec
CONSTANTS
  c = c
  e = e
  v1 = v1
  v2 = v2
  r1 = r1
  r2 = r2
  Absent = Absent
  Item = {c, e}
  Editable = {c, e}
  Val = {v1, v2}
  MaxRev = 2
  TableOf <- TablesOfTwo
  Batches <- BatchesOfTwo
  Creates <- Bodies
  Patches <- Edits
  Dev = {d1, d2}
  Req = {r1, r2}
  MaxClock = 2
PROPERTIES EveryRequestEnds
