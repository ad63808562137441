SPECIFICATION Spec
CONSTANTS
  k1 = k1
  k2 = k2
  Key = {k1, k2}
  Limit = 2
  Window = 2
  MaxKeys = 1
  MaxClock = 7
SYMMETRY Clients
INVARIANTS TypeOK NeverMoreThanLimit RefusedOnlyWhenFull
