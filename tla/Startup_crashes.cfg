SPECIFICATION FairSpec
CONSTANTS
  w1 = w1
  w2 = w2
  w3 = w3
  Worker = {w1, w2, w3}
  MaxCrashes = 2
INVARIANTS TypeOK MarkedSchemasAreCompleted
PROPERTIES EveryUpgradableDatabaseIsServed ServedSchemaOnlyGrows
CHECK_DEADLOCK FALSE
