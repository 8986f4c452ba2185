SPECIFICATION Spec
CONSTANTS
  r1 = r1
  r2 = r2
  r3 = r3
  r4 = r4
  many = many
  one = one
  two = two
  None = None
  Run <- Runs
  Faulty <- Bad
  Call <- Calls
  Scenarios <- Lists
  MaxWorkers = 4
PROPERTIES OnlyLatestResolves EveryRunSettles
CHECK_DEADLOCK FALSE
