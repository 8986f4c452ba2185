SPECIFICATION MCSpec
CONSTANTS
  air = air
  wall = wall
  ceiling = ceiling
  None = None
  Node <- Nodes
  Air = air
  HourTicks = 3
  Hours = 4
  Six = 1
  Solve <- MCSolve
  Unit <- Response
  Lowest <- Frozen
  Highest = 350
  Requests <- Asked
  P = 32749
  Dt = 300
  StepsPerHour = 2
  HoursPerDay = 3
  MaxSteps = 3
  Clocks = {0, 5}
  SlabSoil = 2
  ToAir = 9
  ToFloor = 37
  Setpoint = 285
  MaxPower = 1500
  Seed = 270
INVARIANTS RecordsFollowWeather StartIsPeriodic BalanceCloses StepSolvesItsBalance ScenariosAreOfTheRecord
CHECK_DEADLOCK FALSE
