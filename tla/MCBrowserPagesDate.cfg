CONSTANTS
  Touched = {"timestepSeconds", "simulationDays", "groundAlbedo"}
  Raw <- MCRaw
  Hours = {0, 1}
  InitialPreset = "traditionalLadakhiByre"
  Types = {"wall", "roof"}
  PickedMaterials = {"steelCGI", "eps"}
  Cards = {"armyBroBarrack"}
  Dates = {1, 100}
  Lengths = {0, 20}
  Heights = {8, 30}
  Shares = {0, 900}
  Thicknesses = {100}
  Files = {24, 8760}
  MaxEdits = 2
  MaxVisits = 1
  MaxInputs = 4
  MaxRetries = 2
  None = None
  Designs = {d1, d2}
  Ran = {d1}
  Timed = {d1}
  MaxCalls = 2
  MaxElsewhere = 1
  NoOne = NoOne
  Stored = {"s1", "s2", "s3", "s4"}
  Runs <- MCRuns
  Address <- MCAddress
  MaxToggles = 2
  MaxNewRuns = 1
SPECIFICATION Spec
INVARIANT DateIsSimulated
CHECK_DEADLOCK FALSE
