SPECIFICATION SweepSpec
CONSTANTS
  earth = earth
  stone = stone
  foam = foam
  brick = brick
  Insulation <- Foams
  Structural <- Masses
  Storage = {"water"}
  Dx <- Slices
  Base <- Shelter
  Sweeps <- Asked
  AchFloor = 2
  Metric = {1, 2, 3}
INVARIANTS ExpansionIsFaithful SeedFitsMesh
PROPERTY SweepSettles
CHECK_DEADLOCK FALSE
