CONSTANTS
  d1 = d1
  Saved <- MCSaved
  MaxEdits = 1
  MaxClicks = 2
  MaxOpens = 2
  New = New
  Away = Away
  None = None
  Nothing = Nothing
  Unreadable = Unreadable
  Kept <- MCKept
  Touched = {"date", "heightM", "wallMaterialId"}
  Typed = {0, 45, 900}
  MaxChanges = 2
  MaxRuns = 2
  MaxReloads = 1
  MaxRetries = 1
SPECIFICATION MCSpec
INVARIANTS IdsAgree SavedMeansStored RunsWhatWasShown WalkedRunIsAccepted
PROPERTY NeverBusyForGood
CHECK_DEADLOCK FALSE
