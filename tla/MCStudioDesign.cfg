SPECIFICATION PanelSpec
CONSTANTS
  Loaded <- MCLoaded
  Sizes <- MCSizes
  Thicknesses <- MCThicknesses
  Picked <- MCPicked
  Shares <- MCShares
  Days <- MCDays
  Places <- MCPlaces
  Texts <- MCTexts
  MaxPanelEdits = 2
CHECK_DEADLOCK FALSE
INVARIANTS
  RefusedOnlyForSheetOrDate
  AssembledIsBuildable
  WindowsFollowDesign
  ViewerDrawsWhatIsSimulated
  ClassicAgrees
