SPECIFICATION DisksSpec
CONSTANTS
  d1 = d1
  d2 = d2
  Disk <- TwoDisks
  Platforms = {"desktop", "android", "web"}
  Players = {"patient", "hasty"}
  Activities = {"there", "missing"}
  MaxPicks = 3
INVARIANTS
  Inv
  SetupOK
PROPERTIES
  SelectedUntouched
  InstallsWholeOrNothing
  DisksEnd
  PicksArrive
