SPECIFICATION FlowSpec
CONSTANTS
  Main = Main
  Game = {g1, g2, g3}
  MaxStack = 5
  MaxGuest = 4
  MaxImage = 3
  Drives = {"credits"}
  SaveMayFail = TRUE
  MaxFrames = 2
  Fast = {FALSE, TRUE}
  Overlap = {FALSE, TRUE}
INVARIANTS
  Inv
  CallsOK
  LoopOK
  HoldOK
PROPERTIES
  ExitRunsNoGuestCode
  HostGetsBack
  TurnsKept
  CallsUnwind
  HoldEnds
  HandOffSurvivesOldFlow
  RestartHappens
