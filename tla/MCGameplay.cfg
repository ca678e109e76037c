SPECIFICATION PlaySpec
CONSTANTS
  One = 2
  Gravity = 1
  JumpVy <- MCJump
  AirAcc = 1
  Drag = 1
  FallMax = 2
  Cap <- MCCap
  Tap = 1
  Apex = 1
  Lead = 1
  Wide = 1
  Top = 0
  Moves <- MCMoves
  NoJump = {1}
  Hurt <- MCHurt
  Most = 1
  Hands <- MCHands
  Full = 2
  Modes = {"light", "none"}
  Toggles = 1
  Presses <- MCPresses
  Schemes = {{}, {"kb"}, {"kb", "pad", "touch"}}
  MaxHeld = 3
  Tile = 16
  Spots <- MCSpots
  Counts <- MCCounts
  Slots = 2
  PerExtra = 2
  Readable <- MCReadable
  Tables <- MCTables
  Faults = 1
  CamTile = 2
  Screen = 4
  Display = 4
  Pad = 1
  Word = 256
  Step = 1
  Fast = 2
  Return = 3
  FadeHalf = 2
  Curtain = 255
  Drift = 1
  Edges <- MCEdges
  Output = 8
  Changes = 1
INVARIANTS
  FlightOK
  ControlsOK
  LevelsOK
PROPERTIES
  StepsHonest
  CameraReturns
CHECK_DEADLOCK FALSE
