SPECIFICATION Spec
CONSTANTS
  One = 2
  Gravity = 1
  JumpVy <- MCJump
  AirAcc = 1
  Drag = 1
  FallMax = 2
  Cap <- MCCap
  Tap = 1
  Apex = 1
  Lead = 1
  Wide = 3
  Top = 2
  Moves <- MCMoves
  NoJump = {}
  Hurt <- MCHurt
  Most = 1
  Hands <- MCHands
  Full = 2
  Modes = {"none"}
  Toggles = 1
INVARIANTS
  MomentumKept
