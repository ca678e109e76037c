SPECIFICATION Spec
CONSTANTS
  MaxFrames = 2
  Fast = {FALSE}
  Overlap = {TRUE}
INVARIANTS
  PressReleased
