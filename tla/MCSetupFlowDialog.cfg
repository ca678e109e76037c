SPECIFICATION Spec
CONSTANTS
  d1 = d1
  d2 = d2
  Disk <- TwoDisks
  Platforms = {"desktop"}
  Players = {"patient"}
  Activities = {"there"}
  MaxPicks = 1
SYMMETRY Alike
INVARIANTS
  NobodyStuck
CHECK_DEADLOCK FALSE
