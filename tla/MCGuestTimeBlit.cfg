CONSTANTS
  Lines = 3
  V8 = 2
  MainLoop = 1
  Polled = {1, 2}
  Handlers = {1}
  ChainMax = 2
  Ticks = 2
  Lags = {0}
SPECIFICATION Spec
INVARIANTS
  BlitIntact
