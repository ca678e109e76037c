SPECIFICATION Spec
CONSTANTS
  Env <- NoEnv
  Files <- NoFile
  MayFail = FALSE
  Keys = {"Esc", "Down", "Z", ","}
  Buttons = {"Start"}
  Touches = {}
  Watchable = {"Z"}
  Bindable <- LeftComma
  Turnable = {}
  MaxChanges = 1
INVARIANTS
  EveryActionBound
