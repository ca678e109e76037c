SPECIFICATION Spec
CONSTANTS
  Env <- FullscreenSet
  Files <- OneFile
  MayFail = TRUE
  Keys = {"Esc", "Down", "Z", "D"}
  Buttons = {"Start", "South", "East"}
  Touches = {"TPause", "TRight", "TFire", "TCamera"}
  Watchable = {"Down", "Z", "South", "TFire"}
  Bindable <- FireSouth
  Turnable = {"renderer", "update", "reach", "modern_pad"}
  MaxChanges = 2
INVARIANTS
  Inv
  NothingLatched
PROPERTIES
  MenuAnswers
