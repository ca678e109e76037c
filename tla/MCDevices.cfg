SPECIFICATION DevSpec
CONSTANTS
  W = 4
  Words = 9
  Copper = {8}
  Pictures <- MCPictures
  Areas <- MCAreas
  Lines <- OnPicture
  MaxRows = 2
  Chans = {0}
  Locs = {0}
  Lens = {0, 1}
  Pers = {0, 2}
  Sounds <- MCSounds
  Clock = 3
  Rate = 2
  Frame = 4
  Ticks = 3
  MaxQueued = 1
  MaxSounds = 2
  Pointers = {"bpl1"}
  Bytes = {{1}, {7}}
  SetBit = 7
  LineMod = 2
  LastLine = 2
  Second = 600
  Speeds = {100, 120}
  FastPct = 500
  Modes = {0, 4, 5}
  FreePct = 10
  StallFrames = 2
  RebaseEvery = 3
  Works = {2, 14, 38}
  Lates = {1}
  Rests = {0, 15}
  Exact = 5
  MaxNow = 40
  MaxChanges = 3
  Sizes = {1, 2}
  Contents = {10, 20}
  Failures = {"image", "acquire"}
  MaxEvents = 3
  Built = {TRUE, FALSE}
  Wanted = {"", "sdl"}
  Windows <- MCWindows
  Desktop <- MCDesktop
  MaxFaults = 2
INVARIANTS
  Draws
  Sound
  Coherent
  Timed
  VulkanSafe
  Backed
PROPERTIES
  EffectsEnd
  FollowsWindow
CHECK_DEADLOCK FALSE
