SPECIFICATION WideSpec
CONSTANTS
  Tile = 4
  Screen = 8
  Display = 10
  Pad = 4
  Word = 64
  H = 6
  Sheet <- MCSheet
  Mirror = 2
  Blind = 4
  LowestY = 3
  Page = 10
  Byte = 2
  Rope = 5
  Frames <- MCFrames
  LayerMin = 8
  Arena = 240
  MaxQuads = 16
  Atlas <- MCAtlas
  CopperH = 5
  Chips <- MCChips
  Places = {"front", "back"}
  Later <- MCLater
  Width = 4
  First = 2
  Wrap = 6
  High = 4
  MaxAnchors = 6
  Ring = 3
  Delays = {0, 1}
  MaxFrames = 2
  CapTile = 16
  CapScreen = 320
  CapDisplay = 352
  CapPad = 48
  CapWord = 65536
  Nodes <- MCNodes
  Looks <- MCLooks
  Type <- MCType
  Cams = {0, 80}
  Edges <- MCEdges
  Outs = {352, 640}
  MaxObjs = 4
  Slack = 48
  Windows <- MCWindows
  MaxWalks = 3
  MaxEras = 1
  Things <- MCThings
  MaxThings = 1
  Ttl = 4
  MaxBoxes = 2
  Ropes <- MCRopes
INVARIANTS
  CopperOK
  CapturesOK
  PicturesOK
PROPERTIES
  BannerLasts
CHECK_DEADLOCK FALSE
