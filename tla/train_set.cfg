SPECIFICATION Spec
CONSTANTS
  Originals = {"jpg", "png"}
  Pools <- OneOfEach
  NativePng = {"png"}
  NoOriginal = "none"
  Pieces = {"c0", "c1"}
  Fans <- TwoPieces
  MaxGeo = 2
  MaxTodo = 2
  MaxHeld = 2
INVARIANTS
  TypeInvariant
  OriginKnown
  OneCopyEach
  MaskFits
  BadgeIsTrue
PROPERTIES
  RemovalIsKept
  NothingLost
CHECK_DEADLOCK FALSE
