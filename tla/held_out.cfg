SPECIFICATION Spec
CONSTANTS
  Originals = {"jpg"}
  Pools <- JustOne
  NativePng = {}
  NoOriginal = "none"
  Pieces = {"c0", "c1"}
  Fans <- TwoPieces
  MaxGeo = 1
  MaxTodo = 1
  MaxHeld = 1
PROPERTY
  HeldOutWhole
CHECK_DEADLOCK FALSE
