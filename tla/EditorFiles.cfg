SPECIFICATION Spec
CONSTANTS
  Names = {"s", "f"}
  Hidden = {}
  Texts = {"empty", "hello"}
  Empty = "empty"
  Hello = "hello"
  Dir = Dir
  Binary = Binary
  Missing = Missing
  Cwd <- MCRoot
  Home <- MCRoot
  Typed <- MCTyped
  TypedDirs <- MCTypedDirs
  NewNames = {"s"}
  Projects = {"s"}
  Sources = {"f"}
  Howto = "f"
  Src = "s"
  Disk0 <- MCDisk0
  Foreign <- MCForeign
  MaxForeign = 1
  MaxWindows = 1
INVARIANTS CleanMatchesDisk TreeEntriesExist
PROPERTIES UnsavedIsMarked
