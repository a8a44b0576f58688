SPECIFICATION Spec
CONSTANTS
  None = None
  path1 = path1
  path2 = path2
  Nodes = {n1}
  Texts = {x, y, z}
  Paths = {path1, path2}
  Inodes = {i, j, k}
  Bindings = {1}
  Modes = {"fs-authoritative", "canvas-authoritative", "bidirectional"}
  Activities = {w1, w2}
  Start <- OneFile
  MaxInputs = 3
SYMMETRY Symmetry
INVARIANTS NoSilentEdit
PROPERTIES NothingUnseen
CHECK_DEADLOCK FALSE
