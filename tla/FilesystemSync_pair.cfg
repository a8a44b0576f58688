SPECIFICATION Spec
CONSTANTS
  None = None
  path1 = path1
  path2 = path2
  Nodes = {n1, n2}
  Texts = {x, y}
  Paths = {path1, path2}
  Inodes = {i, j, k}
  Bindings = {1, 2}
  Modes = {"bidirectional"}
  Activities = {w1, w2}
  Start <- TwoFiles
  MaxInputs = 2
SYMMETRY Symmetry
INVARIANTS NoSilentEdit
CHECK_DEADLOCK FALSE
