CONSTANTS
  Node = {1, 2}
  MaxWrites <- TwoAndOne
  MaxWall = 3
  BatchMax = 2
SPECIFICATION Spec
INVARIANT ConvergedDespiteWindow
CHECK_DEADLOCK FALSE
