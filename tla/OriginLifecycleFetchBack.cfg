SPECIFICATION Spec
CONSTANTS
  Origin <- TwoOrigins
  Ext <- NoExt
  InProcessOnly = TRUE
  PriorDurable = TRUE
  BatchMax = 1
  MaxCommits = 1
  MaxExtCommits = 0
  MaxLives = 2
  MaxCrashes = 1
INVARIANT CountedOnce
\* the lives and the commits are bounded: the node may stay closed
CHECK_DEADLOCK FALSE
