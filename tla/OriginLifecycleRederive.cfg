SPECIFICATION Spec
CONSTANTS
  Origin <- TwoOrigins
  Ext <- NoExt
  InProcessOnly = FALSE
  PriorDurable = TRUE
  BatchMax = 1
  MaxCommits = 3
  MaxExtCommits = 0
  MaxLives = 2
  MaxCrashes = 1
INVARIANT OneContentPerDot
\* the lives and the commits are bounded: the node may stay closed
CHECK_DEADLOCK FALSE
