SPECIFICATION FairSpec
CONSTANTS
  Origin <- TwoOrigins
  Ext <- FirstExt
  InProcessOnly = FALSE
  PriorDurable = TRUE
  BatchMax = 1
  MaxCommits = 2
  MaxExtCommits = 1
  MaxLives = 2
  MaxCrashes = 0
PROPERTY EventuallyHeld
\* the lives and the commits are bounded: the node may stay closed
CHECK_DEADLOCK FALSE
