SPECIFICATION Spec
CONSTANTS
  Origin <- ThreeOrigins
  Ext <- NoExt
  InProcessOnly = TRUE
  PriorDurable = TRUE
  BatchMax = 2
  MaxCommits = 2
  MaxExtCommits = 0
  MaxLives = 4
  MaxCrashes = 2
INVARIANTS
  TypeOK
  OneContentPerDot
  OneDotPerCommit
  NeverRefused
  DurablyCaptured
  AdvertisedServable
\* the lives and the commits are bounded: the node may stay closed
CHECK_DEADLOCK FALSE
