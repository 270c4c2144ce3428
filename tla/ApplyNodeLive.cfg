CONSTANTS
  Origin = {1}
  World <- TwoInARow
  Rank <- Ranks
  Update <- Second
  Counter <- None
  Cap = 1
  MaxFaults = 2
SPECIFICATION FairSpec
PROPERTY EventuallyDone
\* A finite set of changesets: the node stops when it has applied them all.
CHECK_DEADLOCK FALSE
