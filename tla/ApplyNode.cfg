CONSTANTS
  Origin = {1, 2}
  World <- ThreeWrites
  Rank <- Ranks
  Update <- Second
  Counter <- ThreeWrites
  Cap = 1
  MaxFaults = 1
SPECIFICATION Spec
INVARIANTS
  TypeOK
  ClockCovers
  RowReflects
  CountedOnce
\* A finite set of changesets: the node stops when it has applied them all.
CHECK_DEADLOCK FALSE
