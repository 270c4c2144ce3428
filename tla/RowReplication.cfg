CONSTANTS
  Node = {1, 2}
  MaxWrites <- TwoEach
  MaxWall = 2
  BatchMax = 2
SPECIFICATION FairSpec
INVARIANTS
  TypeOK
  ClockCovers
  DotsOrdered
  ClockDescribesContent
  ConvergedUnlessRaced
PROPERTIES
  EventuallyQuiet
\* The application may stop writing.
CHECK_DEADLOCK FALSE
