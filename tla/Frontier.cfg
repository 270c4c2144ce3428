CONSTANTS
  Origin = {o1}
  MaxSeq = 4
  Cap = 2
SPECIFICATION Spec
INVARIANTS
  TypeOK
  AppliedExact
  HeadMaximalUnlessPinned
PROPERTIES
  OnlyEvictionForgets
  ImplementsAppliedSet
