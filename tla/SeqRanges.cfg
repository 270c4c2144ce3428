CONSTANT MaxSeq = 7
SPECIFICATION Spec
INVARIANTS
  TypeOK
  Canonical
  RangesMeanSets
  MissingExact
  RemainderExact
