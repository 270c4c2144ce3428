SPECIFICATION Spec
CONSTANTS
  n1 = n1
  n2 = n2
  r1 = r1
  r2 = r2
  Node = {n1, n2}
  Row = {r1, r2}
  Value = {"v"}
  Starts <- Apart
  Ttl = 1
  Drain = 4
  Quarantine = 4
  Grace = 4
  Lag = 1
  MaxStall = 0
  MaxRenew = 0
  Cadence = 1
  MaxGen = 3
  MaxTxn = 2
  MaxFaults = 1
PROPERTY NoSecondHolderDespiteHandoff
CHECK_DEADLOCK FALSE
