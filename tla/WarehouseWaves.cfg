\* Two scanners in one wave.
SPECIFICATION Spec
CONSTANTS
  b1 = b1  b2 = b2  s1 = s1  c1 = c1  c2 = c2
  Bin = {b1, b2}
  WalkRank <- Walk
  IdRank <- Ids
  Sku = {s1}
  NumOrders = 2
  Need <- Ones
  Scanner = {c1, c2}
  Inbound = {}
  Count = {}
  None = None
  Quantities = {1}
  Reasons = {}
  MaxUnits = 2
  MaxTasks = 2
INVARIANTS WaveTellsOpenTasks
CHECK_DEADLOCK FALSE
