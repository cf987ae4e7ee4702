\* What the bins hold against the stock on hand.
SPECIFICATION Spec
CONSTANTS
  b1 = b1  b2 = b2  s1 = s1  c1 = c1  c2 = c2
  Bin = {b1, b2}
  WalkRank <- Walk
  IdRank <- Ids
  Sku = {s1}
  NumOrders = 1
  Need <- TwoAndOnes
  Scanner = {c1}
  Inbound = {d1}
  Count = {}
  None = None
  Quantities = {1}
  Reasons = {"LOST", "DAMAGED"}
  MaxUnits = 2
  MaxTasks = 3
INVARIANTS BinsWithinStock
CHECK_DEADLOCK FALSE
