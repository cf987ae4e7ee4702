\* In turn: two scanners and two orders of one unit, in one wave or two; one order
\* of two units, an inbound document and a cycle count.
SPECIFICATION MCSpec
CONSTANTS
  b1 = b1  b2 = b2  s1 = s1  c1 = c1  c2 = c2
  Bin = {b1, b2}
  WalkRank <- Walk
  IdRank <- Ids
  Sku = {s1}
  NumOrders = 3
  Need <- TwoAndOnes
  Scanner = {c1, c2}
  Inbound = {d1}
  Count = {n1}
  None = None
  Quantities = {1, 2}
  Reasons = {"DAMAGED"}
  MaxUnits = 2
  MaxTasks = 4
SYMMETRY Symmetry
INVARIANTS TypeOK AllocationsMatchTasks BinsHold DoneIsNotEarly
PROPERTIES KeepsPickPromise
CHECK_DEADLOCK FALSE
