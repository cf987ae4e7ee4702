\* The worker beside one user, with fairness; the worker reads one overdue and retries one waiting order at a time.
SPECIFICATION FairSpec
CONSTANTS
  w1 = w1  w2 = w2  s1 = s1  s2 = s2  c1 = c1  c2 = c2
  Warehouse = {w1}
  Sku = {s1}
  NumOrders = 2
  Need <- OneSku
  SameCity <- Cities
  Code <- Codes
  LockRank <- Ranks
  Request = {c1}
  Worker = Worker
  None = None
  Quantities = {1}
  Reasons = {"FOUND"}
  RetryLimit = 2
  WorkerLimit = 1
  ExpireLimit = 1
  MaxUnits = 2
PROPERTIES DueIsReleased FirstInLineIsServed
