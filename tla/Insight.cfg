\* In turn: one order of two units with its courier and returns; two orders and
\* two manifests; four orders in four days; two forecasts; three courier
\* accounts; three parcels; two windows and one order.
SPECIFICATION InsightStories
CONSTANTS
  o1 = o1  o2 = o2  m1 = m1  m2 = m2
  Order = {o1, o2}
  Units <- TwoAndOne
  Total <- Paid
  Manifest = {m1, m2}
  Providers = {"manual", "simulator", "biteship"}
  Reports = {"LABEL_READY", "IN_TRANSIT", "FAILED_DELIVERY", "DELIVERED", "RETURNED_TO_SENDER", "CANCELLED"}
  None = None
  MaxReports = 2
  MaxReturns = 3
  Sizes = {1, 10}
  Price = 1
  MinHistory = 3
  MinDays = 2
  Busy = 5
  Repeats = 3
  Arrivals = {1, 6}
  MaxOrders = 4
  MaxDaily = 7
  MaxTime = 10
  worker = worker  hand = hand  mug = mug  cup = cup  jne = jne
  Ware = {mug, cup}
  Builder = {worker, hand}
  Worker = worker
  Weight <- Weights
  Levels = {0, 2, 9}
  LeadTime = 2
  WarnAtMost = 1
  Horizon = 8
  MaxSales = 2
  Account = {acc1, acc2, acc3}
  Carrier = {jne, jnt}
  City = {near, far}
  Duration = {1, 3}
  Cost = {1, 2}
  MinCity = 2
  MaxParcels = 3
  order1 = order1  left = left  right = right  
  Window = {left, right}
  Spoken = {order1}
  Unnamed = Unnamed
  Saying <- Sayings
  Rights <- RightsSeen
  Remembered = 2
  MaxRounds = 2
  MaxMessages = 4
INVARIANTS InsightTypeOK OrderLeavesWithParcel ManifestTakesAll OneOpenReturn NothingComesBackTwice FindingsHold ForecastsHold CouriersHold CommandsAreAccountedFor CommandsTakeEffectOnce ConversationIsKept
CHECK_DEADLOCK FALSE
