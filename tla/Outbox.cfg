\* One order, a daily fact and one told once, one channel; one lost run.
SPECIFICATION MCSpec
CONSTANTS
  o1 = o1  f1 = f1  f2 = f2  c1 = c1
  Order = {o1}
  MaxEvents = 2
  Fact = {f1, f2}
  Daily = {f1}
  MaxDay = 1
  Channel = {c1}
  Choices = {{"ORDER_STATUS", "ALERT"}}
  EventType = {"order.status_changed", "shipment.status_changed"}
  Batch = 2
  Backoff = 1
  Retries = 1
  MaxCrashes = 1
  None = None
INVARIANTS TypeOK SentIsOut RepeatsOnlyAfterCrash ToldOnce
PROPERTIES EverythingSettles LastingFactIsTold
CHECK_DEADLOCK FALSE
