\* One order, two events, a bus that may fail once.
SPECIFICATION MCSpec
CONSTANTS
  o1 = o1  f1 = f1  f2 = f2  c1 = c1
  Order = {o1}
  MaxEvents = 2
  Fact = {}
  Daily = {}
  MaxDay = 0
  Channel = {}
  Choices = {}
  EventType = {"order.status_changed"}
  Batch = 2
  Backoff = 1
  Retries = 1
  MaxCrashes = 0
  None = None
PROPERTIES PublishedInOrder
CHECK_DEADLOCK FALSE
