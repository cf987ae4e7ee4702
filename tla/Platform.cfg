\* One tenant: two invoices, three requests to one account, one key, two
\* scans on a device with two tabs, two things of each kind and one import.
SPECIFICATION MCSpec
CONSTANTS
  a = a  b = b  u1 = u1  u2 = u2  w1 = w1  w2 = w2
  monthly = monthly
  c1 = c1  c2 = c2  c3 = c3
  Offer = {monthly, yearly}
  Months <- OneMonth
  Contract = {}
  Trial = 0
  Grace = 1
  Notice = 1
  Invoices = 2
  OverrideTo = {"ACTIVE"}
  MaxAhead = 3
  Null = Null
  Caller = {c1, c2, c3}
  Tokens = 3
  MaxFailed = 2
  MaxVersion = 1
  Nobody = Nobody
  Sender = {s1, s2}
  Body = {x, y}
  MaxMade = 3
  Nothing = Nothing
  Scan = {scan1, scan2}
  Tab = {t1, t2}
  Hand = Hand
  Forgotten = Forgotten
  Item = {a, b, u1, u2, w1, w2}
  KindOf <- Kinds3
  Limit <- OneOfEach
  Editor = {e1, e2}
  Job = {j1}
  Noone = Noone
INVARIANTS PlatformTypeOK InvoicesHold RefreshTokensHold OldAccessEnds AttemptsAreCounted KeyHolds ScansHold CatalogHolds
PROPERTIES MoneyIsCredited GraceEnds
CHECK_DEADLOCK FALSE
