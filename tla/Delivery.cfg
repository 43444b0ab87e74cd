SPECIFICATION DeliverySpec
CONSTANTS
  a = a
  Schedule = {a}
  LastDay = 2
  DayLen = 4
  Horizon = 11
  Wall <- LocalClock
  Tod = {1, 3}
  SlotAt <- LocalSlot
  Pattern <- SomePattern
  Grace = 2
  Outage = 3
  None = None
  u1 = u1 u2 = u2 e1 = e1 e2 = e2 s1 = s1 s2 = s2
  Member = {u1, u2}
  Endpoint = {e1, e2}
  Sender = {s1, s2}
  Workers = 1
  MaxFail = 1
  MaxClock = 2
  MaxId = 2
INVARIANTS AtMostOncePerSlot SlotsKept HeardByItsHolder
PROPERTIES NeverOnSave PrunedForCause
CONSTRAINT OneScene
VIEW DeliveryView
SYMMETRY Alike
CHECK_DEADLOCK FALSE
