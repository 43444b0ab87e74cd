SPECIFICATION Spec
CONSTANTS
  room1 = room1
  msg1 = msg1
  msg2 = msg2
  att1 = att1
  att2 = att2
  c1 = c1
  c2 = c2
  In <- InOne
  On <- OnOwn
  Room = {room1}
  Message = {msg1, msg2}
  Att = {att1, att2}
  Image = {}
  Caller = {c1}
  Window = 1
  Batch = 1
  MaxClock = 2
  MaxCopies = 1
  MaxCrash = 0
  Kinds = {"upload"}
PROPERTY OnlyExpiredGo
CHECK_DEADLOCK FALSE
