SPECIFICATION FairSpec
CONSTANTS
  room1 = room1
  msg1 = msg1
  msg2 = msg2
  att1 = att1
  att2 = att2
  c1 = c1
  c2 = c2
  In <- InOne
  On <- OnOne
  Room = {room1}
  Message = {msg1}
  Att = {att1}
  Image = {}
  Caller = {c1}
  Window = 1
  Batch = 1
  MaxClock = 2
  MaxCopies = 1
  MaxCrash = 1
  Kinds = {"upload", "remove", "move"}
INVARIANT NoSilentOrphan
PROPERTIES DeletionsAreTimely PromisesAreKept
CHECK_DEADLOCK FALSE
