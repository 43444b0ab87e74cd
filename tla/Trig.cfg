SPECIFICATION HeardSpec
CONSTANTS
  atOnce = atOnce
  windowed = windowed
  w1 = w1 u1 = u1 u2 = u2 k1 = k1 k2 = k2
  None = None
  Members = {u1, u2}
  Watchers = {u2}
  Admins = {u1}
  Calls = {k1, k2}
  MaxMessages = 3
  MaxBody = 2
  MaxInbox = 1
  PageSize = 1
  PageMax = 2
  Scenes = {"rules", "joining", "following", "reacting"}
  Writer = {w1}
  MaxId = 2
  Batch = 2
  MaxBreaks = 2
  Rule = {atOnce, windowed}
  Windowed = {windowed}
  Matching <- AllMatch
  SeenCap = 1
  MaxEdits = 2
CONSTRAINT OneScene
INVARIANTS MatchesAccounted NobodyRunsOnStaleRules ThreadIsWhole
CHECK_DEADLOCK FALSE
PROPERTY OutboxSpec
