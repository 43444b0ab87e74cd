SPECIFICATION MCSpec
CONSTANTS
  u1 = u1
  s1 = s1
  s2 = s2
  c1 = c1
  c2 = c2
  c3 = c3
  NoSession = NoSession
  Owner <- OwnedByOne
  User = {u1}
  Holder = {u1}
  Session = {s1}
  Caller = {c1, c2}
  RoleRefresh = 1
  TTL = 3
  Granularity = 0
  MaxCall = 1
  MaxClock = 3
  Kinds = {"request", "revalidation", "recheck", "logout"}
  MaxVersion = 2
  t1 = t1 t2 = t2 ip1 = ip1 ip2 = ip2 None = None Absent = Absent notes = notes write = write Core = Core
  Poster = {c1, c2}
  Ip = {ip1}
  Member = {u1}
  Token = {t1, t2}
  Module = {notes}
  Tool = {write}
  Publisher <- OfNotes
  Writes = {write}
  AdminTools = {}
  Rate = 1
  Window = 2
  Width = 1
  MaxTokens = 1
  SweepAbove = 1
  Lives = {1}
  TouchEvery = 2
  MaxResult = 6
  NoteLen = 2
  Asked <- AskedOnce
  MaxMinute = 2
  Visitor = {c1, c2}
  Address = {ip1, ip2}
  Account = {u1}
  Attempts = 1
  LoginWindow = 2
  MaxTracked = 2
  MaxNow = 2
  Scenes = {"sessions", "host", "logins"}
INVARIANTS RevokedForCause InUseStaysAlive IdentityIsCurrent RevokedIsTold WithinLimits LoginsAreBounded
CONSTRAINT Bounded
VIEW Seen
SYMMETRY Alike
