SPECIFICATION TabsSpec
CONSTANTS
  c1 = c1 c2 = c2 u1 = u1 s1 = s1 t1 = t1
  None = None
  Conn = {c1, c2}
  User = {u1}
  Session = {s1}
  Token = {t1}
  BypassActor = None
  Ending = {s1, t1}
  Upgrades <- TabUpgrades
PROPERTY DeadSocketsClose
CHECK_DEADLOCK FALSE
