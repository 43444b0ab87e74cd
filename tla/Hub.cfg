SPECIFICATION SocketsSpec
CONSTANTS
  c1 = c1 c2 = c2 c3 = c3 u1 = u1
  s1 = s1 s2 = s2 t1 = t1 t2 = t2 m1 = m1 m2 = m2 m3 = m3
  None = None
  Conn = {c1, c2, c3}
  User = {u1}
  Session = {s1, s2}
  Token = {t1, t2}
  BypassActor = None
  Ending = {s1, s2, t1, t2}
  Upgrades <- AllUpgrades
  Msg = {m1, m2, m3}
  Audience <- TwoTargeted
  SendBuffer = 1
CONSTRAINT OneScene
VIEW SocketsView
SYMMETRY ConnSymmetry
INVARIANTS RegistryHolds SweptIsCovered OnlyTheGoneAreRevoked VerdictIsFinal TargetedOrderAgrees
CHECK_DEADLOCK FALSE
