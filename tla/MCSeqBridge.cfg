SPECIFICATION Spec
SYMMETRY MCSymmetry
CONSTANTS
  GoObjs = {x1}
  Threads = {t1, t2}
  Plain = {o1}
  Proxies = {p1, p2}
  Classes = {c1}
  Refs = {r1, r2}
  None = None
  Free = Free
  GoMin <- MCGoMin
  JavaMax <- MCJavaMax
  Tracked <- MCTracked
INVARIANTS
  TypeOK
  GoCountExact
  JavaCountExact
  TablesOK
  SameObject
  NoUnknownRef
  HeldIsAlive
  MonitorReleased
PROPERTY
  PinsWhileHeld
