SPECIFICATION FairSpec
CONSTANTS
  GoObjs = {x1}
  Threads = {t1, t2}
  Plain = {o1}
  Proxies = {p1}
  Classes = {c1}
  Refs = {r1}
  None = None
  Free = Free
  GoMin <- MCGoMin
  JavaMax <- MCJavaMax
  Tracked <- MCTracked
PROPERTIES
  CrossingsEnd
  QueuesDrain
