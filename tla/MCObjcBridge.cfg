SPECIFICATION Spec
SYMMETRY MCSymmetry
CONSTANTS
  GoObjs = {x1, x2}
  Threads = {t1, t2}
  Plain = {o1}
  Boxes = {b1, b2}
  Refs = {r1, r2}
  None = None
  Free = Free
  GoMin <- MCGoMin
  ObjcMax <- MCObjcMax
  Tracked <- MCTracked
INVARIANTS
  TypeOK
  TablesOK
PROPERTY
  PinsWhileHeld
