\* Five keys in arrays that begin with two entries and double twice.
CONSTANTS
  Keys <- MCKeys
  Objs = {o1, o2}
  Null = Null
  Capacity = 2
  MaxCapacity = 8
SPECIFICATION Spec
INVARIANTS TypeOK Sorted LiveExact
PROPERTIES HalfFree LengthensForLive ImplementsMap
