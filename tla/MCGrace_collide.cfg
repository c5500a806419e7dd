\* Three Schedule calls with the same id, one Cancel and one Stop.
SPECIFICATION Spec
CONSTANTS
  c1 = c1
  c2 = c2
  c3 = c3
  a = a
  b = b
  k1 = k1
  None = None
  Calls = {c1, c2, c3}
  Ids = {a}
  IdOf <- CollidingIdOf
  Cancels = {k1}
  CancelId <- CancelOfA
INVARIANTS TypeOK ClosedAtMostOnce
PROPERTIES ImplementsContract
SYMMETRY CallSymmetry
CHECK_DEADLOCK FALSE
