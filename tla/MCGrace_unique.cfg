\* Two Schedule calls with ids of their own, one Cancel and one Stop.
SPECIFICATION FairSpec
CONSTANTS
  c1 = c1
  c2 = c2
  c3 = c3
  a = a
  b = b
  k1 = k1
  None = None
  Calls = {c1, c2}
  Ids = {a, b}
  IdOf <- UniqueIdOf
  Cancels = {k1}
  CancelId <- CancelOfA
INVARIANTS NoOrphan
PROPERTIES StopCancelsAll EventuallyReported
CHECK_DEADLOCK FALSE
