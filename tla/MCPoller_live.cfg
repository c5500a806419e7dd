\* Whole lines, two files, under fairness.
SPECIFICATION FairSpec
CONSTANTS
  Files = {f1, f2}
  Messages = {m1, m2}
  MaxSeen = 3
  TornWrites = FALSE
  MaxWrites = 2
  MaxTruncates = 0
  MaxErrors = 1
PROPERTIES StopReturns EventuallyHandled
CHECK_DEADLOCK FALSE
