\* Lines written in two goes.
SPECIFICATION FairSpec
CONSTANTS
  Files = {f1}
  Messages = {m1}
  MaxSeen = 2
  TornWrites = TRUE
  MaxWrites = 1
  MaxTruncates = 0
  MaxErrors = 0
PROPERTY EventuallyHandled
CHECK_DEADLOCK FALSE
