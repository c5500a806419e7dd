\* Two requests, a Shutdown and two signals.
SPECIFICATION FairSpec
CONSTANTS
  Requests = {r1, r2}
  Shutdowns = {s1}
  MaxSignals = 2
INVARIANTS TypeOK LateOnlyIfUnwaited FirstSignalIsGraceful
PROPERTY EventuallyEnds
CHECK_DEADLOCK FALSE
