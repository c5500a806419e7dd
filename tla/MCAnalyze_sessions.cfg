\* Three messages of two sessions, a window of two, one bead without a session.
SPECIFICATION Spec
CONSTANTS
  main = main
  other = other
  tgMain = tgMain
  tgOther = tgOther
  promise = promise
  done = done
  finished = finished
  o1 = o1
  r1 = r1
  r2 = r2
  r3 = r3
  NoTag = NoTag
  Requests = {r1, r2, r3}
  OldBeads = {o1}
  Beads = {r1, r2, r3, o1}
  Sessions = {main, other}
  EmptyKey = {}
  TagOf <- PlainTag
  LowerTag <- PlainTag
  OldTag <- Untagged
  Messages = {promise, done, finished}
  Promises = {promise}
  Indicating = {done}
  Fulfils <- DoneFulfils
  WindowSize = 2
  DryRuns = {FALSE}
INVARIANTS TypeOK ClosedWithCause ResolvedIsClosed
SYMMETRY SessionSymmetry
CHECK_DEADLOCK FALSE
