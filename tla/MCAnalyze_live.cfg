\* Two messages, of a session and of clients without a session key, under fairness.
SPECIFICATION FairSpec
CONSTANTS
  main = main
  other = other
  tgMain = tgMain
  tgOther = tgOther
  promise = promise
  done = done
  finished = finished
  o1 = o1
  r1 = r1
  r2 = r2
  NoTag = NoTag
  Requests = {r1, r2}
  OldBeads = {o1}
  Beads = {r1, r2, o1}
  Sessions = {main, other}
  EmptyKey = {other}
  TagOf <- EmptyTag
  LowerTag <- EmptyTag
  OldTag <- TaggedOther
  Messages = {promise, done}
  Promises = {promise}
  Indicating = {done}
  Fulfils <- OnlyDone
  WindowSize = 2
  DryRuns = {FALSE, TRUE}
PROPERTIES DryRunIsSilent EventuallyReported
CHECK_DEADLOCK FALSE
