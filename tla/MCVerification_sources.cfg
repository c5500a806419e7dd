\* Two promises, a cron job, a file, a bead of another tool, a restart.
SPECIFICATION Spec
CONSTANTS
  p1 = p1
  p2 = p2
  c1 = c1
  f1 = f1
  x1 = x1
  Promises = {p1, p2}
  OtherBeads = {x1}
  Beads = {p1, p2, x1}
  Undated = {x1}
  Crons = {c1}
  CronFlags <- Flags
  Files = {f1}
  LabelModes = {"ignores"}
  TicksPerSecond = 2
  MaxTime = 1
  DryRuns = {FALSE}
  MaxRestarts = 1
  MaxChanges = 2
INVARIANTS NothingOverlooked AccountedFor
PROPERTY NoSelfSatisfaction
SYMMETRY PromiseSymmetry
CHECK_DEADLOCK FALSE
