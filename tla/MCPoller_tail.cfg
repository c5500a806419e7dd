\* Two files, torn writes, a truncation, a failed read, a window of two fingerprints.
SPECIFICATION Spec
CONSTANTS
  Files = {f1, f2}
  Messages = {m1, m2, m3}
  MaxSeen = 2
  TornWrites = TRUE
  MaxWrites = 3
  MaxTruncates = 1
  MaxErrors = 1
INVARIANTS NoHistory RepeatsAreFarApart WindowConsistent
PROPERTY QuietAfterStop
SYMMETRY PollerSymmetry
CHECK_DEADLOCK FALSE
