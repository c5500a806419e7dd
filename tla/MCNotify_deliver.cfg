\* Three notifications on two channels, and a list of failures that is cut at five.
SPECIFICATION Spec
CONSTANTS
  Notices = {n1, n2, n3}
  WebhookOn = TRUE
  RelayOn = TRUE
  MaxRetries = 3
  Retries = 2
  Threshold = 2
  Window = 1
  Cap = 4
  Keep = 2
  MaxTime = 2
INVARIANTS TypeOK DeliveredOrRecorded DuplicateOnlyIfLost ReadyIsRight
SYMMETRY NoticeSymmetry
CHECK_DEADLOCK FALSE
