\* Three lines and beads altogether, of which the arguments name one.
SPECIFICATION Spec
CONSTANTS
  Lines <- MCLines
  WindowSize = 3
  MinConfidence = 70
  Beads = {"b1", "b2"}
  SessionKeys = {"", "Agent:Main"}
  TagOf <- Tags
  KeyIn <- Keys
  NoTag = "no tag"
  ExtraTags <- MCExtraTags
  OtherTags <- MCOtherTags
  Lower <- MCLower
  Rank <- MCRank
  Statuses = {"open", "closed", "resolved", "backed"}
  Tokens = {"--dry-run", "--config", "--config=why", "--config=", "--reason", "b1", "why"}
  ConfigIn <- MCConfigIn
  MaxArgs = 3
  DryConfigs = {"why"}
  MaxEvents = 3
INVARIANTS ScanFilters  ReportsAgree
PROPERTIES StaysFulfilled DryRunWins
CHECK_DEADLOCK FALSE
