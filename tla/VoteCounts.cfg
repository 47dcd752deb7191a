SPECIFICATION Spec
CONSTANTS
  Devices = {a, b, c}
  ShareCounts = {1, 127, 128, 129, 256}
  Thresholds = {1, 2, 128, 255}
INVARIANTS
  CountsShares
  RestartSameOutcome
CHECK_DEADLOCK FALSE
