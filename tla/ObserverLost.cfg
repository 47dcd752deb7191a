SPECIFICATION Spec
CONSTANTS
  Devices = {a, b, c}
  Suites <- DecryptSuite
  MaxShares = 1
  MaxTasks = 2
  NoDevice = NoDevice
INVARIANTS
  CreatorObserves
