SPECIFICATION Spec
CONSTANTS
  Devices = {a, b}
  Suites <- SomeSuites
  MaxShares = 2
  MaxTasks = 2
  NoDevice = NoDevice
SYMMETRY DeviceSymmetry
INVARIANTS
  TypeOK
  TasksRunnable
  ParticipantsKnown
  SameVote
  ListedWhole
