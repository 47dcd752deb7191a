SPECIFICATION Spec
CONSTANTS
  a = a
  b = b
  c = c
  NoDevice = NoDevice
  Devices = {a, b, c}
  TotalShares = 4
  Owner <- OwnerABBC
  Kind = "SignPdf"
  Threshold = 3
  Protocol = "Gg18"
  KeyType = "SignPdf"
  LastRound = 2
  MaxAttempts = 2
  MaxGroups = 4
  FinalOutcomes = {"value", "none", "panic"}
  ValidInput = TRUE
INVARIANTS
  TypeOK
  RestartKeepsPhase
  RecoveredCommunicator
  RoundsAgree
PROPERTIES
  KeepsPromise
