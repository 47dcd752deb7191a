SPECIFICATION Spec
CONSTANTS
  a = a
  b = b
  c = c
  NoDevice = NoDevice
  Devices = {a, b}
  TotalShares = 3
  Owner <- OwnerABB
  Kind = "Group"
  Threshold = 2
  Protocol = "Frost"
  KeyType = "SignChallenge"
  LastRound = 2
  MaxAttempts = 2
  MaxGroups = 4
  FinalOutcomes = {"value"}
  ValidInput = TRUE
INVARIANTS
  HydrationSucceeds
