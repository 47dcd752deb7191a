SPECIFICATION FaultySpec
CONSTANTS
  a = a
  b = b
  c = c
  NoDevice = NoDevice
  Devices = {a, b}
  TotalShares = 3
  Owner <- OwnerABB
  Kind = "Group"
  Threshold = 2
  Protocol = "Frost"
  KeyType = "SignChallenge"
  LastRound = 1
  MaxAttempts = 1
  MaxGroups = 3
  FinalOutcomes = {"value", "none", "panic"}
  ValidInput = TRUE
PROPERTIES
  NeverVotesAgain
