SPECIFICATION FairSpec
CONSTANTS
  a = a
  b = b
  c = c
  active_shares <- SharesABBC
  index_offset = 1
  last_round = 3
  MaxSlow = 1
  MaxFaults = 2
INVARIANTS
  TypeOK
  RoundIntegrity
  RelayComplete
  AgreedResult
  SignatureFits
  Underway
  OnTrackMoves
PROPERTIES
  StaysOnTrack
  Terminates
