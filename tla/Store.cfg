SPECIFICATION FairSpec
CONSTANTS
  Clients = {c1, c2, c3}
  MaxVersion = 3
INVARIANTS
  TypeOK
  SingleCopy
  Exclusive
  Coherent
  NeverTorn
PROPERTIES
  NoLostChange
  ActsAsCell
  EveryRequestReturns
