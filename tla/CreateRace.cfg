SPECIFICATION Spec
CONSTANTS
  Clients = {c1}
  MaxVersion = 2
INVARIANTS
  PersistReturns
