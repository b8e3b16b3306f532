CONSTANTS
  Scopes = {s1, s2}
  Charges = {c1, c2, c3}
  Limit = 5
  ReservationBytes = 1
  MaxHandles = 1
  Global = Global
  None = None
SPECIFICATION LedgerSpec
SYMMETRY Symmetry
INVARIANTS
  Conservation
  ScopesAreSettled
PROPERTIES
  ScopeIsolation
  ImplementsQuota
