SPECIFICATION Spec
CONSTANTS
  Pins = {p1}
  Exchanges = {e1, e2}
  ConnsPerPin = 2
  Scopes = {1, 2}
  MaxAttempts = 2
  MaxWindows = 2
SYMMETRY ExchangeSymmetry
INVARIANTS
  ScopeAuthorized
  GuessesBounded
  LiveOnlyIfPaired
  RevokedStaysOut
