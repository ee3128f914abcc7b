SPECIFICATION Spec
CONSTANTS
  Pins = {p1}
  Exchanges = {e1}
  ConnsPerPin = 1
  Scopes = {1}
  MaxAttempts = 2
  MaxWindows = 1
INVARIANT
  RevokedNotServed
