SPECIFICATION Spec
CONSTANTS
  Users = {alice, bob}
  None = None
  Slots = {s1, s2}
  MaxRequests = 4
SYMMETRY Symmetry
INVARIANT TypeOK
INVARIANT RotationSpends
INVARIANT SpentTokensRefused
INVARIANT InactiveGetNothing
