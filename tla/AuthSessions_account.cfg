SPECIFICATION Spec
CONSTANTS
  Sessions = {s1, s2}
  NoSession = NoSession
  Codes = {1, 2}
  Purposes = {"login", "password_reset"}
  MaxAttempts = 1
  Calls = {c1, c2}
SYMMETRY Symmetry
INVARIANTS TypeOK OneSuccessor ResetNeedsCode
PROPERTY Chains
