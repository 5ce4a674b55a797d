SPECIFICATION Spec
CONSTANTS
  Sessions = {s1}
  NoSession = NoSession
  Codes = {1}
  Purposes = {"login", "password_reset"}
  MaxAttempts = 1
  Calls = {c1}
INVARIANT AnsweredResetStays
