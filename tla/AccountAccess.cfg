SPECIFICATION Spec
CONSTANTS
  r1 = r1
  r2 = r2
  v1 = v1
  v2 = v2
  v3 = v3
  g1 = g1
  Requests = {r1, r2}
  RegisterCodes = {v1}
  LoginCodes = {v2}
  SecurityCodes = {v3}
  Grants = {g1}
  MaxGuesses = 2
  MaxSessions = 3
  MaxPasswords = 2
  NoCode = NoCode
  NoGrant = NoGrant
SYMMETRY Symmetry
INVARIANTS
  SessionsAreCurrent
  CodeDoesOneThing
  OneLockOrder
PROPERTIES
  ActsAtomically
