SPECIFICATION Spec
CONSTANTS
  Users = {u1}
  Devices = {d1, d2}
  Requests = {q1, q2}
  Challenges = {c1}
  Resets = {t1}
  Roles = {"EMPLOYEE", "ADMIN"}
  MfaRoles = {"ADMIN"}
  RecoveryCodes = {k1}
  DeviceLimits = {1, 2}
  NoUser = NoUser
  NoDevice = NoDevice
  NoChallenge = NoChallenge
  NoCode = NoCode
  MaxEvents = 2
  MaxSecret = 1
  MaxCounter = 1
SYMMETRY Symmetry
VIEW View
INVARIANTS SessionsEnd OneSessionPerCode FactorHolds
CHECK_DEADLOCK FALSE
