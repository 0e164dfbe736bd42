SPECIFICATION Spec
CONSTANTS
  r1 = r1
  r2 = r2
  chrome = chrome
  Request = {r1, r2}
  Browser = {chrome}
  BrowserOf <- OneBrowser
  MaxSession = 1
  MaxSecret = 2
  MaxStep = 2
  MaxFailures = 2
  LoginAttempts = 1
INVARIANTS
  TypeOK
  GuessesLimited
PROPERTIES
  CodeSpentOnce
  RevokedStaysDead
SYMMETRY Symmetric
CHECK_DEADLOCK FALSE
