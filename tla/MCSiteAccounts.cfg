SPECIFICATION Spec
CONSTANTS
  v1 = v1
  v2 = v2
  p1 = p1
  p2 = p2
  Visitor = {v1, v2}
  Password = {p1, p2}
  NoPassword = NoPassword
  Form <- Forms
  Answer = {"manifest"}
  SourceOf <- Manifest
  Limit = 1
  Window = 1
  Ttl = 1
  MaxTime = 1
  MaxVersion = 1
  MaxEvent = 3
  MaxVerifier = 3
  MaxLink = 3
  LinkLife = 1
INVARIANTS
  TypeOK
  LimitHolds
  ServedRecently
  SessionKnowsPassword
  OldLinksWriteNothing
  WelcomedIsWhole
SYMMETRY Symmetric
CHECK_DEADLOCK FALSE
