SPECIFICATION Spec
CONSTANTS
  fire = fire
  frost = frost
  n1 = n1
  n2 = n2
  arms = arms
  n3 = n3
  hero = hero
  r1 = r1
  Tree <- MCTree
  Node = {n1, n2, n3}
  TreeOf <- MCTreeOf
  Costs = {1, 2}
  Character = {hero}
  Leaders = {hero}
  MaxLevel = 3
  Curve <- MCCurve
  NoCurve = NoCurve
  InitialRows <- MCInitialRows
  Request = {r1}
  CacheTicks = 1
  MaxTime = 2
  MaxChanges = 2
INVARIANTS
  TypeOK
  ShownAsCharged
  HiddenElsewhere
  PageAgreesWithItself
CHECK_DEADLOCK FALSE
