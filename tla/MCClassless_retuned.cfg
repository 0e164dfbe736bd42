SPECIFICATION Spec
CONSTANTS
  Player = {p1}
  n1 = n1
  n2 = n2
  t1 = t1
  s1 = s1
  s2 = s2
  Tree = {t1}
  Node = {n1, n2}
  Spell = {s1, s2}
  NoNode = NoNode
  TreeOf <- OneTree
  SpellOf <- ChainSpells
  Requires <- ChainRequires
  Costs = {1, 2}
  ReqLevels = {1}
  MaxLevel = 1
  MaxMoney = 1
  Configs <- Retuned
  Disturbances = {"retune"}
  MaxQueue = 1
INVARIANTS NothingForFree
PROPERTIES ImplementsLedger
