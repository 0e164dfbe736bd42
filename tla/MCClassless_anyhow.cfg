SPECIFICATION FairSpec
CONSTANTS
  Player = {p1}
  n1 = n1
  n2 = n2
  t1 = t1
  s1 = s1
  s2 = s2
  Tree = {t1}
  Node = {n1, n2}
  Spell = {s1, s2}
  NoNode = NoNode
  TreeOf <- OneTree
  SpellOf <- ChainSpells
  Requires <- ChainRequires
  Costs = {1}
  ReqLevels = {1}
  MaxLevel = 1
  MaxMoney = 0
  Configs <- AnyConf
  Disturbances = {"crash", "toggle", "retune"}
  MaxQueue = 2
INVARIANTS FoundationHeld CacheBackedByDatabase
PROPERTIES PurchaseReachesDatabase
