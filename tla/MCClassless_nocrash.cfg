SPECIFICATION Spec
CONSTANTS
  Player = {p1}
  n1 = n1
  n2 = n2
  t1 = t1
  s1 = s1
  s2 = s2
  Tree = {t1}
  Node = {n1, n2}
  Spell = {s1, s2}
  NoNode = NoNode
  TreeOf <- OneTree
  SpellOf <- TwinSpells
  Requires <- TwinRequires
  Costs = {1}
  ReqLevels = {1}
  MaxLevel = 2
  MaxMoney = 1
  Configs <- AnyConf
  Disturbances = {"toggle", "retune"}
  MaxQueue = 2
INVARIANTS TypeOK BookComplete ChargedOncePerSpell
