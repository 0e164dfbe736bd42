SPECIFICATION Spec
CONSTANTS
  own = own
  gm = gm
  player = player
  hero = hero
  r1 = r1
  r2 = r2
  Nobody = Nobody
  Account = {own, gm, player}
  Character = {hero}
  OwnerOf <- MCOwnerOf
  InitialLevel <- MCInitialLevel
  Request = {r1, r2}
  MayRun <- MCMayRun
  GrantLevels = {0, 4}
  ConsoleLevels = {0}
  MaxCred = 1
INVARIANTS
  TypeOK
  SaveDiscardsNothing
  EffectsTraced
  LoggedChangeWasMade
  OwnersFromConsoleOnly
CHECK_DEADLOCK FALSE
