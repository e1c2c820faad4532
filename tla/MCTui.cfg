SPECIFICATION TuiSpec
CONSTANTS
  b1 = b1
  b2 = b2
  BattleIds = {b1, b2}
  NoId = NoId
  Entries = {1}
  MaxVersion <- MCMaxVersion
  Cmds = {c1, c2}
  MaxMisses = 2
INVARIANTS
  BattleIsPolled
  BattleScreenHasBattle
PROPERTIES
  NewestIsShown
