SPECIFICATION MobileSpec
CONSTANTS
  b1 = b1
  BattleIds = {b1}
  NoId = NoId
  TapCalls = {t1}
  WatchCalls = {w1}
  Entries = {2}
  MaxVersion <- MCMaxVersion
PROPERTIES
  OpponentsMoveAppears
