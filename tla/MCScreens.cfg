SPECIFICATION ScreensSpec
CONSTANTS
  b1 = b1
  BattleIds = {b1}
  NoId = NoId
  TapCalls = {t1, t2}
  WatchCalls = {w1}
  Entries = {2}
  MaxVersion <- MCMaxVersion
  PageMisses = 2
INVARIANTS
  WatchingHasWatch
  PicksAreFresh
PROPERTIES
  BusyEnds
  PageMovesForward
  PageShowsNewest
