SPECIFICATION ServiceSpec
CONSTANTS
  Names = {ash, misty}
  Tokens = {t1, t2}
  NoToken = NoToken
  Ids = {b1, b2}
  NoId = NoId
  Unissued = Unissued
  Swept = Swept
  Requests = {r1, r2}
  BattleTTL = 0
  WaitingTTL = 1
  TrainerTTL = 1
  BatchSize = 1
INVARIANT TrainersInBattleKept
SYMMETRY MCSymmetry
