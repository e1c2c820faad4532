SPECIFICATION Spec
CONSTANTS
  ann = ann
  bob = bob
  cat = cat
  nobody = nobody
  pidgey = pidgey
  gastly = gastly
  noMon = noMon
  Trainers <- MCTrainers
  NoTrainer = nobody
  Species <- MCSpecies
  NoMon = noMon
  Moves <- MCMoves
  FullHP <- MCFullHP
  Teams <- MCTeams
  Rolls <- MCRolls
  TeamSize = 2
  MaxStage = 1
  MaxTurns = 5
INVARIANTS
  TypeOK
  DefeatDecidesBattle
  MoverCanAttack
  VersionCountsUpdates
  LogOutgrowsVersion
  VerdictsAgree
  LegalTurnsOffered
PROPERTIES
  NothingHeals
  OnlyConfusionHurtsItsOwn
  ImplementsDuel
SYMMETRY MCSymmetry
CHECK_DEADLOCK FALSE
