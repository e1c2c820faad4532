SPECIFICATION PgSpec
CONSTANTS
  ann = ann
  bob = bob
  NoPlayer = NoPlayer
  NoBattle = NoBattle
  Players <- MCPlayers
  Requests = {r1, r2}
  Sweeps = {w1}
  MaxVersion = 4
  MaxRetries = 2
INVARIANTS
  PgTypeOK
  PendingIsRunning
PROPERTIES
  ImplementsAtomic
  EveryCallAnswered
