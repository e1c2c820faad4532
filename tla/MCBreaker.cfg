SPECIFICATION BreakerSpec
CONSTANTS
  Callers = {c1, c2, c3}
  MinRequests = 2
  FailPercent = 50
  Window = 1
  Cooldown = 1
  Retries = 1
  MaxHeld = 3
INVARIANTS
  SlotHasProbe
  PostSentOnce
PROPERTIES
  GivingUpProvesNothing
  NeverWedged
