SPECIFICATION Spec
CONSTANTS
  N = 3
  MaxAttempts = 2
  Limit = 1
  Perils = {"refuse", "ambiguous", "api_crash", "operator", "coincide", "outage", "attempt_lost", "overrun"}
  MaxPerils = 2
INVARIANTS OutputsAreCharged
PROPERTIES KeepsPromise RunEnds
CHECK_DEADLOCK FALSE
