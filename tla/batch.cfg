SPECIFICATION Spec
CONSTANTS
  N = 3
  MaxInFlight = 2
  Perils = {"refuse", "ambiguous", "api_crash", "no_outcome", "not_started", "stray", "outage", "operator"}
  MaxPerils = 2
INVARIANTS BatchAgrees
PROPERTIES ClosedForGood ItemsKeepContract BatchEnds
CHECK_DEADLOCK FALSE
