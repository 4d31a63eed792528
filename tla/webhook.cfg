SPECIFICATION FairSpec
CONSTANTS
  d1 = d1
  d2 = d2
  Rows = {d1, d2}
  MaxAttempts = 2
  Backoff <- ScaledBackoff
  Grace = 0
  SweepBatch = 1
  MaxPerils <- OneInPeril
INVARIANTS AcceptedOnce OutcomeEarned SleepMatchesRow
PROPERTIES DeliveredIsFinal PendingEnds
CHECK_DEADLOCK FALSE
