SPECIFICATION FairSpec
CONSTANTS
  Runs = {r1}
  Limit = 2
  Releases = {d1, d2}
  Subscribed = {"job.completed", "job.failed"}
  Perils = {"rerun", "delete", "refuse", "ambiguous", "api_crash", "outage", "coincide", "abandon", "abort", "wall_abort", "minio"}
  MaxPerils = 2
INVARIANTS CompletedIsCharged ChargedIsStored CounterCoversLedger OutcomeAnnounced EndedRunIsStopped NoOrphans
PROPERTIES ContractHolds RunEnds
CHECK_DEADLOCK FALSE
