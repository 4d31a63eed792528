SPECIFICATION FairSpec
CONSTANTS
    a = a
    b = b
    c = c
    d = d
    Urls = {s, a, b, c, d}
    Seed = s
    Links <- Site
    MaxPages = 4
    MaxInFlight = 2
    PagesPerRun = 3
    Limit = 2
    Perils = {"rerun", "delete", "refuse", "ambiguous", "api_crash", "outage", "unheard",
              "late_claim", "minio"}
    MaxPerils = 1
INVARIANTS CountersMatch ChargedIsKept FetchesBounded ClosedForGood
PROPERTIES CrawlEnds
CHECK_DEADLOCK FALSE
