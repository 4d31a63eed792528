SPECIFICATION Spec
CONSTANTS
    long = long
    short = short
    other = other
    Scrapes <- ScrapesOf
    Run <- RunOf
    Attempts = 2
    Queue = 1
    Backoff = 1
    Margin = 4
    Answer = 1
    Limit = 2
    Interval = 1
    BusyPoll = 1
    PollMax = 2
    WaitCap = 3
    MaxPerils = 1
SYMMETRY Symmetric
INVARIANTS LeasesFollowScrapes WaitsToTheCap
