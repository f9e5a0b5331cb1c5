SPECIFICATION FairBoth
CONSTANTS
    WatchCount = 2
    Jobs = {daily, requested}
    daily = daily
    requested = requested
    Forced = {requested}
    MaxVersion = 2
    MaxForced = 1
    MaxMishaps = 1
    Runs = {1, 2}
    DeadThreads = {1}
    Contested = {2}
    Env = {}
INVARIANT SeenWasStaged
PROPERTIES
    ChangesAreStaged
    DecisionIsTaken
