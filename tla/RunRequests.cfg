SPECIFICATION FairBoth
CONSTANTS
    Keys = {a, b, c}
    a = a
    b = b
    c = c
    SameKey = {{a, b}}
    All = All
    Commands = {h1, h2}
    h1 = h1
    h2 = h2
    Listed = {c}
    Edited = {a, b}
    Asked = {a, All}
    Together = {{a}}
    MaxMishaps = 1
    Names = {1, 2}
    MaxStops = 2
PROPERTIES
    NeverRerun
    DropsOnlyDeleted
    FinishRanAll
    QueueDrains
    SettledOnce
    RequestsSettle
