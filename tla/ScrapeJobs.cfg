SPECIFICATION Spec
CONSTANTS
    MaxRuns = 2
    Ages = {"u15", "u17", "senior"}
    Genders = {"men", "women"}
    Classes = {"60", "60+"}
    Lifts = {"snatch", "total"}
    FullSize = 6
    Expected = 2
    TopRows = 5
    MinClasses = 9
    AdultAges = {"senior"}
    MinShrinkAllowed = 2
    ByHand = {"flat"}
    Groups = {"worlds", "pan-ams"}
    Entries = {"first", "second"}
    Meets = {"open", "cup"}
    LookAhead = 7
    MaxPages = 10
    Years = {1, 2}
    Ids = {"e1", "e2", "e3"}
    Lifters = {"ann", "bob"}
    NumEvents = 2
    FirstRows = 10
    LookBack = 3
    MisprintedSession = 44
    WsoMeets = {"state"}
    YouthMeets = {"youth"}
    JuniorMeets = {"junior"}
    NationalMeets = {"nats"}
    UmwfMeets = {"umwf"}
    FinalsMeets = {"finals"}
    AdaptiveMeets = {"junior"}
INVARIANTS
    ReadsBack
    SlackHearsWhatChanged
    StoredAsListed
    RightSession
    AthleteOnce
PROPERTIES
    RerunIsQuiet
    BrokenPartDeletesNothing
    ListedGroupsStay
    AssignmentKept
CHECK_DEADLOCK FALSE
