SPECIFICATION FairSpec
CONSTANTS
    Runs = {1, 2}
    DeadThreads = {1}
    Contested = {}
    Env = {"reply"}
PROPERTY EveryDecisionIsTaken
