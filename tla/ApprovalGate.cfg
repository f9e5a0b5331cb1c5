SPECIFICATION Spec
CONSTANTS
    Runs = {1}
    DeadThreads = {}
    Contested = {1}
    Env = {"reply", "manual", "early", "crash", "saveFails", "publishFails", "pollFails"}
INVARIANT LeavesPendingForGood
PROPERTIES
    ImplementsGate
    NoPublishAfterDiscard
    FailureStopsRetries
