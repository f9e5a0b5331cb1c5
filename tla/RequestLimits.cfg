SPECIFICATION SpecAll
CONSTANTS
    Requests = {p, q}
    Keys = {}
    Addresses = {a, b, c}
    Overflow = {o}
    Nobody = Nobody
    MaxTracked = 1
    Burst = 5
    PerSecond = 4
    MaxInFlight = 1
    KeyIds = {k, l}
    Sessions = {s, t, u, v}
    Cap = 2
SYMMETRY Symmetric
INVARIANTS
    AnswersArePaid
    MapIsBounded
    SlotsComeBack
    ThrottledOnlyForNews
    CapNearlyHolds
PROPERTIES
    ImplementsBuckets
    RetryAfterIsEnough
