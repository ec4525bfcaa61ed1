SPECIFICATION Spec
CONSTANTS
    a1 = a1
    a2 = a2
    a3 = a3
    q1 = q1
    q2 = q2
    Clients = {a1, a2, a3}
    Requests = {q1, q2}
    Watched = a1
    Minute = 3
    Rate = 2
    Burst = 3
    MaxClients = 2
    MaxConcurrent = 1
    MaxTime = 9
SYMMETRY Interchangeable
INVARIANTS
    RateHolds
    RetryAfterExact
    TableBounded
    SlotsHeld
