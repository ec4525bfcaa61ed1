SPECIFICATION FairSpec
CONSTANTS
    a1 = a1
    s1 = s1
    s2 = s2
    h1 = h1
    big = big
    small = small
    Asks = {a1}
    Streams = {s1, s2}
    Probes = {h1}
    Models = {big}
    Default = small
    Wanted <- MCWanted
    Answers <- MCAnswers
    TTL = 2
    MaxRequests = 2
    MaxTime = 4
    MaxChanges = 1
INVARIANTS
    GroundedIsWhole
    
    EncoderBuiltOnce
PROPERTIES
    ModelsBelieved
    RequestsEnd
CHECK_DEADLOCK FALSE
