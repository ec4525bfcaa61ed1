SPECIFICATION TextSpec
CONSTANTS
    host = host
    is = is
    earlier = earlier
    Texts <- MCTexts
    MaxChars = 3
    Overlap = 1
    Store = {1, 2, 3}
    Profiles <- MCProfiles
    QuestionTokens = {host, is}
    EarlierTokens = {earlier}
    FollowUp = TRUE
    Stopwords = {is}
    MinConfidence = 27000
    Limits = {1, 2}
    MinCandidates = 2
    Multiplier = 2
    MaxCandidates = 3
    RerankerScores <- MCScores
    MaxText = 7
    MaxAnswer = 5
INVARIANTS
    PhrasesKept
    LinesHold
    IdsDiffer
    BestKept
    EvidenceNeeded
    JudgedRight
CHECK_DEADLOCK FALSE
