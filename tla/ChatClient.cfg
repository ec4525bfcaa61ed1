SPECIFICATION Spec
CONSTANTS
    c1 = c1
    c2 = c2
    None = None
    Conversations = {c1, c2}
    MaxQuestions = 1
INVARIANTS
    RetriesSafe
CHECK_DEADLOCK FALSE
