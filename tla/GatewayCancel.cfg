SPECIFICATION Spec
CONSTANTS
    c1 = c1
    c2 = c2
    c3 = c3
    c4 = c4
    m1 = m1
    m2 = m2
    s1 = s1
    s2 = s2
    s3 = s3
    s4 = s4
    d1 = d1
    Conversations = {c1}
    Messages = {m1, m2}
    Sends = {s1}
    Deletes = {}
    ConvOf <- MCConvOf
    MsgOf <- MCMsgOf
    MaxConversations = 1
    MaxMessages = 2
    HistoryLimit = 1
    MaxCreators = 1
    DuplicatesOverlap = FALSE
    ReadErrors = FALSE
INVARIANTS
    CancelAborts
CHECK_DEADLOCK FALSE
