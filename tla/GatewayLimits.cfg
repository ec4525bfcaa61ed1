SPECIFICATION LimitsSpec
CONSTANTS
    c1 = c1
    c2 = c2
    c3 = c3
    c4 = c4
    m1 = m1
    m2 = m2
    s1 = s1
    s2 = s2
    s3 = s3
    s4 = s4
    d1 = d1
    Conversations = {c1, c2, c3, c4}
    Messages = {m1, m2}
    Sends = {s1, s2, s3}
    Deletes = {d1}
    ConvOf <- MCConvOf
    MsgOf <- MCMsgOf
    MaxConversations = 1
    MaxMessages = 1
    HistoryLimit = 1
    MaxCreators = 2
    DuplicatesOverlap = TRUE
    ReadErrors = TRUE
INVARIANTS
    ConversationOvershoot
    FilesBounded
PROPERTIES
    SendsSettle
CHECK_DEADLOCK FALSE
