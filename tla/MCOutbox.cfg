SPECIFICATION FairSpec
CONSTANTS
    m1 = m1
    m2 = m2
    m3 = m3
    Msgs = {m1, m2, m3}
    ChannelOf <- MCChannelOf
    Unwired = {"EMAIL"}
    Workers = {w}
    MaxAttempts = 3
    BatchLimit = 2
INVARIANTS NoNeedlessRepeat OutcomeIsTrue
PROPERTIES DeliversAsMailbox EveryMessageSettles
CHECK_DEADLOCK FALSE
