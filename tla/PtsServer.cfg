CONSTANTS
    p1 = p1
    c1 = c1
    v1 = v1
    v2 = v2
    Pixits = {p1}
    Pics = {c1}
    Values = {v1, v2}
    Timeouts = {v1, Default}
    Default = Default
    Unset = Unset
    OneProcess = TRUE
    StartRetries = 2
    MaxCalls = 3
    MaxAbandons = 1
SPECIFICATION Spec
INVARIANTS Settled OwnReply ReplyInv SettledInv
PROPERTY Answered
CHECK_DEADLOCK FALSE
