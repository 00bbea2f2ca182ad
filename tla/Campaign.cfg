SPECIFICATION CampaignSpec
CONSTANTS
    x = x
    y = y
    x1 = x1
    x2 = x2
    y1 = y1
    Children <- OneMove
    Leaves <- TwoReplies
    Parent <- OneMoveParent
    Terminal <- OneMoveTerminal
    Start <- OneMoveStart
    Value <- OneMoveValue
    N = 2
    Abandon = TRUE
    MaxSessions = 2
    MaxJobs = 2
    MaxDeaths = 1
    MaxFaults = 1
CHECK_DEADLOCK FALSE
INVARIANT StatusSound
INVARIANT StatusBacked
INVARIANT CertificateComplete
INVARIANT FirstOneInFlight
