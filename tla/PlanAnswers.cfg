SPECIFICATION FairSpec
CONSTANTS
    grand = grand
    main = main
    child = child
    x = x
    y = y
    k = k
    l = l
    Sessions = {main, child}
    Parent <- Chain
    Ancestors <- Above
    Plans = {x}
    Calls = {k, l}
    Caller <- CalledBy
    About <- CallAbout
    Verdict = {"approve", "reject"}
    Wants <- CallWants
    Gateway = Gateway
    Service = Service
    None = None
    Capacity = 1
    MaxTurns = 1
    MaxTroubles = 1
CHECK_DEADLOCK FALSE
INVARIANTS HeardAsRecorded OnlyAncestorsAnswer UnreadIsOpen CompletionNotLost
PROPERTY GatewayServes AnsweredOnce
