CONSTANTS
    x = x
    r1 = r1
    r2 = r2
    t1 = t1
    t2 = t2
    Never = Never
    NoToken = NoToken
    IPs <- OneIP
    Requests <- TwoRequests
    Tokens <- TwoTokens
    Threshold = 3
    Window = 3
    TTL = 1
    MaxSize = 2
SPECIFICATION PanelFair
INVARIANTS PanelTypeOK GuessesBounded ThresholdRefuses WhitelistClean
PROPERTIES SessionsExact LockoutEnds
