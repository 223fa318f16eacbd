CONSTANTS
    a = a
    b = b
    c = c
    p = p
    q = q
    ch1 = ch1
    ch2 = ch2
    ch3 = ch3
    NoChan = NoChan
    Cancellable <- OnlyA
    Callers <- Two
    ToProbe <- OnlyA
    IPs <- OneIP
    Chans <- Chans2
    TTL = 0
    MaxSize = 1
SPECIFICATION FairSpec
PROPERTIES SingleFlightSpec OpenReturns
CHECK_DEADLOCK FALSE
