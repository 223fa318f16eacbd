CONSTANTS
    a = a
    b = b
    c = c
    p = p
    q = q
    ch1 = ch1
    ch2 = ch2
    ch3 = ch3
    NoChan = NoChan
    Cancellable <- OnlyA
    Callers <- Two
    ToProbe <- None
    IPs <- OneIP
    Chans <- Chans2
    TTL = 1
    MaxSize = 1
SPECIFICATION Spec
INVARIANT HandedConfirmed
CHECK_DEADLOCK FALSE
