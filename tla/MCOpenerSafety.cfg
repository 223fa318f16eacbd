CONSTANTS
    a = a
    b = b
    c = c
    p = p
    q = q
    ch1 = ch1
    ch2 = ch2
    ch3 = ch3
    NoChan = NoChan
    Cancellable <- OnlyA
    Callers <- Three
    ToProbe <- OnlyA
    IPs <- TwoIPs
    Chans <- Chans3
    TTL = 0
    MaxSize = 1
SPECIFICATION Spec
SYMMETRY Sym
INVARIANTS TypeOK FlightsSound CloseOnce WaitersCovered CacheBounded WarmIsConfirmed
CHECK_DEADLOCK FALSE
