CONSTANTS
    u = u
    v = v
    s = s
    t = t
    x = x
    y = y
    p = p
    q = q
    c1 = c1
    c2 = c2
    a1 = a1
    a2 = a2
    NoSid = NoSid
    NoAddr = NoAddr
    Accts <- OneAcct
    SIDs <- OneSid
    Addrs <- BothAddrs
    Prefixes <- BothPrefixes
    PrefixOf <- XInP
    Window = 2
    Clients <- OneClient
    Admins <- OneAdmin
    Faults = FALSE
SPECIFICATION Spec
INVARIANT LiveSessionsListed
CHECK_DEADLOCK FALSE
