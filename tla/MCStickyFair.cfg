CONSTANTS
    u = u
    v = v
    s = s
    t = t
    x = x
    y = y
    p = p
    q = q
    c1 = c1
    c2 = c2
    a1 = a1
    a2 = a2
    NoSid = NoSid
    NoAddr = NoAddr
    Accts <- OneAcct
    SIDs <- OneSid
    Addrs <- BothAddrs
    Prefixes <- BothPrefixes
    PrefixOf <- XInP
    Window = 2
    Clients <- TwoClients
    Admins <- OneAdmin
    Faults = TRUE
SPECIFICATION FairSpec
INVARIANTS TypeOK SameSidSameExit
PROPERTIES StickyMapSpec DeletedAccountsDrain DisabledPrefixDrains
CHECK_DEADLOCK FALSE
