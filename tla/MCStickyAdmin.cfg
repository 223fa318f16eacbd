CONSTANTS
    u = u
    v = v
    s = s
    t = t
    x = x
    y = y
    p = p
    q = q
    c1 = c1
    c2 = c2
    a1 = a1
    a2 = a2
    NoSid = NoSid
    NoAddr = NoAddr
    Accts <- TwoAccts
    SIDs <- TwoSids
    Addrs <- OneAddr
    Prefixes <- OnePrefix
    PrefixOf <- OnlyXInP
    Window = 1
    Clients <- OneClient
    Admins <- OneAdmin
    Faults = FALSE
SPECIFICATION Spec
SYMMETRY Sym
INVARIANT AccountsListed
PROPERTY PurgesAreComplete
CHECK_DEADLOCK FALSE
