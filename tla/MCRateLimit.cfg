CONSTANTS
    m = m
    n = n
    c1 = c1
    c2 = c2
    a1 = a1
    Missing = Missing
    Main = m
    Default = 1
    Limits <- OnlyTwo
    Largest = 2
    Window = 2
    Admins <- OneAdmin
    Accts <- BothAccts
    Clients <- TwoClients
    Restarts = TRUE
SPECIFICATION Spec
SYMMETRY Sym
INVARIANTS TypeOK WindowCapped LimitInForce
