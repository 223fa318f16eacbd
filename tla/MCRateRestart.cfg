CONSTANTS
    m = m
    n = n
    c1 = c1
    c2 = c2
    a1 = a1
    Missing = Missing
    Main = m
    Default = 2
    Limits <- OneOrThree
    Largest = 3
    Window = 2
    Admins <- OneAdmin
    Accts <- BothAccts
    Clients <- OneClient
    Restarts = TRUE
SPECIFICATION Spec
INVARIANT LimitSurvivesRestart
