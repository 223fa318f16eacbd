CONSTANTS
    PrefixList <- Four
    Single = {"s"}
    Unparsable = {"u"}
    CountPer = 1
    More = 4
    MaxCount = 3
    Fingerprints <- OneFp
    Domains <- OneDomain
    NoDomain = NoDomain
    Hash <- HashOf
    Counts = {0, 3}
    MaxPicks = 4
    TTL = 1
    Admins = {a1}
    NoExit = NoExit
    Torn = Torn
SPECIFICATION Spec
INVARIANTS TypeOK SessionsOnEnabled RoundRobinFair RulesDurable
