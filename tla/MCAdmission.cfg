CONSTANTS
    Words <- MCWords
    Starts <- MCStarts
    Legal <- MCLegal
    SIDs <- MCSIDs
    Hex64 <- MCHex64
    Number <- MCNumber
    MidBase <- MCMidBase
    LowerCase <- MCLowerCase
    Bytes = 2
    ByteBits = 2
    Clients = {c1}
    Names <- MCNames
    Specs <- MCSpecs
    Inputs <- MCInputs
    Minutes <- MCMinutes
    Requests <- MCRequests
    Headers = {"", "face", "x"}
    MaxSessions = 1
SPECIFICATION Spec
INVARIANTS TypeOK UsernamesAsDocumented GeneratedWork ExitsMatchPrefix
