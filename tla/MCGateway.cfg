CONSTANTS
    Conns = {r1}
    Pairs = 1
SPECIFICATION GatewayFair
INVARIANTS GatewayTypeOK ServesUntilStopped IPv4OnlyWhenAllowed LogTellsExit
PROPERTIES StopsForGood HandshakesEnd TunnelsEnd CutRequestsEnd
CHECK_DEADLOCK FALSE
