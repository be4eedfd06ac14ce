SPECIFICATION ProxyFairSpec
CONSTANTS
    trader = trader  watcher = watcher
    Callers = {trader, watcher}
    MaxCalls <- MCTraderCalls
    Uses <- MCTraderUses
    MaxConnections = 1
    Engine = "execution"
CHECK_DEADLOCK FALSE
INVARIANTS ProxyTypeOK LastVerdictHolds PathsAgree
PROPERTIES CallsEnd StreamsAreClosed
