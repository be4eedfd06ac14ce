SPECIFICATION ProxySpec
CONSTANTS
    trader = trader  watcher = watcher
    Callers = {trader, watcher}
    MaxCalls <- MCReaderCalls
    Uses <- MCReaderUses
    MaxConnections = 1
    Engine = "orderbook"
CHECK_DEADLOCK FALSE
INVARIANTS PathsAgree
