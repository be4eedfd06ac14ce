SPECIFICATION GatewaySpec
CONSTANTS
    s1 = s1  s2 = s2  v1 = v1  w1 = w1  v2 = v2
    r1 = r1  r2 = r2  d1 = d1  d2 = d2
    NoRow = NoRow  NoSid = NoSid  Latest = Latest
    NoPayload = NoPayload  NoDay = NoDay
    Strategies <- MCOne
    Registry <- MCOneRegistry
    Times = {0}
    TicksPerDay = 2
    Revisions = {v1, w1, v2}
    Reporting = {v1, w1}
    Misdated = {}
    Requests = {r1}
    Payloads <- MCFewPosts
    PoolSize = 2
    Disruptions = {}
    Readers = {d1}
    ReadKeys <- MCFewKeys
    TradeRevisions = {v1}
    MaxInFlight = 1
INVARIANTS NothingStaleAtRest
