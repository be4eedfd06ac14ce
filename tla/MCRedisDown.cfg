SPECIFICATION GatewaySpec
CONSTANTS
    s1 = s1  s2 = s2  v1 = v1  w1 = w1  v2 = v2
    r1 = r1  r2 = r2  d1 = d1  d2 = d2
    NoRow = NoRow  NoSid = NoSid  Latest = Latest
    NoPayload = NoPayload  NoDay = NoDay
    Strategies <- MCTwo
    Registry <- MCOneOfTwoRegistry
    Times = {0, 2}
    TicksPerDay = 2
    Revisions = {v1, w1, v2}
    Reporting = {v1, w1}
    Misdated = {}
    Requests = {r1}
    Payloads <- MCAllPosts
    PoolSize = 2
    Disruptions = {"redis"}
    Readers = {d1}
    ReadKeys <- MCAllKeys
    TradeRevisions = {v1}
    MaxInFlight = 1
PROPERTIES RedisFailsNoRead
