SPECIFICATION Spec
CONSTANTS
    s1 = s1  s2 = s2  s3 = s3  ghost = ghost
    v1 = v1  v2 = v2  r1 = r1  r2 = r2
    NoRow = NoRow  NoSid = NoSid  Latest = Latest
    NoPayload = NoPayload  NoDay = NoDay
    Strategies <- MCStrategies
    Registry <- MCRegistry
    Times = {0, 1, 2}
    TicksPerDay = 2
    Revisions = {v1, v2}
    Reporting = {v1}
    Misdated = {v1}
    Requests = {r1, r2}
    Payloads <- MCPayloads
    PoolSize = 2
    Disruptions = {"postgres", "connection", "crash", "midnight"}
SYMMETRY MCSymmetry
INVARIANTS TypeOK ReportMatchesDaily AckedIsStored SnapshotSound
PROPERTIES ImplementsBook
