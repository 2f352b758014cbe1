\* Two users with an intent each, one transaction, one restart: the expiry job
\* against requests that may stay in flight for ever.
CONSTANTS
    u1 = u1
    u2 = u2
    p1 = p1
    p2 = p2
    t1 = t1
    r1 = r1
    r2 = r2
    Users = {u1, u2}
    Intents = {p1, p2}
    Txs = {t1}
    Requests = {r1, r2}
    Job = Job
    NoUser = NoUser
    NoTx = NoTx
    MaxAttendees = 1
    MaxCrashes = 1
SPECIFICATION Spec
PROPERTY ExpiredIntentsClose
CHECK_DEADLOCK FALSE
