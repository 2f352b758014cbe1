\* One user, two intents, three transactions, two requests in flight beside
\* the expiry job, room for one attendee, one restart: enough for two requests
\* to confirm, expire or issue the same intent, and to oversell by one.
CONSTANTS
    u1 = u1
    p1 = p1
    p2 = p2
    t1 = t1
    t2 = t2
    t3 = t3
    r1 = r1
    r2 = r2
    Users = {u1}
    Intents = {p1, p2}
    Txs = {t1, t2, t3}
    Requests = {r1, r2}
    Job = Job
    NoUser = NoUser
    NoTx = NoTx
    MaxAttendees = 1
    MaxCrashes = 1
SPECIFICATION Spec
SYMMETRY Symmetry
INVARIANTS
    HashesProvePayment
    TicketsArePaid
    OversellIsBounded
PROPERTIES
    OnlyExpiredIntentsFail
    ExpiryIsFinal
CHECK_DEADLOCK FALSE
