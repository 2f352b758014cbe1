\* The expiry job against one confirmation.
CONSTANTS
    u1 = u1
    p1 = p1
    t1 = t1
    r1 = r1
    Users = {u1}
    Intents = {p1}
    Txs = {t1}
    Requests = {r1}
    Job = Job
    NoUser = NoUser
    NoTx = NoTx
    MaxAttendees = 1
    MaxCrashes = 0
SPECIFICATION Spec
PROPERTY TerminalStatesAreFinal
CHECK_DEADLOCK FALSE
