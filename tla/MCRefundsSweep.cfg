CONSTANTS
    p1 = p1
    p2 = p2
    u1 = u1
    u2 = u2
    r1 = r1
    Payments = {p1, p2}
    NoPayment = NoPayment
    Owner <- TwoOwners
    Requests = {r1}
    AdminCalls = {"all", "auto"}
    Worker = Worker
    Retries = 1
    MaxJobs = 1
    MaxCrashes = 0
SPECIFICATION Spec
PROPERTY OnlyResidueIsSwept
CHECK_DEADLOCK FALSE
