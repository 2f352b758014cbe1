\* Refunds after the admin has lowered the platform fee: one event, nothing
\* withdrawn before the cancellation.
CONSTANTS
    e1 = e1
    u1 = u1
    Events = {e1}
    Users = {u1}
    OfferTtl = 1
    Prices = {2}
    EndTimes = {0}
    FeeRates = {0, 5000}
    Multipliers = {10000}
    Tips = {0}
    Capacities = {2}
    VenueLimits = {}
    Quantities = {}
    Transfers = {}
    MaxTickets = 2
    MaxTime = 0
    MaxEscrow = 0
    MaxSplits = 0
SPECIFICATION Spec
INVARIANT RefundsAreFunded
CHECK_DEADLOCK FALSE
