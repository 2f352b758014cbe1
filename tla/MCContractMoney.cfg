\* Money: two events share the fee pool and the token balance; one ticket in
\* all and an escrow split each; a fee share that rounds down and is not zero.
CONSTANTS
    e1 = e1
    e2 = e2
    u1 = u1
    Events = {e1, e2}
    Users = {u1}
    OfferTtl = 1
    Prices = {2, 3}
    EndTimes = {0}
    FeeRates = {5000}
    Multipliers = {10000}
    Tips = {0}
    Capacities = {3}
    VenueLimits = {}
    Quantities = {}
    Transfers = {2}
    MaxTickets = 1
    MaxTime = 1
    MaxEscrow = 2
    MaxSplits = 1
SPECIFICATION Spec
SYMMETRY Symmetry
INVARIANTS
    TypeOK
    
PROPERTIES
    TerminalFrozen
    CancelledEscrowRefundsOrSplits
CHECK_DEADLOCK FALSE
