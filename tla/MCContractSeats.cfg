\* Seats: one event, two buyers, one price and no fee, so that the state is
\* that of the seats: sales and batches against the ticket limit, offers that
\* expire, are replaced or are taken by anyone, capacity changes, the venue.
CONSTANTS
    e1 = e1
    u1 = u1
    u2 = u2
    Events = {e1}
    Users = {u1, u2}
    OfferTtl = 1
    Prices = {1}
    EndTimes = {0, 1}
    FeeRates = {0}
    Multipliers = {10000}
    Tips = {0}
    Capacities = {1, 2}
    VenueLimits = {2}
    Quantities = {1, 2}
    Transfers = {}
    MaxTickets = 2
    MaxTime = 2
    MaxEscrow = 0
    MaxSplits = 0
SPECIFICATION Spec
SYMMETRY Symmetry
INVARIANTS
    SoldCountsTickets
    TicketFates
    VenueNeverOverfilled
    OffersAreIndexed
    ReservedCoversOffers
    QueueNamesOnce
PROPERTIES
    PublicSalesSpareReservations
    QueueServedInOrder
    
CHECK_DEADLOCK FALSE
