\* One ticket of two users, one gift of it, two requests beside both cron jobs
\* and one restart, from two ticks of the clock before the event is over: enough for every
\* pair of handlers to save over each other and for a gift to be due in time.
SPECIFICATION FairSpec
CONSTANTS
    Users = {u1, u2}
    Tickets = {t1}
    FirstOwner = u1
    Gifts = {g1}
    Requests = {r1, r2}
    GiftJob = giftJob
    ExpiryJob = expiryJob
    NoUser = NoUser
    Never = Never
    Start = 2
    MaxCrashes = 1
INVARIANTS
    AdmissionsBounded
    SalesBounded
    DeliveredGiftsArrived
PROPERTIES
    TicketsExpire
    GiftsLeave
CHECK_DEADLOCK FALSE
