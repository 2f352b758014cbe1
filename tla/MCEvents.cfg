\* Two requests of any role, the waitlist's expiry job and a restart; two users
\* for one seat; the event is over, so that it can be completed at any time.
SPECIFICATION FairSpec
CONSTANTS
    NumRequests = 2
    ExpiryJob = ExpiryJob
    MaxAccounts = 2
    NoCopy = NoCopy
    Ended = TRUE
    MaxCrashes = 1
    NumUsers = 2
    MaxAttendees = 1
    PaymentsLink = TRUE
INVARIANTS
    
    RefundedEventsStayCancelled
    
    SeatsBounded
PROPERTY HoldsExpire
CHECK_DEADLOCK FALSE
