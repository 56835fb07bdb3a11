SPECIFICATION AvailabilitySpec
CONSTANTS
    BookingId = {b1, b2}
    Session = {s1}
    Reader = {r1, r2}
    User = {guest, waiter}
    Venue = {v1}
    Table = {t1, t2}
    Null = Null
    guest = guest
    waiter = waiter
    v1 = v1
    t1 = t1
    t2 = t2
    VenueOf <- MCVenueOf
    Seats <- MCSeats
    Tiers <- MCTiers
    OpenAt <- MCOpenAt
    WorksAt <- MCWorksAt
    Request <- MCRequest
    Query <- MCQuery
    DayLength = 2
    MinAdvance = 0
    Grace = 1
    UtcOffset = 1
    Horizon = 1
    Ttl = 2
INVARIANTS
    AvailabilityTypeOK
    NoStaleOffer
PROPERTY StaleListsEnd
CHECK_DEADLOCK FALSE
