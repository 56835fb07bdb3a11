SPECIFICATION AvailabilitySpec
CONSTANTS
    BookingId = {b1}
    Session = {s1}
    Reader = {r1}
    User = {guest, waiter}
    Venue = {v1}
    Table = {t1, t2}
    Null = Null
    guest = guest
    waiter = waiter
    v1 = v1
    t1 = t1
    t2 = t2
    VenueOf <- MCVenueOf
    Seats <- MCSeats
    Tiers <- MCTiers
    OpenAt <- MCOpenAt
    WorksAt <- MCWorksAt
    Request <- MCRequest
    Query <- MCQuery
    DayLength = 2
    MinAdvance = 0
    Grace = 1
    UtcOffset = 1
    Horizon = 0
    Ttl = 2
INVARIANT CachedListsAreTrue
CHECK_DEADLOCK FALSE
