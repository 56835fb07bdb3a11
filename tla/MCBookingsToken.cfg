SPECIFICATION Spec
CONSTANTS
    BookingId = {b1}
    Session = {s1, s2}
    User = {guest, waiter, outsider}
    Venue = {v1, v2}
    Table = {t1}
    Null = Null
    guest = guest
    waiter = waiter
    outsider = outsider
    v1 = v1
    v2 = v2
    t1 = t1
    VenueOf <- MCVenueOf
    Seats <- MCSeats
    Tiers <- MCTiers
    OpenAt <- MCOpenAt
    WorksAt <- MCWorksAt
    Request <- MCTableRequest
    DayLength = 2
    MinAdvance = 0
    Grace = 1
    UtcOffset = 1
    Horizon = 2
    MaxChanges = 5
    MaxAlone = 6
SYMMETRY Symmetry
CONSTRAINT HistoryBound
INVARIANT TokenSingleUse
CHECK_DEADLOCK FALSE
