SPECIFICATION Spec
CONSTANTS
    OrderId = {o1}
    Waiter = {w1, w2}
    User = {waiter}
    Venue = {v1}
    Table = {t1}
    NoOne = NoOne
    waiter = waiter
    v1 = v1
    t1 = t1
    t2 = t2
    VenueOf <- MCVenueOf
    Permits <- MCPermits
    Price = {1}
    Amount = {1}
    LastDay = 0
    MaxBill = 0
    MaxPaid = 0
    MaxReprints = 1
SYMMETRY Symmetry
INVARIANT CompletedIsPaid
CHECK_DEADLOCK FALSE
