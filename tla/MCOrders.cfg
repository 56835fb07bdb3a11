SPECIFICATION Spec
CONSTANTS
    OrderId = {o1, o2}
    Waiter = {w1, w2}
    User = {waiter}
    Venue = {v1}
    Table = {t1, t2}
    NoOne = NoOne
    waiter = waiter
    v1 = v1
    t1 = t1
    t2 = t2
    VenueOf <- MCVenueOf
    Permits <- MCPermits
    Price = {1}
    Amount = {1}
    LastDay = 1
    MaxBill = 0
    MaxPaid = 0
    MaxReprints = 1
SYMMETRY Symmetry
CONSTRAINT MoneyOnOneCheck
INVARIANTS
    TypeOK
    NumbersInSequence
    ClosedOnce
    NeverOvercharged
    ReceiptIsCovered
PROPERTIES
    ReceiptsAreFrozen
    ImplementsBoard
CHECK_DEADLOCK FALSE
