SPECIFICATION Spec
CONSTANTS
    Client = {c1, c2}
    MaxCalls = 3
    Account = {1, 2, 3}
    Phone = {"p1"}
    Telegram = {"t1"}
    NoValue = "null"
    Person = {"ann", "bob", "cy"}
    Guests = {"bob"}
    Founder = "ann"
    Venue = {"v1", "v2"}
    Chain <- MCChain
    Managers = {"admin"}
    ScopeOf <- MCScopeOf
    NoVenue = "anywhere"
    MaxInvitations = 2
    User = {"oz", "ann"}
    Owner = "oz"
    Admin = "ann"
    Weeks <- MCWeeks
    Holidays <- MCHolidays
    DayHours = 24
    Ahead = 5
    Times <- MCTimes
    MaxBranches = 3
    MaxTables = 2
    Visits <- MCVisits
    Marks = {1, 5}
    Dish = {1, 2}
    Outlet = {"v1", "v2"}
    Ticks <- MCTicks
    BasePrice = 5
    NoPrice = 0
    Guest = {"eve", "fay"}
    Place = {"v1"}
    Stay = {"s1"}
    NoStay = "none"
    MaxMessages = 3
    Region = {"r1", "r2"}
    District = {"d1", "d2", "d3"}
    Traveller = {"eve"}
    Home = "d1"
    Nowhere = "not yet"
    Gone = "gone"
    RECENT_CAP = 1
    Update = {"u1", "u2"}
INVARIANT LiveBranchHasHours
CHECK_DEADLOCK FALSE
