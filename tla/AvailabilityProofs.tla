------------------------- MODULE AvailabilityProofs -------------------------
(* Theorems about the availability cache, for every set of tables, queries,  *)
(* listings and booking requests, and every lifetime of the entries.         *)
EXTENDS Availability, BookingsProofs

\* A booking of a table names the branch the table stands in, from the check
\* of create_table_reservation on.
AtItsBranch(q) == q.kind = "table_reservation" => VenueOf[q.table] = q.venue

BranchesKept ==
    /\ \A b \in DOMAIN bookings : AtItsBranch(bookings[b].ask)
    /\ \A s \in Session : sessions[s].op = "insert" => AtItsBranch(sessions[s].ask)

\* A list offers only tables of the branch it was asked for.
OwnTables(q, tables) == \A t \in tables : VenueOf[t] = q.venue

ListsTyped ==
    /\ AvailabilityTypeOK
    /\ \A q \in DOMAIN cache : OwnTables(q, cache[q].tables)
    /\ \A r \in Reader :
          readers[r].op = "fill" => OwnTables(readers[r].query, readers[r].tables)

Fresh(q, tables, raced) == raced \/ Owed(q.venue) \/ \A t \in tables : ~Taken(t, q)

ListsFresh ==
    /\ NoStaleOffer
    /\ \A r \in Reader :
          readers[r].op = "fill" =>
              Fresh(readers[r].query, readers[r].tables, readers[r].raced)

CacheInv == Typed /\ BranchesKept /\ ListsTyped /\ ListsFresh
-----------------------------------------------------------------------------
(* The booking desk, seen from the cache *)

\* Whoever takes a table owes the invalidation of its branch from then on, and
\* the payload was checked by create_table_reservation or is already stored.
Debt(s, b, q) ==
    /\ Claims(b, q)
    /\ Become(s, [op |-> "invalidate", venue |-> q.venue])
    /\ \/ sessions[s].op = "insert" /\ q = sessions[s].ask
       \/ b \in DOMAIN bookings /\ q = bookings[b].ask

LEMMA ClaimsAreOwed ==
  ASSUME Typed, [Next]_vars
  PROVE  OnlyReleases \/ \E s \in Session, b \in BookingId, q \in Request : Debt(s, b, q)
<1>1. ASSUME NEW s \in Session, Begins(s) \/ RefuseInsert(s) \/ FailDecision(s)
                                \/ SelectSeated(s) \/ FinishRequest(s)
      PROVE  OnlyReleases
  BY <1>1, UnchangedReleases
  DEF Begins, BeginTableReservation, BeginHallEvent, BeginCancel, BeginDecision,
      BeginCheckOut, RefuseInsert, FailDecision, SelectSeated, FinishRequest
<1>2. ASSUME NEW s \in Session, WriteCancel(s)  PROVE OnlyReleases
  BY <1>2, HandlerFields, StatusReleases DEF WriteCancel, ACTIVE_BOOKING_STATUSES
<1>3. ASSUME NEW s \in Session, WriteDecision(s)
      PROVE  OnlyReleases \/ \E b \in BookingId, q \in Request : Debt(s, b, q)
  <2>1. /\ sessions[s].booking \in DOMAIN bookings
        /\ sessions[s].booking \in BookingId
        /\ bookings[sessions[s].booking].ask \in Request
    BY <1>3, HandlerFields DEF WriteDecision, Typed, RowsTyped, Row
  <2>2. Become(s, [op |-> "invalidate", venue |-> bookings[sessions[s].booking].ask.venue])
    BY <1>3 DEF WriteDecision
  <2>3. QED  BY <1>3, <2>1, <2>2, DecisionClaims DEF Debt
<1>4. ASSUME NEW s \in Session, NEW b \in BookingId, InsertBooking(s, b)
      PROVE  \E q \in Request : Debt(s, b, q)
  <2>1. sessions[s].ask \in Request /\ sessions[s].op = "insert"
    BY <1>4, HandlerFields DEF InsertBooking
  <2>2. Become(s, [op |-> "invalidate", venue |-> sessions[s].ask.venue])
    BY <1>4 DEF InsertBooking
  <2>3. QED  BY <1>4, <2>1, <2>2, InsertClaims DEF Debt
<1>5. CASE Tick \/ Restart \/ UNCHANGED vars
  BY <1>5, UnchangedReleases DEF Tick, Restart, vars
<1>6. QED
  BY <1>1, <1>2, <1>3, <1>4, <1>5, CheckInReleases, FlushReleases, SweepReleases
  DEF Next, DeskStep, Create, Cancel, Decide, CheckOut, Begins

LEMMA BranchesStay ==
  ASSUME Typed, BranchesKept, [Next]_vars
  PROVE  BranchesKept'
<1>0. \A b \in DOMAIN bookings : bookings[b] \in Row
  BY DEF Typed, RowsTyped
<1>1. \A s \in Session : sessions'[s].op = "insert" => AtItsBranch(sessions'[s].ask)
  <2> DEFINE Kept == \A s \in Session :
                        sessions'[s].op = "insert" => AtItsBranch(sessions'[s].ask)
  <2>1. ASSUME NEW r \in Session, NEW h, Become(r, h), h.op # "insert"  PROVE Kept
    BY <2>1 DEF Become, BranchesKept, Typed, HandlersTyped
  <2>2. ASSUME NEW r \in Session, NEW q \in Request,
               BeginTableReservation(r, q) \/ BeginHallEvent(r, q)
        PROVE  Kept
    <3>1. Become(r, [op |-> "insert", ask |-> q]) /\ AtItsBranch(q)
      BY <2>2 DEF BeginTableReservation, BeginHallEvent, AtItsBranch
    <3>2. QED  BY <3>1 DEF Become, BranchesKept, Typed, HandlersTyped
  <2>3. ASSUME NEW r \in Session, RefuseInsert(r) \/ FailDecision(r) \/ FinishRequest(r)
                                  \/ FlushCheckOut(r)
        PROVE  Kept
    <3>1. Become(r, Idle) /\ Idle.op # "insert"
      BY <2>3 DEF RefuseInsert, FailDecision, FinishRequest, FlushCheckOut, Idle
    <3>2. QED  BY <2>1, <3>1
  <2>4. ASSUME NEW r \in Session,
               WriteCancel(r) \/ WriteDecision(r) \/ \E b \in BookingId : InsertBooking(r, b)
        PROVE  Kept
    <3>1. \E v : Become(r, [op |-> "invalidate", venue |-> v])
      BY <2>4 DEF WriteCancel, WriteDecision, InsertBooking
    <3>2. QED  BY <2>1, <3>1
  <2>5. ASSUME NEW r \in Session, NEW u \in User, NEW b \in BookingId,
               \/ BeginCancel(r, u, b)
               \/ \E verdict \in {"confirmed", "cancelled"} : BeginDecision(r, u, b, verdict)
               \/ BeginCheckOut(r, u, b)
        PROVE  Kept
    BY <2>1, <2>5 DEF BeginCancel, BeginDecision, BeginCheckOut
  <2>6. ASSUME NEW r \in Session, SelectSeated(r)  PROVE Kept
    <3>1. sessions[r] \in [op : {"check_out", "flush"}, booking : BookingId, by : User,
                            at : Nat, seen : Row]
      BY <2>6 DEF SelectSeated, Typed, HandlersTyped, Handler, Idle
    <3>2. [sessions[r] EXCEPT !.op = "flush"].op # "insert" /\ Idle.op # "insert"
      BY <3>1 DEF Idle
    <3>3. QED  BY <2>1, <2>6, <3>2 DEF SelectSeated
  <2>7. ASSUME Restart  PROVE Kept
    BY <2>7 DEF Restart, Idle
  <2>8. ASSUME sessions' = sessions  PROVE Kept
    BY <2>8 DEF BranchesKept
  <2> HIDE DEF Kept
  <2>9. Kept
    <3>1. ASSUME NEW r \in Session, Create(r)  PROVE Kept
      BY <2>2, <2>3, <2>4, <3>1 DEF Create
    <3>2. ASSUME NEW r \in Session, Cancel(r) \/ Decide(r)  PROVE Kept
      BY <2>3, <2>4, <2>5, <3>2 DEF Cancel, Decide
    <3>3. ASSUME NEW r \in Session, CheckOut(r)  PROVE Kept
      BY <2>3, <2>5, <2>6, <3>3 DEF CheckOut
    <3>4. CASE (\E u \in User, b \in BookingId : CheckInByQr(u, b)) \/ ExpireStale \/ Tick
               \/ UNCHANGED vars
      BY <2>8, <3>4 DEF CheckInByQr, ExpireStale, Tick, vars
    <3>5. QED
      BY <2>3, <2>7, <3>1, <3>2, <3>3, <3>4 DEF Next, DeskStep
  <2>10. QED  BY <2>9 DEF Kept
<1>2. \A b \in DOMAIN bookings' : AtItsBranch(bookings'[b].ask)
  <2>1. CASE OnlyReleases
    BY <2>1 DEF OnlyReleases, BranchesKept, AtItsBranch
  <2>2. ASSUME NEW s \in Session, NEW b \in BookingId, NEW q \in Request, Debt(s, b, q)
        PROVE  \A c \in DOMAIN bookings' : AtItsBranch(bookings'[c].ask)
    BY <2>2 DEF Debt, Claims, BranchesKept
  <2>3. QED  BY <2>1, <2>2, ClaimsAreOwed
<1>3. QED  BY <1>1, <1>2 DEF BranchesKept, AtItsBranch
-----------------------------------------------------------------------------
(* Staleness *)

LEMMA BookedTableKnown ==
  ASSUME Typed, BranchesKept, NEW b \in DOMAIN bookings, bookings[b].ask.table # Null
  PROVE  VenueOf[bookings[b].ask.table] = bookings[b].ask.venue
<1>1. bookings[b].ask \in Request /\ bookings[b].ask.kind \in {"table_reservation", "hall_event"}
  BY RequestAssumption DEF Typed, RowsTyped, Row, RequestShape
<1>2. bookings[b].ask.kind = "table_reservation"
  BY <1>1, RequestAssumption
<1>3. QED  BY <1>2 DEF BranchesKept, AtItsBranch

\* The desk's steps leave every debt standing, and a table that becomes taken
\* adds one.
LEMMA DebtStands ==
  ASSUME Typed, DeskStep, NEW v, Owed(v)
  PROVE  Owed(v)'
<1>1. PICK s \in Session : sessions[s].op = "invalidate" /\ sessions[s].venue = v
  BY DEF Owed
<1>2. sessions'[s] = sessions[s]
  <2>1. ASSUME NEW r \in Session, NEW h, Become(r, h), sessions[r].op # "invalidate"
        PROVE  sessions'[s] = sessions[s]
    BY <1>1, <2>1 DEF Become, Typed, HandlersTyped
  <2>2. Idle.op # "invalidate"
    BY DEF Idle
  <2>3. ASSUME NEW r \in Session, Create(r)  PROVE sessions'[s] = sessions[s]
    BY <2>1, <2>2, <2>3
    DEF Create, BeginTableReservation, BeginHallEvent, InsertBooking, RefuseInsert
  <2>4. ASSUME NEW r \in Session, Cancel(r)  PROVE sessions'[s] = sessions[s]
    BY <2>1, <2>2, <2>4 DEF Cancel, BeginCancel, WriteCancel
  <2>5. ASSUME NEW r \in Session, Decide(r)  PROVE sessions'[s] = sessions[s]
    BY <2>1, <2>2, <2>5 DEF Decide, BeginDecision, WriteDecision, FailDecision
  <2>6. ASSUME NEW r \in Session, CheckOut(r)  PROVE sessions'[s] = sessions[s]
    BY <2>1, <2>2, <2>6 DEF CheckOut, BeginCheckOut, SelectSeated, FlushCheckOut
  <2>7. QED
    BY <2>3, <2>4, <2>5, <2>6 DEF DeskStep, CheckInByQr, ExpireStale, Tick
<1>3. QED  BY <1>1, <1>2 DEF Owed

LEMMA TakenIsOwed ==
  ASSUME Typed, BranchesKept', Typed', [Next]_vars, NEW q \in Query, NEW t \in Table,
         VenueOf[t] = q.venue, Taken(t, q)', ~Taken(t, q)
  PROVE  Owed(q.venue)'
<1>1. CASE OnlyReleases
  BY <1>1 DEF OnlyReleases, Taken
<1>2. ASSUME NEW s \in Session, NEW b \in BookingId, NEW p \in Request, Debt(s, b, p)
      PROVE  Owed(q.venue)'
  <2>1. p.table = t
    BY <1>2 DEF Debt, Claims, Taken, Active
  <2>2. b \in DOMAIN bookings' /\ bookings'[b].ask = p
    BY <1>2 DEF Debt, Claims
  <2>3. p.table # Null
    BY <2>1, NullAssumption
  <2>4. p.kind = "table_reservation"
    BY <2>3, RequestAssumption DEF RequestShape
  <2>5. VenueOf[t] = p.venue
    BY <2>1, <2>2, <2>4 DEF BranchesKept, AtItsBranch
  <2>6. sessions'[s] = [op |-> "invalidate", venue |-> p.venue]
    BY <1>2 DEF Debt, Become, Typed, HandlersTyped
  <2>7. QED  BY <2>5, <2>6 DEF Owed
<1>3. QED  BY <1>1, <1>2, ClaimsAreOwed

LEMMA DeskKeepsFresh ==
  ASSUME Typed, Typed', BranchesKept', DeskStep, NEW q \in Query,
         NEW tables \in SUBSET Table, OwnTables(q, tables), NEW raced \in BOOLEAN,
         Fresh(q, tables, raced)
  PROVE  raced \/ Owed(q.venue)' \/ \A t \in tables : ~Taken(t, q)'
BY DebtStands, TakenIsOwed DEF Fresh, OwnTables, Next

LEMMA ListedIsFree ==
  ASSUME Typed, NEW q \in Query, NEW t \in ListAvailable(q)
  PROVE  ~Taken(t, q)
<1> SUFFICES ASSUME NEW b \in DOMAIN bookings, Active(b), bookings[b].ask.table = t,
                    RangesMeet(bookings[b].ask, q)
             PROVE  Occupied(t, q)
  BY DEF Taken, ListAvailable
<1> DEFINE p == bookings[b].ask
<1>1. p \in Request
  BY DEF Typed, RowsTyped, Row
<1>2. Window(p) /\ Window(q)
  BY <1>1, RequestWindow, QueryAssumption DEF Window
<1>3. p.day = q.day /\ p.start < q.end /\ p.end > q.start
  BY <1>2, MeetsOnOneDay
<1>4. QED  BY <1>3 DEF Occupied
-----------------------------------------------------------------------------
(* The cache, step by step *)

LEMMA StepOfDesk == [AvailabilityNext]_allVars => [Next]_vars
  BY DEF AvailabilityNext, allVars, Next, FinishAndInvalidate, RestartEmpty, Miss, ReadTables,
         FillCache, Age

\* The desk as it is: what a step that does not touch it leaves of the truth.
LEMMA QuietDesk ==
  ASSUME UNCHANGED vars
  PROVE  /\ \A v : Owed(v)' <=> Owed(v)
         /\ \A t, q : Taken(t, q)' <=> Taken(t, q)
  BY DEF vars, Owed, Taken, Active

LEMMA ListingTyped ==
  ASSUME NEW r \in Reader, readers \in [Reader -> Listing]
  PROVE  /\ readers[r].op \in {"query", "fill"} => readers[r].query \in Query
         /\ readers[r].op = "fill" => /\ readers[r].tables \in SUBSET Table
                                      /\ readers[r].raced \in BOOLEAN
                                      /\ readers[r] \in [op : {"fill"}, query : Query,
                                              tables : SUBSET Table, raced : BOOLEAN]
  BY DEF Listing, Resting

LEMMA MissKeeps ==
  ASSUME CacheInv, NEW r \in Reader, NEW q \in Query, Miss(r, q)
  PROVE  ListsTyped' /\ ListsFresh'
<1>1. /\ DOMAIN cache' = DOMAIN cache \ {q}
      /\ \A k \in DOMAIN cache' : cache'[k] = cache[k]
      /\ cache' \in [DOMAIN cache' -> Entry]
  BY DEF Miss, Without, CacheInv, ListsTyped, AvailabilityTypeOK
<1>2. readers' = [readers EXCEPT ![r] = [op |-> "query", query |-> q]]
  BY DEF Miss, Proceed
<1>3. [op |-> "query", query |-> q] \in Listing
  BY DEF Listing
<1>4. readers' \in [Reader -> Listing]
  BY <1>2, <1>3 DEF CacheInv, ListsTyped, AvailabilityTypeOK
<1>5. \A x \in Reader : readers'[x].op = "fill" => readers'[x] = readers[x]
  BY <1>2 DEF CacheInv, ListsTyped, AvailabilityTypeOK
<1>6. ListsTyped'
  BY <1>1, <1>4, <1>5 DEF CacheInv, ListsTyped, AvailabilityTypeOK, OwnTables
<1>7. ListsFresh'
  <2>1. UNCHANGED vars
    BY DEF Miss
  <2>2. QED
    BY <1>1, <1>5, <2>1, QuietDesk DEF CacheInv, ListsFresh, NoStaleOffer, Fresh
<1>8. QED  BY <1>6, <1>7

LEMMA ReadKeeps ==
  ASSUME CacheInv, NEW r \in Reader, ReadTables(r)
  PROVE  ListsTyped' /\ ListsFresh'
<1> DEFINE q == readers[r].query
           list == [op |-> "fill", query |-> q, tables |-> ListAvailable(q), raced |-> FALSE]
<1>1. q \in Query
  BY ListingTyped DEF ReadTables, CacheInv, ListsTyped, AvailabilityTypeOK
<1>2. ListAvailable(q) \in SUBSET Table /\ OwnTables(q, ListAvailable(q))
  BY DEF ListAvailable, OwnTables
<1>3. list \in Listing
  BY <1>1, <1>2 DEF Listing
<1>4. readers' = [readers EXCEPT ![r] = list] /\ cache' = cache
  BY DEF ReadTables, Proceed
<1>5. \A x \in Reader : readers'[x] = IF x = r THEN list ELSE readers[x]
  BY <1>4 DEF CacheInv, ListsTyped, AvailabilityTypeOK
<1>6. readers' \in [Reader -> Listing]
  BY <1>3, <1>4 DEF CacheInv, ListsTyped, AvailabilityTypeOK
<1>7. /\ list.query = q /\ list.tables = ListAvailable(q) /\ list.raced = FALSE
  OBVIOUS
<1>8. UNCHANGED vars
  BY DEF ReadTables
<1>9. \A t \in list.tables : ~Taken(t, q)
  BY <1>1, <1>7, ListedIsFree DEF CacheInv
<1> HIDE DEF list
<1>10. ListsTyped'
  BY <1>2, <1>4, <1>5, <1>6, <1>7 DEF CacheInv, ListsTyped, AvailabilityTypeOK, OwnTables
<1>11. ListsFresh'
  BY <1>4, <1>5, <1>7, <1>8, <1>9, QuietDesk
  DEF CacheInv, ListsFresh, NoStaleOffer, Fresh
<1>12. QED  BY <1>10, <1>11

LEMMA FillKeeps ==
  ASSUME CacheInv, NEW r \in Reader, FillCache(r)
  PROVE  ListsTyped' /\ ListsFresh'
<1> DEFINE h == readers[r]
           entry == [left |-> Ttl, tables |-> h.tables, raced |-> h.raced]
<1>1. h.query \in Query /\ h.tables \in SUBSET Table /\ h.raced \in BOOLEAN
  BY ListingTyped DEF FillCache, CacheInv, ListsTyped, AvailabilityTypeOK
<1>2. entry \in Entry /\ entry.tables = h.tables /\ entry.raced = h.raced
  BY <1>1, TtlAssumption DEF Entry
<1>3. /\ DOMAIN cache' = DOMAIN cache \cup {h.query}
      /\ \A k \in DOMAIN cache' : cache'[k] = IF k = h.query THEN entry ELSE cache[k]
      /\ cache' \in [DOMAIN cache' -> Entry]
  BY <1>2 DEF FillCache, CacheInv, ListsTyped, AvailabilityTypeOK
<1>4. readers' = [readers EXCEPT ![r] = Resting] /\ Resting \in Listing /\ Resting.op = "rest"
  BY DEF FillCache, Proceed, Listing, Resting
<1>5. /\ readers' \in [Reader -> Listing]
      /\ \A x \in Reader : readers'[x].op = "fill" => readers'[x] = readers[x]
  BY <1>4 DEF CacheInv, ListsTyped, AvailabilityTypeOK
<1>6. UNCHANGED vars /\ h.op = "fill"
  BY DEF FillCache
<1> HIDE DEF entry
<1>7. ListsTyped'
  BY <1>1, <1>2, <1>3, <1>5, <1>6 DEF CacheInv, ListsTyped, AvailabilityTypeOK, OwnTables
<1>8. ListsFresh'
  BY <1>2, <1>3, <1>5, <1>6, QuietDesk DEF CacheInv, ListsFresh, NoStaleOffer, Fresh
<1>9. QED  BY <1>7, <1>8

LEMMA AgeKeeps ==
  ASSUME CacheInv, Age
  PROVE  ListsTyped' /\ ListsFresh'
<1>1. \A q \in DOMAIN cache : /\ Older(cache[q]) \in Entry
                              /\ Older(cache[q]).tables = cache[q].tables
                              /\ Older(cache[q]).raced = cache[q].raced
  <2> SUFFICES ASSUME NEW e \in Entry
               PROVE  Older(e) \in Entry /\ Older(e).tables = e.tables /\ Older(e).raced = e.raced
    BY DEF CacheInv, ListsTyped, AvailabilityTypeOK
  <2>1. CASE e.left = 0
    BY <2>1 DEF Older, Expired
  <2>2. CASE e.left # 0
    <3>1. e.left \in 0 .. Ttl /\ e.left - 1 \in 0 .. Ttl
      BY <2>2, TtlAssumption DEF Entry
    <3>2. Older(e) = [e EXCEPT !.left = e.left - 1]
      BY <2>2 DEF Older, Expired, Entry
    <3>3. QED  BY <3>1, <3>2 DEF Entry
  <2>3. QED  BY <2>1, <2>2
<1>2. /\ DOMAIN cache' = DOMAIN cache
      /\ \A q \in DOMAIN cache : cache'[q] = Older(cache[q])
      /\ cache' \in [DOMAIN cache -> Entry]
      /\ readers' = readers
      /\ UNCHANGED vars
  BY <1>1 DEF Age
<1>3. ListsTyped'
  BY <1>1, <1>2 DEF CacheInv, ListsTyped, AvailabilityTypeOK, OwnTables
<1>4. ListsFresh'
  BY <1>1, <1>2, QuietDesk DEF CacheInv, ListsFresh, NoStaleOffer, Fresh
<1>5. QED  BY <1>3, <1>4

LEMMA DeskKeeps ==
  ASSUME CacheInv, Typed', BranchesKept', DeskStep, UNCHANGED <<cache, readers>>
  PROVE  ListsTyped' /\ ListsFresh'
<1>1. ListsTyped'
  BY DEF CacheInv, ListsTyped, AvailabilityTypeOK, OwnTables
<1>2. NoStaleOffer'
  <2> SUFFICES ASSUME NEW q \in DOMAIN cache
               PROVE  cache[q].raced \/ Owed(q.venue)' \/ \A t \in cache[q].tables : ~Taken(t, q)'
    BY DEF NoStaleOffer
  <2>1. /\ q \in Query /\ cache[q].tables \in SUBSET Table /\ cache[q].raced \in BOOLEAN
        /\ OwnTables(q, cache[q].tables)
    BY DEF CacheInv, ListsTyped, AvailabilityTypeOK, Entry
  <2>2. Fresh(q, cache[q].tables, cache[q].raced)
    BY DEF CacheInv, ListsFresh, NoStaleOffer, Fresh
  <2>3. QED  BY <2>1, <2>2, DeskKeepsFresh DEF CacheInv
<1>3. ASSUME NEW r \in Reader, readers[r].op = "fill"
      PROVE  Fresh(readers[r].query, readers[r].tables, readers[r].raced)'
  <2> DEFINE q == readers[r].query
  <2>1. /\ q \in Query /\ readers[r].tables \in SUBSET Table /\ readers[r].raced \in BOOLEAN
        /\ OwnTables(q, readers[r].tables)
    BY <1>3, ListingTyped DEF CacheInv, ListsTyped, AvailabilityTypeOK
  <2>2. Fresh(q, readers[r].tables, readers[r].raced)
    BY <1>3 DEF CacheInv, ListsFresh
  <2>3. readers[r].raced \/ Owed(q.venue)' \/ \A t \in readers[r].tables : ~Taken(t, q)'
    BY <2>1, <2>2, DeskKeepsFresh DEF CacheInv
  <2>4. QED  BY <2>3 DEF Fresh, Owed
<1>4. QED  BY <1>1, <1>2, <1>3 DEF ListsFresh

LEMMA InvalidateKeeps ==
  ASSUME CacheInv, NEW s \in Session, FinishAndInvalidate(s)
  PROVE  ListsTyped' /\ ListsFresh'
<1> DEFINE v == sessions[s].venue
<1>1. /\ sessions[s].op = "invalidate"
      /\ Become(s, Idle)
      /\ UNCHANGED <<bookings, history, now>>
      /\ DOMAIN cache' = {q \in DOMAIN cache : q.venue # v}
      /\ \A q \in DOMAIN cache' : cache'[q] = cache[q]
      /\ \A r \in Reader :
            readers'[r] = IF readers[r].op = "fill" /\ readers[r].query.venue = v
                            THEN [readers[r] EXCEPT !.raced = TRUE]
                            ELSE readers[r]
      /\ DOMAIN readers' = Reader
  BY DEF FinishAndInvalidate, FinishRequest, Invalidate, UnderPrefix, Without
<1>2. cache' \in [DOMAIN cache' -> Entry]
  BY <1>1 DEF FinishAndInvalidate, Invalidate, Without, CacheInv, ListsTyped, AvailabilityTypeOK
<1>3. ASSUME NEW r \in Reader
      PROVE  /\ readers'[r] \in Listing
             /\ readers'[r].op = readers[r].op
             /\ readers[r].op = "fill" =>
                   /\ readers'[r].query = readers[r].query
                   /\ readers'[r].tables = readers[r].tables
                   /\ readers'[r].raced = (readers[r].raced \/ readers[r].query.venue = v)
  <2>1. CASE readers[r].op = "fill"
    <3>1. readers[r] \in [op : {"fill"}, query : Query, tables : SUBSET Table, raced : BOOLEAN]
      BY <2>1, ListingTyped DEF CacheInv, ListsTyped, AvailabilityTypeOK
    <3>2. [readers[r] EXCEPT !.raced = TRUE] \in
              [op : {"fill"}, query : Query, tables : SUBSET Table, raced : BOOLEAN]
      BY <3>1
    <3>3. QED  BY <1>1, <2>1, <3>1, <3>2 DEF Listing
  <2>2. CASE readers[r].op # "fill"
    BY <1>1, <2>2 DEF CacheInv, ListsTyped, AvailabilityTypeOK
  <2>3. QED  BY <2>1, <2>2
<1>4. readers' \in [Reader -> Listing]
  BY <1>1, <1>3 DEF FinishAndInvalidate, Invalidate
<1>5. ListsTyped'
  BY <1>1, <1>2, <1>3, <1>4 DEF CacheInv, ListsTyped, AvailabilityTypeOK, OwnTables
<1>6. \A w : w # v /\ Owed(w) => Owed(w)'
  BY <1>1 DEF Owed, Become, CacheInv, Typed, HandlersTyped
<1>7. \A t, q : Taken(t, q)' <=> Taken(t, q)
  BY <1>1 DEF Taken, Active
<1>8. NoStaleOffer'
  BY <1>1, <1>6, <1>7 DEF CacheInv, ListsFresh, NoStaleOffer
<1>9. \A r \in Reader :
        readers'[r].op = "fill" => Fresh(readers[r].query, readers[r].tables, readers[r].raced)'
  BY <1>3, <1>6, <1>7 DEF CacheInv, ListsFresh, Fresh
<1>10. QED  BY <1>5, <1>8, <1>9 DEF ListsFresh

LEMMA RestartKeeps ==
  ASSUME RestartEmpty
  PROVE  ListsTyped' /\ ListsFresh'
<1>1. /\ DOMAIN cache' = {} /\ cache' \in [{} -> Entry]
      /\ \A r \in Reader : readers'[r] = Resting
      /\ readers' \in [Reader -> Listing]
      /\ Resting.op = "rest"
  BY DEF RestartEmpty, NoEntries, Listing, Resting
<1>2. QED
  BY <1>1 DEF ListsTyped, AvailabilityTypeOK, ListsFresh, NoStaleOffer

LEMMA CacheInvKept == CacheInv /\ [AvailabilityNext]_allVars => CacheInv'
<1> SUFFICES ASSUME CacheInv, [AvailabilityNext]_allVars  PROVE CacheInv'
  OBVIOUS
<1>1. Typed' /\ BranchesKept'
  BY StepOfDesk, NextTyped, BranchesStay DEF CacheInv
<1>2. CASE UNCHANGED allVars
  <2>1. ListsTyped'
    BY <1>2 DEF allVars, CacheInv, ListsTyped, AvailabilityTypeOK, OwnTables
  <2>2. ListsFresh'
    BY <1>2, QuietDesk DEF allVars, CacheInv, ListsFresh, NoStaleOffer, Fresh
  <2>3. QED  BY <1>1, <2>1, <2>2 DEF CacheInv
<1>3. CASE AvailabilityNext
  <2>1. ListsTyped' /\ ListsFresh'
    BY <1>1, <1>3, DeskKeeps, InvalidateKeeps, RestartKeeps, MissKeeps, ReadKeeps, FillKeeps,
       AgeKeeps DEF AvailabilityNext
  <2>2. QED  BY <1>1, <2>1 DEF CacheInv
<1>4. QED  BY <1>2, <1>3

\* A cached list never offers a taken table, except while the invalidation is
\* still owed or when the list was read before it and stored after it.
THEOREM OffersAreFresh == AvailabilitySpec => [](AvailabilityTypeOK /\ NoStaleOffer)
<1>1. AvailabilityInit => CacheInv
  <2> SUFFICES ASSUME AvailabilityInit  PROVE CacheInv
    OBVIOUS
  <2>1. BranchesKept
    BY DEF AvailabilityInit, Init, Idle, BranchesKept
  <2>2. ListsTyped /\ ListsFresh
    BY DEF AvailabilityInit, NoEntries, Resting, Listing, ListsTyped, AvailabilityTypeOK,
           ListsFresh, NoStaleOffer
  <2>3. QED  BY <2>1, <2>2, InitTyped DEF AvailabilityInit, CacheInv
<1>2. CacheInv => AvailabilityTypeOK /\ NoStaleOffer
  BY DEF CacheInv, ListsTyped, ListsFresh
<1>3. QED
  BY <1>1, <1>2, CacheInvKept, PTL DEF AvailabilitySpec

\* In particular the cache holds lists of its queries, through every miss, fill,
\* invalidation and restart.
THEOREM CacheIsTyped == AvailabilitySpec => []AvailabilityTypeOK
  BY OffersAreFresh, PTL

\* Under the cache, its invalidations and the restarts that empty it, the desk
\* is the desk: every step is one of its steps or leaves it as it is, so that
\* what holds of the desk alone holds of the two together.
THEOREM CacheImplementsDesk == AvailabilitySpec => Spec
<1>1. AvailabilityInit => Init
  BY DEF AvailabilityInit
<1>2. [AvailabilityNext]_allVars => [Next]_vars
  BY StepOfDesk
<1>3. QED
  BY <1>1, <1>2, PTL DEF AvailabilitySpec, Spec

\* In particular no table is promised twice, whatever the cache offers meanwhile.
THEOREM NeverDoubleBookedBehindTheCache ==
  AvailabilitySpec => []NoDoubleBooking /\ []OneHallEventPerDay
  BY CacheImplementsDesk, NeverDoubleBooked
=============================================================================
