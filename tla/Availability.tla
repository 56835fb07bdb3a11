---------------------------- MODULE Availability ----------------------------
(***************************************************************************)
(* The free-table lists the server computes from the bookings and caches   *)
(* in its one process (bookings/services/availability_service.py,          *)
(* core/cache.py), composed with the booking desk that invalidates them.   *)
(* The desk commits first and invalidates later; a reader asks the         *)
(* database first and fills the cache later.                               *)
(***************************************************************************)
EXTENDS Bookings

CONSTANTS
    Reader,     \* the listings being computed at one time
    Query,      \* what guests ask for, which is the cache key
    Ttl         \* AVAILABILITY_TTL_SECONDS, in ticks of the monotonic clock

ASSUME QueryAssumption ==
    /\ Query \subseteq [venue : Venue, day : Nat, start : Nat, end : Nat, seats : Nat]
    /\ \A q \in Query : q.end <= DayLength
ASSUME TtlAssumption == Ttl \in Nat \ {0}

VARIABLES
    cache,      \* the entries: a function from the keys present
    readers     \* what each listing in flight holds between its awaits

allVars == <<vars, cache, readers>>

\* left counts down to the expiry.  raced is not in the code: it remembers
\* that an invalidation passed while the list was on its way to the cache.
Entry == [left : 0 .. Ttl, tables : SUBSET Table, raced : BOOLEAN]

Resting == [op |-> "rest"]

Listing ==
    {Resting}
    \cup [op : {"query"}, query : Query]
    \cup [op : {"fill"}, query : Query, tables : SUBSET Table, raced : BOOLEAN]

NoEntries == [q \in {} |-> Resting]

AvailabilityInit ==
    /\ Init
    /\ cache = NoEntries
    /\ readers = [r \in Reader |-> Resting]
-----------------------------------------------------------------------------
\* Mutant: the lifetime of an entry is never looked at.
NeverExpires(entry) == FALSE

Expired(entry) == entry.left = 0

\* get answers from the cache, even with an empty list.
Hit(q) == q \in DOMAIN cache /\ ~Expired(cache[q])

Occupied(t, q) ==
    \E b \in DOMAIN bookings :
        /\ Active(b)
        /\ bookings[b].ask.table = t
        /\ bookings[b].ask.day = q.day
        /\ bookings[b].ask.start < q.end
        /\ bookings[b].ask.end > q.start

\* list_available.  Table holds the active tables; nothing in the application
\* writes blocked slots or retires a table.
ListAvailable(q) ==
    {t \in Table : VenueOf[t] = q.venue /\ Seats[t] >= q.seats /\ ~Occupied(t, q)}

Proceed(r, listing) == readers' = [readers EXCEPT ![r] = listing]

Without(keys) == [q \in DOMAIN cache \ keys |-> cache[q]]

\* A listing that misses drops the dead entry and goes to the database.  One
\* that hits answers at once and changes nothing.
Miss(r, q) ==
    /\ readers[r] = Resting
    /\ ~Hit(q)
    /\ cache' = Without({q})
    /\ Proceed(r, [op |-> "query", query |-> q])
    /\ UNCHANGED vars

ReadTables(r) ==
    /\ readers[r].op = "query"
    /\ LET q == readers[r].query IN
        Proceed(r, [op |-> "fill", query |-> q, tables |-> ListAvailable(q), raced |-> FALSE])
    /\ UNCHANGED <<vars, cache>>

FillCache(r) ==
    /\ readers[r].op = "fill"
    /\ LET h == readers[r]
           entry == [left |-> Ttl, tables |-> h.tables, raced |-> h.raced] IN
        cache' = [q \in DOMAIN cache \cup {h.query} |->
                      IF q = h.query THEN entry ELSE cache[q]]
    /\ Proceed(r, Resting)
    /\ UNCHANGED vars

\* Mutant: the deadline slides on with the clock.
SlidesOn(entry) == entry

Older(entry) == IF Expired(entry) THEN entry ELSE [entry EXCEPT !.left = @ - 1]

\* The monotonic clock, which is not the clock bookings are stamped with.
Age ==
    /\ \E q \in DOMAIN cache : ~Expired(cache[q])
    /\ cache' = [q \in DOMAIN cache |-> Older(cache[q])]
    /\ UNCHANGED <<vars, readers>>
-----------------------------------------------------------------------------
\* Mutant: the prefix is built from the wrong id, so that no key starts with it.
UnderNoPrefix(v) == {}

UnderPrefix(v) == {q \in DOMAIN cache : q.venue = v}

\* invalidate(prefix): the entries go; a listing on its way does not notice.
Invalidate(v) ==
    /\ cache' = Without(UnderPrefix(v))
    /\ readers' = [r \in Reader |->
                      IF readers[r].op = "fill" /\ readers[r].query.venue = v
                        THEN [readers[r] EXCEPT !.raced = TRUE]
                        ELSE readers[r]]

FinishAndInvalidate(s) ==
    /\ FinishRequest(s)
    /\ Invalidate(sessions[s].venue)

\* The cache dies with the process, and so do the listings.
RestartEmpty ==
    /\ Restart
    /\ cache' = NoEntries
    /\ readers' = [r \in Reader |-> Resting]

AvailabilityNext ==
    \/ DeskStep /\ UNCHANGED <<cache, readers>>
    \/ \E s \in Session : FinishAndInvalidate(s)
    \/ RestartEmpty
    \/ \E r \in Reader : \/ \E q \in Query : Miss(r, q)
                         \/ ReadTables(r)
                         \/ FillCache(r)
    \/ Age

AvailabilitySpec == AvailabilityInit /\ [][AvailabilityNext]_allVars /\ WF_allVars(Age)
-----------------------------------------------------------------------------
\* The cache and the listings in flight have their types.
AvailabilityTypeOK ==
    /\ DOMAIN cache \subseteq Query
    /\ cache \in [DOMAIN cache -> Entry]
    /\ readers \in [Reader -> Listing]

Owed(v) == \E s \in Session : sessions[s].op = "invalidate" /\ sessions[s].venue = v

Taken(t, q) ==
    \E b \in DOMAIN bookings : /\ Active(b)
                               /\ bookings[b].ask.table = t
                               /\ RangesMeet(bookings[b].ask, q)

\* A cached list offers a taken table only while the request that took it
\* still owes its invalidation, or when the list was read before that
\* invalidation and stored after it.
NoStaleOffer ==
    \A q \in DOMAIN cache :
        \/ cache[q].raced
        \/ Owed(q.venue)
        \/ \A t \in cache[q].tables : ~Taken(t, q)

Stale(q) == Hit(q) /\ cache[q].tables # ListAvailable(q)

\* Whatever slipped in, no list stays wrong: the lifetime of the entries is the
\* backstop for the invalidations that were raced or never sent.
StaleListsEnd == \A q \in Query : []<>~Stale(q)

\* "BookingService invalidates the venue's prefix whenever it writes": without
\* a race and with nothing owed, a cached list is the list of the free tables.
CachedListsAreTrue ==
    \A q \in DOMAIN cache :
        cache[q].raced \/ Owed(q.venue) \/ cache[q].tables = ListAvailable(q)
=============================================================================
