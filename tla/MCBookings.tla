----------------------------- MODULE MCBookings -----------------------------
(* One restaurant table and one hall at branch v1, two guests' payloads that  *)
(* overlap on the table and one hall event; staff at v1 and at another branch. *)
EXTENDS Bookings, TLC
LOCAL INSTANCE Functions

CONSTANTS guest, waiter, outsider, v1, v2, t1

MCVenueOf == [t \in {t1} |-> v1]
MCSeats == [t \in {t1} |-> 4]
MCTiers == [v \in {v1, v2} |-> IF v = v1 THEN {100} ELSE {}]
MCWorksAt == [u \in {guest, waiter, outsider} |->
                IF u = waiter THEN {v1} ELSE IF u = outsider THEN {v2} ELSE {}]

TableFor(start, end) ==
    [kind |-> "table_reservation", user |-> guest, venue |-> v1, table |-> t1,
     day |-> 0, start |-> start, end |-> end, guests |-> 4]
HallAt(start, end) ==
    [kind |-> "hall_event", user |-> guest, venue |-> v1, table |-> Null,
     day |-> 0, start |-> start, end |-> end, guests |-> 100]

MCOpenAt == {<<v1, 0, 0>>, <<v1, 0, 1>>}
MCRequest == {TableFor(0, 2), TableFor(1, 2), HallAt(0, 1)}
MCTableRequest == {TableFor(0, 2)}

\* Bounds of the runs: no new step from a state with more history than this,
\* all the bookings together; a booking that is the only one may have more, as
\* many rows as two visits, the second of them ended by an old object, need.
CONSTANTS MaxChanges, MaxAlone
HistoryBound ==
    FoldFunction(LAMBDA rows, n : Len(rows) + n, 0, history)
        <= IF Cardinality(DOMAIN bookings) = 1 THEN MaxAlone ELSE MaxChanges

Symmetry == Permutations(BookingId) \cup Permutations(Session)
=============================================================================
