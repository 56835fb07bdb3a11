--------------------------- MODULE MCAvailability ---------------------------
(* One branch with two tables, a guest after one of them, and one window that *)
(* two listings ask for.                                                      *)
EXTENDS Availability, TLC

CONSTANTS guest, waiter, v1, t1, t2

MCVenueOf == [t \in {t1, t2} |-> v1]
MCSeats == [t \in {t1, t2} |-> 4]
MCTiers == [v \in {v1} |-> {}]
MCWorksAt == [u \in {guest, waiter} |-> IF u = waiter THEN {v1} ELSE {}]
MCOpenAt == {<<v1, 0, 0>>}

MCRequest ==
    {[kind |-> "table_reservation", user |-> guest, venue |-> v1, table |-> t1,
      day |-> 0, start |-> 0, end |-> 2, guests |-> 4]}
MCQuery == {[venue |-> v1, day |-> 0, start |-> 1, end |-> 2, seats |-> 2]}
=============================================================================
