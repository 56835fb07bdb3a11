------------------------- MODULE ReservationLedger -------------------------
(***************************************************************************)
(* What the booking desk promises, with nothing of how it is done: every   *)
(* holder (a booking) holds a set of cells (one table for one tick of      *)
(* time, or one hall for one day), and no cell ever has two holders.       *)
(* Bookings.tla is shown to implement this specification.                  *)
(***************************************************************************)

CONSTANTS
    Holder,     \* whoever may hold something: the bookings
    Cell        \* what can be held

VARIABLE held   \* held[h] is the set of cells h holds now

LedgerTypeOK == held \in [Holder -> SUBSET Cell]

LedgerInit == held = [h \in Holder |-> {}]

\* A holder with nothing takes cells nobody else holds, all at once.
Take(h) ==
    /\ held[h] = {}
    /\ held'[h] \in SUBSET Cell
    /\ \A g \in Holder \ {h} : held[g] \cap held'[h] = {}
    /\ held' = [held EXCEPT ![h] = held'[h]]

\* Some holders give up everything they hold; nobody gains anything.
Release ==
    held' = [h \in Holder |-> IF held'[h] = {} THEN {} ELSE held[h]]

LedgerNext == (\E h \in Holder : Take(h)) \/ Release

LedgerSpec == LedgerInit /\ [][LedgerNext]_held

\* No cell has two holders.
Exclusive == \A g, h \in Holder : g # h => held[g] \cap held[h] = {}
=============================================================================
