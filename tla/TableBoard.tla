----------------------------- MODULE TableBoard -----------------------------
(***************************************************************************)
(* What the waiters' board promises: a table shows one check or none, a    *)
(* check comes to the board once and never comes back after it has left.   *)
(* Orders.tla is shown to implement this specification.                    *)
(***************************************************************************)

CONSTANTS
    Spot,       \* the tables
    Check,      \* the orders
    NoCheck     \* what a free table shows

VARIABLES
    shown,      \* shown[t]: the check on table t, or NoCheck
    known       \* the checks that have ever been on the board

BoardInit ==
    /\ shown = [t \in Spot |-> NoCheck]
    /\ known = {}

Seat(t, c) ==
    /\ shown[t] = NoCheck
    /\ c \in Check \ known
    /\ shown' = [shown EXCEPT ![t] = c]
    /\ known' = known \cup {c}

Leave(t) ==
    /\ shown[t] # NoCheck
    /\ shown' = [shown EXCEPT ![t] = NoCheck]
    /\ UNCHANGED known

BoardNext == \E t \in Spot : Leave(t) \/ \E c \in Check : Seat(t, c)

BoardSpec == BoardInit /\ [][BoardNext]_<<shown, known>>
=============================================================================
