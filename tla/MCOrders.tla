------------------------------ MODULE MCOrders ------------------------------
(* One branch with two tables, one waiter with all the permissions, and two  *)
(* requests that race on a check or on an order number.                       *)
EXTENDS Orders, TLC

CONSTANTS waiter, v1, t1, t2

MCVenueOf == [t \in Table |-> v1]
MCPermits ==
    {<<waiter, v1, p>> : p \in {"orders.open", "orders.add_items", "orders.close"}}

\* Bound of the runs: no new step from a state in which two checks have money.
MoneyOnOneCheck ==
    \A o, p \in DOMAIN orders :
        o # p => orders[o].items + orders[o].paid = 0 \/ orders[p].items + orders[p].paid = 0

Symmetry == Permutations(Waiter) \cup Permutations(OrderId) \cup Permutations(Table)
=============================================================================
