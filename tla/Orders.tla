------------------------------- MODULE Orders -------------------------------
(***************************************************************************)
(* Checks on tables (backend/app/modules/orders): waiters open a table,    *)
(* add dishes, take payments, close or cancel.  Each request is one        *)
(* transaction under READ COMMITTED.  Its statements are steps of their    *)
(* own while they only read; from its first write of the order row to the  *)
(* commit the row is locked and nothing of it is visible, so that part is  *)
(* one step.                                                               *)
(***************************************************************************)
EXTENDS Integers, Sequences, FiniteSets

CONSTANTS
    OrderId,        \* primary keys the table can hand out
    Waiter,         \* the requests in flight
    User,
    Venue,
    Table,
    NoOne,          \* nobody holds a lock, no check on a table
    VenueOf,        \* VenueOf[t]: the branch table t stands in
    Permits,        \* the triples <<user, venue, permission>> that the staff
                    \* rows grant; each comes with an employment row
    Price,          \* what one call of add_items adds up to
    Amount,         \* what a guest may pay at once
    LastDay,        \* bound on the business days
    MaxBill,        \* bound on the items of a check when a request starts
    MaxPaid,        \* bound on its payments when a request starts
    MaxReprints     \* bound on the reprint counter

ASSUME FloorAssumption ==
    /\ VenueOf \in [Table -> Venue]
    /\ NoOne \notin Waiter \cup OrderId
ASSUME MoneyAssumption == Price \subseteq Nat /\ Amount \subseteq Nat
ASSUME BoundAssumption ==
    LastDay \in Nat /\ MaxBill \in Nat /\ MaxPaid \in Nat /\ MaxReprints \in Nat

VARIABLES
    orders,     \* a function from the ids inserted so far to rows
    receipts,   \* a function from the orders with a receipt to receipts
    closings,   \* order_status_history, in order, per order
    venueLock,  \* who holds SELECT ... FOR UPDATE on the branch's row
    waiters,    \* what each request in flight holds between its steps
    today       \* the business day the clock stands in

vars == <<orders, receipts, closings, venueLock, waiters, today>>
-----------------------------------------------------------------------------
\* served is a status of the schema that nothing in the application sets.
Statuses == {"open", "in_progress", "served", "awaiting_payment", "completed", "cancelled"}

CLOSED_ORDER_STATUSES == {"completed", "cancelled"}

CLOSEABLE_ORDER_STATUSES == {"served", "awaiting_payment"}

\* items and paid are the sums of the committed order_items and order_payments.
Row == [table : Table, number : Nat, date : Nat, status : Statuses,
        total : Nat, items : Nat, paid : Nat]

\* The frozen payload: the total, the printed lines and payments, added up.
Receipt == [total : Nat, lines : Nat, paid : Nat, reprints : Nat]

Idle == [op |-> "idle"]

Request ==
    {Idle}
    \cup [op : {"lock", "number"}, table : Table, date : Nat]
    \cup [op : {"insert"}, table : Table, date : Nat, number : Nat]
    \cup [op : {"add"}, order : OrderId, seen : Statuses, price : Price]
    \cup [op : {"recalculate"}, order : OrderId, seen : Statuses, price : Price, sum : Nat]
    \cup [op : {"pay"}, order : OrderId, amount : Amount, total : Nat]
    \cup [op : {"settle"}, order : OrderId, amount : Amount, covers : BOOLEAN]
    \cup [op : {"close", "print"}, order : OrderId, total : Nat]
    \cup [op : {"issue"}, order : OrderId, total : Nat, lines : Nat, paid : Nat]

Live(o) == orders[o].status \notin CLOSED_ORDER_STATUSES

OnDay(v, d) == {o \in DOMAIN orders : VenueOf[orders[o].table] = v /\ orders[o].date = d}

Init ==
    /\ orders = [o \in {} |-> Idle]
    /\ receipts = [o \in {} |-> Idle]
    /\ closings = [o \in OrderId |-> <<>>]
    /\ venueLock = [v \in Venue |-> NoOne]
    /\ waiters = [w \in Waiter |-> Idle]
    /\ today = 0

Become(w, request) == waiters' = [waiters EXCEPT ![w] = request]

May(v, permission) == \E u \in User : <<u, v, permission>> \in Permits
-----------------------------------------------------------------------------
(* Opening a table: next_order_number under the lock of the branch's row. *)

BeginOpen(w, t) ==
    /\ waiters[w] = Idle
    /\ May(VenueOf[t], "orders.open")
    /\ Become(w, [op |-> "lock", table |-> t, date |-> today])
    /\ UNCHANGED <<orders, receipts, closings, venueLock, today>>

\* Mutant: a bare MAX + 1, without FOR UPDATE.
LockNothing(w) ==
    /\ waiters[w].op = "lock"
    /\ Become(w, [waiters[w] EXCEPT !.op = "number"])
    /\ UNCHANGED <<orders, receipts, closings, venueLock, today>>

LockVenue(w) ==
    /\ waiters[w].op = "lock"
    /\ venueLock[VenueOf[waiters[w].table]] = NoOne
    /\ venueLock' = [venueLock EXCEPT ![VenueOf[waiters[w].table]] = w]
    /\ Become(w, [waiters[w] EXCEPT !.op = "number"])
    /\ UNCHANGED <<orders, receipts, closings, today>>

\* The largest number of the branch's day, zero when it has none.
MaxNumber(v, d) ==
    LET numbers == {0} \cup {orders[o].number : o \in OnDay(v, d)}
    IN  CHOOSE n \in numbers : \A m \in numbers : m <= n

ReadNumber(w) ==
    /\ waiters[w].op = "number"
    /\ LET h == waiters[w] IN
        Become(w, [op |-> "insert", table |-> h.table, date |-> h.date,
                   number |-> MaxNumber(VenueOf[h.table], h.date) + 1])
    /\ UNCHANGED <<orders, receipts, closings, venueLock, today>>

\* one_open_order_per_table and UNIQUE (venue_id, business_date, order_number).
TableFree(t) == \A o \in DOMAIN orders : orders[o].table = t => ~Live(o)

NumberFree(v, d, n) == \A o \in OnDay(v, d) : orders[o].number # n

ReleaseVenue(w) ==
    venueLock' = [v \in Venue |-> IF venueLock[v] = w THEN NoOne ELSE venueLock[v]]

NewRow(h) == [table |-> h.table, number |-> h.number, date |-> h.date, status |-> "open",
              total |-> 0, items |-> 0, paid |-> 0]

InsertOrder(w, o) ==
    /\ waiters[w].op = "insert"
    /\ o \in OrderId \ DOMAIN orders
    /\ LET h == waiters[w] IN
        /\ TableFree(h.table)
        /\ NumberFree(VenueOf[h.table], h.date, h.number)
        /\ orders' = [p \in DOMAIN orders \cup {o} |-> IF p = o THEN NewRow(h) ELSE orders[p]]
    /\ ReleaseVenue(w)
    /\ Become(w, Idle)
    /\ UNCHANGED <<receipts, closings, today>>

\* IntegrityError, translated; the rollback gives the lock and the number back.
RefuseOpen(w) ==
    /\ waiters[w].op = "insert"
    /\ LET h == waiters[w] IN
        ~TableFree(h.table) \/ ~NumberFree(VenueOf[h.table], h.date, h.number)
    /\ ReleaseVenue(w)
    /\ Become(w, Idle)
    /\ UNCHANGED <<orders, receipts, closings, today>>
-----------------------------------------------------------------------------
(* Adding dishes.  The order is read once, without a lock; the totals come    *)
(* from one UPDATE whose subquery reads the snapshot the statement began with *)
(* even if the statement then waits for the row.                              *)

\* Mutant: the guard on a closed check is missing.
AdvanceAlways(o, status) == status

\* set_status refuses to touch a completed or cancelled check.
Advance(o, status) == IF Live(o) THEN status ELSE orders[o].status

BeginAddItems(w, o, price) ==
    /\ waiters[w] = Idle
    /\ o \in DOMAIN orders
    /\ May(VenueOf[orders[o].table], "orders.add_items")
    /\ Live(o)
    /\ orders[o].items <= MaxBill
    /\ Become(w, [op |-> "add", order |-> o, seen |-> orders[o].status, price |-> price])
    /\ UNCHANGED <<orders, receipts, closings, venueLock, today>>

\* Mutant: the new sum goes on top of the old total.
SumOnTop(o, price) == orders[o].total + orders[o].items + price

\* Mutant: the price of a dish is taken off.
SumOff(o, price) == orders[o].items - price

\* The items others have committed, and the request's own.
SumItems(o, price) == orders[o].items + price

SnapshotTotals(w) ==
    /\ waiters[w].op = "add"
    /\ LET h == waiters[w] IN
        Become(w, [op |-> "recalculate", order |-> h.order, seen |-> h.seen,
                   price |-> h.price, sum |-> SumItems(h.order, h.price)])
    /\ UNCHANGED <<orders, receipts, closings, venueLock, today>>

CommitItems(w) ==
    /\ waiters[w].op = "recalculate"
    /\ LET h == waiters[w] IN
        orders' = [orders EXCEPT
            ![h.order].items = @ + h.price,
            ![h.order].total = h.sum,
            ![h.order].status = IF h.seen = "open" THEN Advance(h.order, "in_progress") ELSE @]
    /\ Become(w, Idle)
    /\ UNCHANGED <<receipts, closings, venueLock, today>>
-----------------------------------------------------------------------------
(* Payments.  Each request sums what is committed and its own, and compares *)
(* with the total it read at first.                                         *)

BeginPayment(w, o, amount) ==
    /\ waiters[w] = Idle
    /\ o \in DOMAIN orders
    /\ May(VenueOf[orders[o].table], "orders.close")
    /\ Live(o)
    /\ orders[o].paid <= MaxPaid
    /\ Become(w, [op |-> "pay", order |-> o, amount |-> amount, total |-> orders[o].total])
    /\ UNCHANGED <<orders, receipts, closings, venueLock, today>>

SumPayments(w) ==
    /\ waiters[w].op = "pay"
    /\ LET h == waiters[w] IN
        Become(w, [op |-> "settle", order |-> h.order, amount |-> h.amount,
                   covers |-> orders[h.order].paid + h.amount >= h.total])
    /\ UNCHANGED <<orders, receipts, closings, venueLock, today>>

CommitPayment(w) ==
    /\ waiters[w].op = "settle"
    /\ LET h == waiters[w] IN
        orders' = [orders EXCEPT
            ![h.order].paid = @ + h.amount,
            ![h.order].status = IF h.covers THEN Advance(h.order, "awaiting_payment") ELSE @]
    /\ Become(w, Idle)
    /\ UNCHANGED <<receipts, closings, venueLock, today>>
-----------------------------------------------------------------------------
(* Closing: the total is read first, then the payments, then what is printed; *)
(* the receipt and the guarded UPDATE commit together or not at all.          *)

BeginClose(w, o) ==
    /\ waiters[w] = Idle
    /\ o \in DOMAIN orders
    /\ May(VenueOf[orders[o].table], "orders.close")
    /\ Become(w, [op |-> "close", order |-> o, total |-> orders[o].total])
    /\ UNCHANGED <<orders, receipts, closings, venueLock, today>>

\* Mutant: a close without the payments.
NothingOutstanding(paid, total) == TRUE

Covered(paid, total) == paid >= total

CheckPaid(w) ==
    /\ waiters[w].op = "close"
    /\ LET h == waiters[w] IN
        IF Covered(orders[h.order].paid, h.total)
          THEN Become(w, [h EXCEPT !.op = "print"])
          ELSE Become(w, Idle)
    /\ UNCHANGED <<orders, receipts, closings, venueLock, today>>

ReadLines(w) ==
    /\ waiters[w].op = "print"
    /\ LET h == waiters[w] IN
        Become(w, [op |-> "issue", order |-> h.order, total |-> h.total,
                   lines |-> orders[h.order].items, paid |-> orders[h.order].paid])
    /\ UNCHANGED <<orders, receipts, closings, venueLock, today>>

\* Mutant: the UPDATE is not guarded by the status.
CloseableAlways(o) == TRUE

Closeable(o) == orders[o].status \in CLOSEABLE_ORDER_STATUSES

IssueAndClose(w) ==
    /\ waiters[w].op = "issue"
    /\ LET h == waiters[w] IN
        /\ h.order \notin DOMAIN receipts
        /\ Closeable(h.order)
        /\ receipts' = [o \in DOMAIN receipts \cup {h.order} |->
                            IF o = h.order
                              THEN [total |-> h.total, lines |-> h.lines, paid |-> h.paid,
                                    reprints |-> 0]
                              ELSE receipts[o]]
        /\ orders' = [orders EXCEPT ![h.order].status = "completed"]
        /\ closings' = [closings EXCEPT ![h.order] = Append(@, "completed")]
    /\ Become(w, Idle)
    /\ UNCHANGED <<venueLock, today>>

\* ReceiptAlreadyIssuedError, or the check is not ready to close.
RefuseClose(w) ==
    /\ waiters[w].op = "issue"
    /\ waiters[w].order \in DOMAIN receipts \/ ~Closeable(waiters[w].order)
    /\ Become(w, Idle)
    /\ UNCHANGED <<orders, receipts, closings, venueLock, today>>

\* One guarded UPDATE.  The permission is for the branch named in the request,
\* and the order's own branch is not compared with it.
CancelOrder(v, o) ==
    /\ May(v, "orders.close")
    /\ o \in DOMAIN orders
    /\ Live(o)
    /\ orders' = [orders EXCEPT ![o].status = "cancelled"]
    /\ closings' = [closings EXCEPT ![o] = Append(@, "cancelled")]
    /\ UNCHANGED <<receipts, venueLock, waiters, today>>

\* Mutant: the copy is printed from the check as it is now.
ReprintLive(v, o) ==
    /\ May(v, "orders.close")
    /\ o \in DOMAIN receipts
    /\ receipts[o].reprints < MaxReprints
    /\ receipts' = [receipts EXCEPT ![o].reprints = @ + 1, ![o].lines = orders[o].items]
    /\ UNCHANGED <<orders, closings, venueLock, waiters, today>>

Reprint(v, o) ==
    /\ May(v, "orders.close")
    /\ o \in DOMAIN receipts
    /\ receipts[o].reprints < MaxReprints
    /\ receipts' = [receipts EXCEPT ![o].reprints = @ + 1]
    /\ UNCHANGED <<orders, closings, venueLock, waiters, today>>
-----------------------------------------------------------------------------
\* The request fails or the process dies: the transaction rolls back.
Abort(w) ==
    /\ waiters[w] # Idle
    /\ ReleaseVenue(w)
    /\ Become(w, Idle)
    /\ UNCHANGED <<orders, receipts, closings, today>>

NextDay ==
    /\ today < LastDay
    /\ today' = today + 1
    /\ UNCHANGED <<orders, receipts, closings, venueLock, waiters>>

Open(w) ==
    \/ \E t \in Table : BeginOpen(w, t)
    \/ LockVenue(w)
    \/ ReadNumber(w)
    \/ \E o \in OrderId : InsertOrder(w, o)
    \/ RefuseOpen(w)

AddItems(w) ==
    \/ \E o \in OrderId, price \in Price : BeginAddItems(w, o, price)
    \/ SnapshotTotals(w)
    \/ CommitItems(w)

AddPayment(w) ==
    \/ \E o \in OrderId, amount \in Amount : BeginPayment(w, o, amount)
    \/ SumPayments(w)
    \/ CommitPayment(w)

Close(w) ==
    \/ \E o \in OrderId : BeginClose(w, o)
    \/ CheckPaid(w)
    \/ ReadLines(w)
    \/ IssueAndClose(w)
    \/ RefuseClose(w)

Next ==
    \/ \E w \in Waiter : Open(w) \/ AddItems(w) \/ AddPayment(w) \/ Close(w) \/ Abort(w)
    \/ \E v \in Venue, o \in OrderId : CancelOrder(v, o) \/ Reprint(v, o)
    \/ NextDay

Spec == Init /\ [][Next]_vars
-----------------------------------------------------------------------------
\* Every variable has its type, and a request in flight works on a stored row.
TypeOK ==
    /\ DOMAIN orders \subseteq OrderId
    /\ orders \in [DOMAIN orders -> Row]
    /\ DOMAIN receipts \subseteq DOMAIN orders
    /\ receipts \in [DOMAIN receipts -> Receipt]
    /\ closings \in [OrderId -> Seq(CLOSED_ORDER_STATUSES)]
    /\ venueLock \in [Venue -> Waiter \cup {NoOne}]
    /\ waiters \in [Waiter -> Request]
    /\ \A w \in Waiter :
          waiters[w].op \in {"add", "recalculate", "pay", "settle", "close", "print", "issue"} =>
              waiters[w].order \in DOMAIN orders
    /\ today \in Nat

\* The numbers of a branch's day run from 1 without a gap or a repetition, and
\* a waiter holding a fresh number is the only one and will not be refused it.
NumbersInSequence ==
    /\ \A v \in Venue, d \in 0 .. LastDay :
          {orders[o].number : o \in OnDay(v, d)} = 1 .. Cardinality(OnDay(v, d))
    /\ \A w \in Waiter :
          waiters[w].op = "insert" =>
              NumberFree(VenueOf[waiters[w].table], waiters[w].date, waiters[w].number)

\* An order has left the board exactly when its history holds the one row that
\* says how, and it has a receipt exactly when it was completed.
ClosedOnce ==
    /\ \A o \in OrderId \ DOMAIN orders : closings[o] = <<>>
    /\ \A o \in DOMAIN orders :
          /\ closings[o] = IF Live(o) THEN <<>> ELSE <<orders[o].status>>
          /\ o \in DOMAIN receipts <=> orders[o].status = "completed"

\* Lost updates of the totals only ever forget dishes: no check asks for more
\* than was ordered, and no receipt prints a total above its lines.
NeverOvercharged ==
    /\ \A o \in DOMAIN orders : orders[o].total <= orders[o].items
    /\ \A o \in DOMAIN receipts : receipts[o].total <= receipts[o].lines

\* The payments a receipt prints cover the total it prints, whatever was added
\* to the check while it was closing.
ReceiptIsCovered == \A o \in DOMAIN receipts : receipts[o].paid >= receipts[o].total

\* A printed receipt never changes but for its reprint counter, which only grows.
ReceiptsAreFrozen ==
    [][\A o \in DOMAIN receipts :
          /\ o \in DOMAIN receipts'
          /\ receipts'[o] = [receipts[o] EXCEPT !.reprints = receipts'[o].reprints]
          /\ receipts'[o].reprints >= receipts[o].reprints]_vars

ShownOn(t) == {o \in DOMAIN orders : orders[o].table = t /\ Live(o)}

\* The left join of table_board, which can never fan out.
Board == INSTANCE TableBoard WITH
    Spot <- Table, Check <- OrderId, NoCheck <- NoOne,
    shown <- [t \in Table |-> IF ShownOn(t) = {} THEN NoOne ELSE CHOOSE o \in ShownOn(t) : TRUE],
    known <- DOMAIN orders

\* Every behaviour of the orders is one of the table board.
ImplementsBoard == Board!BoardSpec
-----------------------------------------------------------------------------
(* Statements of the code's own documentation that the code does not keep *)

\* "One UPDATE ... FROM (SELECT SUM ...), so the totals can never drift from the
\* items": the stored total is the sum of the stored items.
TotalsMatchItems == \A o \in DOMAIN orders : orders[o].total = orders[o].items

\* "A check cannot close until its payments cover the total": a completed
\* check is paid.
CompletedIsPaid ==
    \A o \in DOMAIN orders : orders[o].status = "completed" => orders[o].paid >= orders[o].total
=============================================================================
