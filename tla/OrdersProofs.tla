---------------------------- MODULE OrdersProofs ----------------------------
(* Machine-checked theorems about Orders.tla, for every set of tables,       *)
(* requests, staff and prices.                                               *)
EXTENDS Orders, TLAPS, FiniteSetTheorems

RowsTyped ==
    /\ DOMAIN orders \subseteq OrderId
    /\ orders \in [DOMAIN orders -> Row]
    /\ DOMAIN receipts \subseteq DOMAIN orders
    /\ receipts \in [DOMAIN receipts -> Receipt]
    /\ closings \in [OrderId -> Seq(CLOSED_ORDER_STATUSES)]
    /\ venueLock \in [Venue -> Waiter \cup {NoOne}]
    /\ today \in Nat

OnOrder == {"add", "recalculate", "pay", "settle", "close", "print", "issue"}

Fits(h) == h \in Request /\ (h.op \in OnOrder => h.order \in DOMAIN orders)

WaitersTyped == waiters \in [Waiter -> Request] /\ \A w \in Waiter : Fits(waiters[w])

Typed == RowsTyped /\ WaitersTyped

\* The numbers of a branch's day, and what a waiter with the branch's lock knows
\* of them.  That the maximum exists at all rests on this.
DayNumbers(v, d) == {orders[o].number : o \in OnDay(v, d)}

Numbered ==
    /\ IsFiniteSet(DOMAIN orders)
    /\ \A v \in Venue, d \in Nat : DayNumbers(v, d) = 1 .. Cardinality(OnDay(v, d))

HoldsNumber(w) ==
    /\ waiters[w].op \in {"number", "insert"} => venueLock[VenueOf[waiters[w].table]] = w
    /\ waiters[w].op = "insert" =>
          waiters[w].number = Cardinality(OnDay(VenueOf[waiters[w].table], waiters[w].date)) + 1

NumInv == Numbered /\ \A w \in Waiter : HoldsNumber(w)

LEMMA TypedIsTypeOK == Typed <=> TypeOK
  BY DEF Typed, RowsTyped, WaitersTyped, Fits, OnOrder, TypeOK

LEMMA InitTyped == Init => Typed
  BY DEF Init, Typed, RowsTyped, WaitersTyped, Fits, OnOrder, Idle, Request

\* A step that moves one request and forgets no check keeps every request
\* typed, if it leaves that one in a fitting state.
LEMMA OneWaiterMoves ==
  ASSUME WaitersTyped, NEW w \in Waiter,
         waiters' = [waiters EXCEPT ![w] = waiters'[w]],
         Fits(waiters[w])', DOMAIN orders \subseteq DOMAIN orders'
  PROVE  WaitersTyped'
  BY DEF WaitersTyped, Fits

LEMMA BecomeMoves ==
  ASSUME WaitersTyped, NEW w \in Waiter, NEW STATE h, Become(w, h)
  PROVE  waiters'[w] = h /\ waiters' = [waiters EXCEPT ![w] = waiters'[w]]
  BY DEF WaitersTyped, Become

LEMMA IdleFits ==
  ASSUME WaitersTyped, NEW w \in Waiter, Become(w, Idle), DOMAIN orders \subseteq DOMAIN orders'
  PROVE  WaitersTyped'
<1>1. Fits(waiters[w])'
  BY BecomeMoves DEF Fits, Request, Idle, OnOrder
<1>2. QED  BY <1>1, BecomeMoves, OneWaiterMoves

\* What a request in flight carries, by the step it has reached.
LEMMA WaiterFields ==
  ASSUME Typed, NEW w \in Waiter
  PROVE  LET h == waiters[w] IN
         /\ h.op \in {"lock", "number", "insert"} => h.table \in Table /\ h.date \in Nat
         /\ h.op = "insert" => h.number \in Nat
         /\ h.op \in OnOrder => h.order \in DOMAIN orders /\ h.order \in OrderId
         /\ h.op \in {"add", "recalculate"} => h.seen \in Statuses /\ h.price \in Price
         /\ h.op = "recalculate" => h.sum \in Nat
         /\ h.op \in {"pay", "settle"} => h.amount \in Amount
         /\ h.op = "pay" => h.total \in Nat
         /\ h.op = "settle" => h.covers \in BOOLEAN
         /\ h.op \in {"close", "print", "issue"} => h.total \in Nat
         /\ h.op = "issue" => h.lines \in Nat /\ h.paid \in Nat
  BY DEF Typed, RowsTyped, WaitersTyped, Fits, Request, Idle, OnOrder

Begins(w) ==
    \/ \E t \in Table : BeginOpen(w, t)
    \/ \E o \in OrderId : \/ \E price \in Price : BeginAddItems(w, o, price)
                          \/ \E amount \in Amount : BeginPayment(w, o, amount)
                          \/ BeginClose(w, o)

\* Steps of a request that only read.
Reads(w) == \/ Begins(w) \/ LockVenue(w) \/ ReadNumber(w)
            \/ SnapshotTotals(w) \/ SumPayments(w) \/ CheckPaid(w) \/ ReadLines(w)

LEMMA QuietRows ==
  ASSUME RowsTyped, UNCHANGED <<orders, receipts, closings, today>>,
         venueLock' \in [Venue -> Waiter \cup {NoOne}]
  PROVE  RowsTyped'
  BY DEF RowsTyped

LEMMA BeginTyped ==
  ASSUME Typed, NEW w \in Waiter, Begins(w)
  PROVE  Typed'
<1>0. UNCHANGED <<orders, receipts, closings, venueLock, today>>
  BY DEF Begins, BeginOpen, BeginAddItems, BeginPayment, BeginClose
<1>1. RowsTyped'
  BY <1>0 DEF Typed, RowsTyped
<1>2. Fits(waiters[w])' /\ waiters' = [waiters EXCEPT ![w] = waiters'[w]]
  <2>1. ASSUME NEW t \in Table, BeginOpen(w, t)
        PROVE  Fits(waiters[w])' /\ waiters' = [waiters EXCEPT ![w] = waiters'[w]]
    <3>1. waiters'[w] = [op |-> "lock", table |-> t, date |-> today]
      BY <2>1, BecomeMoves DEF BeginOpen, Typed
    <3>2. waiters'[w] \in Request /\ waiters'[w].op \notin OnOrder
      BY <3>1 DEF Typed, RowsTyped, Request, OnOrder
    <3>3. QED  BY <2>1, <3>2, BecomeMoves DEF BeginOpen, Typed, Fits
  <2>2. ASSUME NEW o \in OrderId, NEW price \in Price, BeginAddItems(w, o, price)
        PROVE  Fits(waiters[w])' /\ waiters' = [waiters EXCEPT ![w] = waiters'[w]]
    <3>1. /\ o \in DOMAIN orders /\ orders[o].status \in Statuses
          /\ waiters'[w] = [op |-> "add", order |-> o, seen |-> orders[o].status, price |-> price]
      BY <2>2, BecomeMoves DEF BeginAddItems, Typed, RowsTyped, Row
    <3>2. waiters'[w] \in Request
      BY <3>1 DEF Request
    <3>3. QED  BY <2>2, <3>1, <3>2, <1>0, BecomeMoves DEF BeginAddItems, Typed, Fits
  <2>3. ASSUME NEW o \in OrderId, NEW amount \in Amount, BeginPayment(w, o, amount)
        PROVE  Fits(waiters[w])' /\ waiters' = [waiters EXCEPT ![w] = waiters'[w]]
    <3>1. /\ o \in DOMAIN orders /\ orders[o].total \in Nat
          /\ waiters'[w] = [op |-> "pay", order |-> o, amount |-> amount,
                            total |-> orders[o].total]
      BY <2>3, BecomeMoves DEF BeginPayment, Typed, RowsTyped, Row
    <3>2. waiters'[w] \in Request
      BY <3>1 DEF Request
    <3>3. QED  BY <2>3, <3>1, <3>2, <1>0, BecomeMoves DEF BeginPayment, Typed, Fits
  <2>4. ASSUME NEW o \in OrderId, BeginClose(w, o)
        PROVE  Fits(waiters[w])' /\ waiters' = [waiters EXCEPT ![w] = waiters'[w]]
    <3>1. /\ o \in DOMAIN orders /\ orders[o].total \in Nat
          /\ waiters'[w] = [op |-> "close", order |-> o, total |-> orders[o].total]
      BY <2>4, BecomeMoves DEF BeginClose, Typed, RowsTyped, Row
    <3>2. waiters'[w] \in Request
      BY <3>1 DEF Request
    <3>3. QED  BY <2>4, <3>1, <3>2, <1>0, BecomeMoves DEF BeginClose, Typed, Fits
  <2>5. QED  BY <2>1, <2>2, <2>3, <2>4 DEF Begins
<1>3. QED  BY <1>0, <1>1, <1>2, OneWaiterMoves DEF Typed

LEMMA CountOfDay ==
  ASSUME Numbered, NEW v, NEW d
  PROVE  IsFiniteSet(OnDay(v, d)) /\ Cardinality(OnDay(v, d)) \in Nat
<1>1. OnDay(v, d) \subseteq DOMAIN orders
  BY DEF OnDay
<1>2. QED  BY <1>1, FS_Subset, FS_CardinalityType DEF Numbered

\* The largest number of a day is how many checks it has.
LEMMA MaxNumberCounts ==
  ASSUME Numbered, NEW v \in Venue, NEW d \in Nat
  PROVE  MaxNumber(v, d) = Cardinality(OnDay(v, d))
<1> DEFINE n == Cardinality(OnDay(v, d))
           numbers == {0} \cup DayNumbers(v, d)
<1>1. n \in Nat
  BY CountOfDay
<1>2. DayNumbers(v, d) = 1 .. n
  BY DEF Numbered
<1>3. n \in numbers /\ \A m \in numbers : m <= n
  BY <1>1, <1>2
<1>4. \A k \in numbers : (\A m \in numbers : m <= k) => k = n
  BY <1>1, <1>2, <1>3
<1>5. MaxNumber(v, d) = CHOOSE k \in numbers : \A m \in numbers : m <= k
  BY DEF MaxNumber, DayNumbers
<1> HIDE DEF n, numbers
<1>6. QED  BY <1>3, <1>4, <1>5 DEF n

LEMMA ReadTyped ==
  ASSUME Typed, NumInv, NEW w \in Waiter, Reads(w)
  PROVE  Typed'
<1> DEFINE h == waiters[w]
<1>0. /\ UNCHANGED <<orders, receipts, closings, today>>
      /\ ~Begins(w) => h.op \in {"lock", "number", "add", "pay", "close", "print"}
      /\ venueLock' \in [Venue -> Waiter \cup {NoOne}]
  BY DEF Reads, Begins, LockVenue, ReadNumber, SnapshotTotals, SumPayments, CheckPaid, ReadLines,
         BeginOpen, BeginAddItems, BeginPayment, BeginClose, Typed, RowsTyped
<1>1. RowsTyped'
  BY <1>0, QuietRows DEF Typed
<1>2. CASE LockVenue(w)
  <2>1. h \in [op : {"lock"}, table : Table, date : Nat]
    BY <1>2 DEF LockVenue, Typed, WaitersTyped, Request, Idle
  <2>2. waiters'[w] = [h EXCEPT !.op = "number"]
    BY <1>2, BecomeMoves DEF LockVenue, Typed
  <2>3. waiters'[w] \in Request /\ waiters'[w].op \notin OnOrder
    BY <2>1, <2>2 DEF Request, OnOrder
  <2>4. QED
    BY <1>0, <1>1, <1>2, <2>3, BecomeMoves, OneWaiterMoves DEF LockVenue, Typed, Fits
<1>3. CASE ReadNumber(w)
  <2>1. h.table \in Table /\ h.date \in Nat
    BY <1>3, WaiterFields DEF ReadNumber
  <2>2. MaxNumber(VenueOf[h.table], h.date) \in Nat
    BY <2>1, MaxNumberCounts, CountOfDay, FloorAssumption DEF NumInv
  <2>3. waiters'[w] = [op |-> "insert", table |-> h.table, date |-> h.date,
                       number |-> MaxNumber(VenueOf[h.table], h.date) + 1]
    BY <1>3, BecomeMoves DEF ReadNumber, Typed
  <2>4. waiters'[w] \in Request /\ waiters'[w].op \notin OnOrder
    BY <2>1, <2>2, <2>3 DEF Request, OnOrder
  <2>5. QED
    BY <1>0, <1>1, <1>3, <2>4, BecomeMoves, OneWaiterMoves DEF ReadNumber, Typed, Fits
<1>4. CASE SnapshotTotals(w)
  <2>1. h.order \in DOMAIN orders /\ h.order \in OrderId /\ h.seen \in Statuses /\ h.price \in Price
    BY <1>4, WaiterFields DEF SnapshotTotals, OnOrder
  <2>2. SumItems(h.order, h.price) \in Nat
    BY <2>1, MoneyAssumption DEF SumItems, Typed, RowsTyped, Row
  <2>3. waiters'[w] = [op |-> "recalculate", order |-> h.order, seen |-> h.seen,
                       price |-> h.price, sum |-> SumItems(h.order, h.price)]
    BY <1>4, BecomeMoves DEF SnapshotTotals, Typed
  <2>4. waiters'[w] \in Request /\ waiters'[w].order = h.order
    BY <2>1, <2>2, <2>3 DEF Request
  <2>5. QED
    BY <1>0, <1>1, <1>4, <2>1, <2>4, BecomeMoves, OneWaiterMoves DEF SnapshotTotals, Typed, Fits
<1>5. CASE SumPayments(w)
  <2>1. h.order \in DOMAIN orders /\ h.order \in OrderId /\ h.amount \in Amount
    BY <1>5, WaiterFields DEF SumPayments, OnOrder
  <2>2. waiters'[w] = [op |-> "settle", order |-> h.order, amount |-> h.amount,
                       covers |-> orders[h.order].paid + h.amount >= h.total]
    BY <1>5, BecomeMoves DEF SumPayments, Typed
  <2>3. waiters'[w] \in Request /\ waiters'[w].order = h.order
    BY <2>1, <2>2 DEF Request
  <2>4. QED
    BY <1>0, <1>1, <1>5, <2>1, <2>3, BecomeMoves, OneWaiterMoves DEF SumPayments, Typed, Fits
<1>6. CASE CheckPaid(w)
  <2>1. CASE Become(w, Idle)
    BY <1>0, <1>1, <2>1, IdleFits DEF Typed
  <2>2. CASE Become(w, [h EXCEPT !.op = "print"])
    <3>1. h \in [op : {"close"}, order : OrderId, total : Nat] /\ h.order \in DOMAIN orders
      BY <1>6 DEF CheckPaid, Typed, WaitersTyped, Fits, OnOrder, Request, Idle
    <3>2. waiters'[w] = [h EXCEPT !.op = "print"]
      BY <2>2, BecomeMoves DEF Typed
    <3>3. waiters'[w] \in Request /\ waiters'[w].order = h.order
      BY <3>1, <3>2 DEF Request
    <3>4. QED
      BY <1>0, <1>1, <2>2, <3>1, <3>3, BecomeMoves, OneWaiterMoves DEF Typed, Fits
  <2>3. QED  BY <1>6, <2>1, <2>2 DEF CheckPaid
<1>7. CASE ReadLines(w)
  <2>1. h.order \in DOMAIN orders /\ h.order \in OrderId /\ h.total \in Nat
    BY <1>7, WaiterFields DEF ReadLines, OnOrder
  <2>2. orders[h.order].items \in Nat /\ orders[h.order].paid \in Nat
    BY <2>1 DEF Typed, RowsTyped, Row
  <2>3. waiters'[w] = [op |-> "issue", order |-> h.order, total |-> h.total,
                       lines |-> orders[h.order].items, paid |-> orders[h.order].paid]
    BY <1>7, BecomeMoves DEF ReadLines, Typed
  <2>4. waiters'[w] \in Request /\ waiters'[w].order = h.order
    BY <2>1, <2>2, <2>3 DEF Request
  <2>5. QED
    BY <1>0, <1>1, <1>7, <2>1, <2>4, BecomeMoves, OneWaiterMoves DEF ReadLines, Typed, Fits
<1>8. QED
  BY <1>2, <1>3, <1>4, <1>5, <1>6, <1>7, BeginTyped DEF Reads

\* What a step that writes one check does to its row: the table, the day and
\* the number stay, the sums only grow, a closed check keeps its status.
Rewrites(o, row) ==
    /\ o \in DOMAIN orders
    /\ orders' = [orders EXCEPT ![o] = row]
    /\ row \in Row
    /\ row.table = orders[o].table /\ row.date = orders[o].date /\ row.number = orders[o].number
    /\ row.items >= orders[o].items /\ row.paid >= orders[o].paid
    /\ ~Live(o) => row.status = orders[o].status

WithItems(h) ==
    [orders[h.order] EXCEPT !.items = @ + h.price, !.total = h.sum,
        !.status = IF h.seen = "open" THEN Advance(h.order, "in_progress") ELSE @]

WithPayment(h) ==
    [orders[h.order] EXCEPT !.paid = @ + h.amount,
        !.status = IF h.covers THEN Advance(h.order, "awaiting_payment") ELSE @]

WithStatus(o, status) == [orders[o] EXCEPT !.status = status]

LEMMA CommitItemsRewrites ==
  ASSUME Typed, NEW w \in Waiter, CommitItems(w)
  PROVE  /\ Rewrites(waiters[w].order, WithItems(waiters[w]))
         /\ Live(waiters[w].order) =>
               WithItems(waiters[w]).status \notin CLOSED_ORDER_STATUSES
<1> DEFINE h == waiters[w]
           row == orders[h.order]
<1>1. /\ h.order \in DOMAIN orders /\ row \in Row
      /\ h.seen \in Statuses /\ h.price \in Nat /\ h.sum \in Nat
  BY WaiterFields, MoneyAssumption DEF CommitItems, OnOrder, Typed, RowsTyped
<1>2. Advance(h.order, "in_progress") \in Statuses
      /\ (~Live(h.order) => Advance(h.order, "in_progress") = row.status)
      /\ (Live(h.order) => /\ Advance(h.order, "in_progress") \notin CLOSED_ORDER_STATUSES
                            /\ row.status \notin CLOSED_ORDER_STATUSES)
  BY <1>1 DEF Advance, Live, Row, Statuses, CLOSED_ORDER_STATUSES
<1>3. orders' = [orders EXCEPT ![h.order] = WithItems(h)]
  BY <1>1 DEF CommitItems, WithItems, Row, Typed, RowsTyped
<1>4. /\ row.items \in Nat /\ row.items + h.price \in Nat /\ row.status \in Statuses
      /\ row.items + h.price >= row.items /\ row.paid \in Nat /\ row.paid >= row.paid
  BY <1>1 DEF Row
<1>5. PICK status \in Statuses :
         /\ WithItems(h) = [row EXCEPT !.items = row.items + h.price, !.total = h.sum,
                                       !.status = status]
         /\ ~Live(h.order) => status = row.status
         /\ Live(h.order) => status \notin CLOSED_ORDER_STATUSES
  BY <1>1, <1>2, <1>4 DEF WithItems, Row
<1>6. /\ WithItems(h) \in Row
      /\ WithItems(h).status = status /\ WithItems(h).items = row.items + h.price
      /\ \A f \in {"table", "date", "number", "paid"} : WithItems(h)[f] = row[f]
  BY <1>1, <1>4, <1>5 DEF Row
<1>7. QED  BY <1>1, <1>3, <1>4, <1>5, <1>6 DEF Rewrites

LEMMA CommitPaymentRewrites ==
  ASSUME Typed, NEW w \in Waiter, CommitPayment(w)
  PROVE  /\ Rewrites(waiters[w].order, WithPayment(waiters[w]))
         /\ Live(waiters[w].order) =>
               WithPayment(waiters[w]).status \notin CLOSED_ORDER_STATUSES
<1> DEFINE h == waiters[w]
           row == orders[h.order]
<1>1. h.order \in DOMAIN orders /\ row \in Row /\ h.amount \in Nat
  BY WaiterFields, MoneyAssumption DEF CommitPayment, OnOrder, Typed, RowsTyped
<1>2. Advance(h.order, "awaiting_payment") \in Statuses
      /\ (~Live(h.order) => Advance(h.order, "awaiting_payment") = row.status)
      /\ (Live(h.order) => /\ Advance(h.order, "awaiting_payment") \notin CLOSED_ORDER_STATUSES
                            /\ row.status \notin CLOSED_ORDER_STATUSES)
  BY <1>1 DEF Advance, Live, Row, Statuses, CLOSED_ORDER_STATUSES
<1>3. orders' = [orders EXCEPT ![h.order] = WithPayment(h)]
  BY <1>1 DEF CommitPayment, WithPayment, Row, Typed, RowsTyped
<1>4. /\ row.paid \in Nat /\ row.paid + h.amount \in Nat /\ row.status \in Statuses
      /\ row.paid + h.amount >= row.paid /\ row.items \in Nat /\ row.items >= row.items
  BY <1>1 DEF Row
<1>5. PICK status \in Statuses :
         /\ WithPayment(h) = [row EXCEPT !.paid = row.paid + h.amount, !.status = status]
         /\ ~Live(h.order) => status = row.status
         /\ Live(h.order) => status \notin CLOSED_ORDER_STATUSES
  BY <1>1, <1>2, <1>4 DEF WithPayment, Row
<1>6. /\ WithPayment(h) \in Row
      /\ WithPayment(h).status = status /\ WithPayment(h).paid = row.paid + h.amount
      /\ \A f \in {"table", "date", "number", "items"} : WithPayment(h)[f] = row[f]
  BY <1>1, <1>4, <1>5 DEF Row
<1>7. QED  BY <1>1, <1>3, <1>4, <1>5, <1>6 DEF Rewrites

LEMMA CloseRewrites ==
  ASSUME Typed, NEW o \in OrderId,
         \/ \E w \in Waiter : IssueAndClose(w) /\ waiters[w].order = o
         \/ \E v \in Venue : CancelOrder(v, o)
  PROVE  /\ Live(o)
         /\ \E status \in CLOSED_ORDER_STATUSES :
               /\ Rewrites(o, WithStatus(o, status))
               /\ closings' = [closings EXCEPT ![o] = Append(@, status)]
<1>1. o \in DOMAIN orders /\ Live(o)
  <2>1. ASSUME NEW w \in Waiter, IssueAndClose(w), waiters[w].order = o
        PROVE  o \in DOMAIN orders /\ Live(o)
    <3>1. o \in DOMAIN orders
      BY <2>1, WaiterFields DEF IssueAndClose, OnOrder
    <3>2. orders[o].status \in CLOSEABLE_ORDER_STATUSES
      BY <2>1 DEF IssueAndClose, Closeable
    <3>3. QED  BY <3>1, <3>2 DEF Live, CLOSEABLE_ORDER_STATUSES, CLOSED_ORDER_STATUSES
  <2>2. ASSUME NEW v \in Venue, CancelOrder(v, o)
        PROVE  o \in DOMAIN orders /\ Live(o)
    BY <2>2 DEF CancelOrder
  <2>3. QED  BY <2>1, <2>2
<1>2. orders[o] \in Row
  BY <1>1 DEF Typed, RowsTyped
<1>3. \E status \in CLOSED_ORDER_STATUSES :
         /\ orders' = [orders EXCEPT ![o] = WithStatus(o, status)]
         /\ closings' = [closings EXCEPT ![o] = Append(@, status)]
  BY <1>1, <1>2 DEF IssueAndClose, CancelOrder, WithStatus, Row, Typed, RowsTyped,
                    CLOSED_ORDER_STATUSES
<1>4. ASSUME NEW status \in CLOSED_ORDER_STATUSES
      PROVE  WithStatus(o, status) \in Row
  BY <1>2 DEF WithStatus, Row, Statuses, CLOSED_ORDER_STATUSES
<1>5. ASSUME NEW status \in CLOSED_ORDER_STATUSES
      PROVE  \A f \in {"table", "date", "number", "items", "paid"} :
                 WithStatus(o, status)[f] = orders[o][f]
  BY <1>2 DEF WithStatus, Row
<1>6. orders[o].items >= orders[o].items /\ orders[o].paid >= orders[o].paid
  BY <1>2 DEF Row
<1>7. QED  BY <1>1, <1>3, <1>4, <1>5, <1>6 DEF Rewrites

\* A close completes the check, a cancellation cancels it.
LEMMA WhichClose ==
  ASSUME Typed, NEW o \in OrderId
  PROVE  /\ \A w \in Waiter : IssueAndClose(w) /\ waiters[w].order = o =>
               orders'[o].status = "completed" /\ closings'[o] = Append(closings[o], "completed")
         /\ \A v \in Venue : CancelOrder(v, o) =>
               orders'[o].status = "cancelled" /\ closings'[o] = Append(closings[o], "cancelled")
<1>1. closings \in [OrderId -> Seq(CLOSED_ORDER_STATUSES)] /\ orders \in [DOMAIN orders -> Row]
  BY DEF Typed, RowsTyped
<1>2. ASSUME NEW w \in Waiter, IssueAndClose(w), waiters[w].order = o
      PROVE  orders'[o].status = "completed" /\ closings'[o] = Append(closings[o], "completed")
  <2>1. o \in DOMAIN orders /\ orders[o] \in Row
    BY <1>1, <1>2, WaiterFields DEF IssueAndClose, OnOrder
  <2>2. QED  BY <1>1, <1>2, <2>1 DEF IssueAndClose, Row
<1>3. ASSUME NEW v \in Venue, CancelOrder(v, o)
      PROVE  orders'[o].status = "cancelled" /\ closings'[o] = Append(closings[o], "cancelled")
  <2>1. o \in DOMAIN orders /\ orders[o] \in Row
    BY <1>1, <1>3 DEF CancelOrder
  <2>2. QED  BY <1>1, <1>3, <2>1 DEF CancelOrder, Row
<1>4. QED  BY <1>2, <1>3

LEMMA RewriteRows ==
  ASSUME RowsTyped, NEW o, NEW row, Rewrites(o, row)
  PROVE  /\ DOMAIN orders' = DOMAIN orders
         /\ orders' \in [DOMAIN orders' -> Row]
         /\ orders'[o] = row
         /\ \A p \in DOMAIN orders \ {o} : orders'[p] = orders[p]
  BY DEF Rewrites, RowsTyped

LEMMA CommitTyped ==
  ASSUME Typed, NEW w \in Waiter, CommitItems(w) \/ CommitPayment(w)
  PROVE  Typed'
<1>1. \E o, row : Rewrites(o, row)
  BY CommitItemsRewrites, CommitPaymentRewrites
<1>2. UNCHANGED <<receipts, closings, venueLock, today>> /\ Become(w, Idle)
  BY DEF CommitItems, CommitPayment
<1>3. RowsTyped'
  BY <1>1, <1>2, RewriteRows DEF Typed, RowsTyped
<1>4. WaitersTyped'
  BY <1>1, <1>2, RewriteRows, IdleFits DEF Typed
<1>5. QED  BY <1>3, <1>4 DEF Typed

LEMMA AppendsType ==
  ASSUME RowsTyped, NEW o \in OrderId, NEW status \in CLOSED_ORDER_STATUSES,
         closings' = [closings EXCEPT ![o] = Append(@, status)]
  PROVE  /\ closings' \in [OrderId -> Seq(CLOSED_ORDER_STATUSES)]
         /\ closings'[o] = Append(closings[o], status)
         /\ \A p \in OrderId \ {o} : closings'[p] = closings[p]
  BY DEF RowsTyped

NewReceipt(h) == [total |-> h.total, lines |-> h.lines, paid |-> h.paid, reprints |-> 0]

\* The receipt is issued with what the request read, and the others stay.
LEMMA IssueReceipts ==
  ASSUME Typed, NEW w \in Waiter, IssueAndClose(w)
  PROVE  LET h == waiters[w] IN
         /\ h.order \in DOMAIN orders /\ h.order \notin DOMAIN receipts
         /\ DOMAIN receipts' = DOMAIN receipts \cup {h.order}
         /\ receipts'[h.order] = NewReceipt(h)
         /\ \A o \in DOMAIN receipts : receipts'[o] = receipts[o]
         /\ receipts' \in [DOMAIN receipts' -> Receipt]
<1> DEFINE h == waiters[w]
<1>1. h.order \in DOMAIN orders /\ h.total \in Nat /\ h.lines \in Nat /\ h.paid \in Nat
  BY WaiterFields DEF IssueAndClose, OnOrder
<1>2. NewReceipt(h) \in Receipt
  BY <1>1 DEF NewReceipt, Receipt
<1>3. QED  BY <1>1, <1>2 DEF IssueAndClose, NewReceipt, Typed, RowsTyped

LEMMA CloseTyped ==
  ASSUME Typed, NEW o \in OrderId,
         \/ \E w \in Waiter : IssueAndClose(w) /\ waiters[w].order = o
         \/ \E v \in Venue : CancelOrder(v, o)
  PROVE  Typed'
<1>1. PICK status \in CLOSED_ORDER_STATUSES :
         /\ Rewrites(o, WithStatus(o, status))
         /\ closings' = [closings EXCEPT ![o] = Append(@, status)]
  BY CloseRewrites
<1>2. DOMAIN orders' = DOMAIN orders /\ orders' \in [DOMAIN orders' -> Row]
  BY <1>1, RewriteRows DEF Typed
<1>3. closings' \in [OrderId -> Seq(CLOSED_ORDER_STATUSES)]
  BY <1>1, AppendsType DEF Typed
<1>4. /\ UNCHANGED <<venueLock, today>>
      /\ DOMAIN receipts' \subseteq DOMAIN orders'
      /\ receipts' \in [DOMAIN receipts' -> Receipt]
  <2>1. ASSUME NEW w \in Waiter, IssueAndClose(w)
        PROVE  /\ UNCHANGED <<venueLock, today>>
               /\ DOMAIN receipts' \subseteq DOMAIN orders'
               /\ receipts' \in [DOMAIN receipts' -> Receipt]
    <3>1. UNCHANGED <<venueLock, today>>
      BY <2>1 DEF IssueAndClose
    <3>2. QED  BY <1>2, <2>1, <3>1, IssueReceipts DEF Typed, RowsTyped
  <2>2. ASSUME NEW v \in Venue, CancelOrder(v, o)
        PROVE  UNCHANGED <<venueLock, today, receipts>>
    BY <2>2 DEF CancelOrder
  <2>3. QED  BY <1>2, <2>1, <2>2 DEF Typed, RowsTyped
<1>5. WaitersTyped'
  <2>1. ASSUME NEW w \in Waiter, IssueAndClose(w)  PROVE WaitersTyped'
    BY <1>2, <2>1, IdleFits DEF IssueAndClose, Typed
  <2>2. QED  BY <1>2, <2>1 DEF CancelOrder, Typed, WaitersTyped, Fits
<1>6. QED  BY <1>2, <1>3, <1>4, <1>5 DEF Typed, RowsTyped

\* A check is inserted: the new row, and the rows there were.
LEMMA InsertRows ==
  ASSUME Typed, NEW w \in Waiter, NEW o \in OrderId, InsertOrder(w, o)
  PROVE  /\ NewRow(waiters[w]) \in Row
         /\ DOMAIN orders' = DOMAIN orders \cup {o} /\ o \notin DOMAIN orders
         /\ orders'[o] = NewRow(waiters[w])
         /\ \A p \in DOMAIN orders : orders'[p] = orders[p]
         /\ orders' \in [DOMAIN orders' -> Row]
<1>1. waiters[w].table \in Table /\ waiters[w].date \in Nat /\ waiters[w].number \in Nat
  BY WaiterFields DEF InsertOrder
<1>2. NewRow(waiters[w]) \in Row
  BY <1>1 DEF NewRow, Row, Statuses
<1>3. QED  BY <1>2 DEF InsertOrder, Typed, RowsTyped

LEMMA ReleaseTyped ==
  ASSUME RowsTyped, NEW w, ReleaseVenue(w)
  PROVE  /\ venueLock' \in [Venue -> Waiter \cup {NoOne}]
         /\ \A v \in Venue : venueLock[v] # w => venueLock'[v] = venueLock[v]
  BY DEF RowsTyped, ReleaseVenue

LEMMA InsertTyped ==
  ASSUME Typed, NEW w \in Waiter, NEW o \in OrderId, InsertOrder(w, o)
  PROVE  Typed'
<1>1. RowsTyped'
  BY InsertRows, ReleaseTyped DEF InsertOrder, Typed, RowsTyped
<1>2. WaitersTyped'
  BY InsertRows, IdleFits DEF InsertOrder, Typed
<1>3. QED  BY <1>1, <1>2 DEF Typed

LEMMA ReprintRows ==
  ASSUME Typed, NEW v \in Venue, NEW o \in OrderId, Reprint(v, o)
  PROVE  /\ DOMAIN receipts' = DOMAIN receipts
         /\ receipts' \in [DOMAIN receipts' -> Receipt]
         /\ \A p \in DOMAIN receipts :
               /\ receipts'[p] = [receipts[p] EXCEPT !.reprints = receipts'[p].reprints]
               /\ receipts'[p].reprints >= receipts[p].reprints
<1>1. o \in DOMAIN receipts /\ \A p \in DOMAIN receipts : receipts[p] \in Receipt
  BY DEF Reprint, Typed, RowsTyped
<1>2. /\ DOMAIN receipts' = DOMAIN receipts
      /\ receipts'[o] = [receipts[o] EXCEPT !.reprints = @ + 1]
      /\ \A p \in DOMAIN receipts \ {o} : receipts'[p] = receipts[p]
  BY <1>1 DEF Reprint, Typed, RowsTyped
<1>3. receipts'[o] \in Receipt /\ receipts'[o].reprints = receipts[o].reprints + 1
  BY <1>1, <1>2 DEF Receipt
<1>4. \A p \in DOMAIN receipts' : receipts'[p] \in Receipt
  BY <1>1, <1>2, <1>3
<1>5. \A p \in DOMAIN receipts :
         /\ receipts'[p] = [receipts[p] EXCEPT !.reprints = receipts'[p].reprints]
         /\ receipts'[p].reprints >= receipts[p].reprints
  BY <1>1, <1>2, <1>3 DEF Receipt
<1>6. receipts' = [p \in DOMAIN receipts' |-> receipts'[p]]
  BY DEF Reprint, Typed, RowsTyped
<1>7. QED  BY <1>2, <1>4, <1>5, <1>6

\* Steps that change neither rows nor receipts and at most give something up.
LEMMA QuietTyped ==
  ASSUME Typed, UNCHANGED vars \/ NextDay
                \/ \E w \in Waiter : RefuseOpen(w) \/ RefuseClose(w) \/ Abort(w)
  PROVE  Typed'
<1>1. CASE UNCHANGED vars \/ NextDay
  BY <1>1 DEF vars, NextDay, Typed, RowsTyped, WaitersTyped, Fits
<1>2. ASSUME NEW w \in Waiter, RefuseOpen(w) \/ RefuseClose(w) \/ Abort(w)
      PROVE  Typed'
  <2>1. UNCHANGED <<orders, receipts, closings, today>> /\ Become(w, Idle)
    BY <1>2 DEF RefuseOpen, RefuseClose, Abort
  <2>2. venueLock' \in [Venue -> Waiter \cup {NoOne}]
    BY <1>2, ReleaseTyped DEF RefuseOpen, RefuseClose, Abort, Typed, RowsTyped
  <2>3. QED  BY <2>1, <2>2, QuietRows, IdleFits DEF Typed
<1>3. QED  BY <1>1, <1>2

LEMMA NextTyped == Typed /\ NumInv /\ [Next]_vars => Typed'
<1> SUFFICES ASSUME Typed, NumInv, [Next]_vars  PROVE Typed'
  OBVIOUS
<1>1. ASSUME NEW w \in Waiter, Open(w) \/ AddItems(w) \/ AddPayment(w) \/ Close(w) \/ Abort(w)
      PROVE  Typed'
  <2>1. CASE Reads(w)
    BY <2>1, ReadTyped
  <2>2. CASE IssueAndClose(w)
    BY <2>2, CloseTyped, WaiterFields DEF IssueAndClose, OnOrder
  <2>3. QED
    BY <1>1, <2>1, <2>2, CommitTyped, InsertTyped, QuietTyped
    DEF Open, AddItems, AddPayment, Close, Reads, Begins
<1>2. ASSUME NEW v \in Venue, NEW o \in OrderId, Reprint(v, o)  PROVE Typed'
  <2>1. RowsTyped'
    BY <1>2, ReprintRows DEF Reprint, Typed, RowsTyped
  <2>2. QED  BY <1>2, <2>1 DEF Reprint, Typed, WaitersTyped, Fits
<1>3. QED  BY <1>1, <1>2, CloseTyped, QuietTyped DEF Next

-----------------------------------------------------------------------------
(* The numbers of a day *)

SameNumbers ==
    /\ DOMAIN orders' = DOMAIN orders
    /\ \A o \in DOMAIN orders :
          /\ orders'[o].table = orders[o].table
          /\ orders'[o].date = orders[o].date
          /\ orders'[o].number = orders[o].number

LEMMA DaysStay ==
  ASSUME SameNumbers, NEW v, NEW d
  PROVE  OnDay(v, d)' = OnDay(v, d) /\ DayNumbers(v, d)' = DayNumbers(v, d)
<1>1. OnDay(v, d)' = OnDay(v, d)
  BY DEF SameNumbers, OnDay
<1>2. QED  BY <1>1 DEF SameNumbers, DayNumbers, OnDay

LEMMA NumberedStays ==
  ASSUME Numbered, SameNumbers
  PROVE  Numbered'
<1>1. IsFiniteSet(DOMAIN orders)'
  BY DEF Numbered, SameNumbers
<1>2. ASSUME NEW v \in Venue, NEW d \in Nat
      PROVE  DayNumbers(v, d)' = 1 .. Cardinality(OnDay(v, d)')
  BY DaysStay DEF Numbered
<1>3. QED  BY <1>1, <1>2 DEF Numbered

\* A request that gives up its number, or that never had one, disturbs nobody:
\* the lock it may release is its own.
LEMMA QuietNumbers ==
  ASSUME Typed, NumInv, SameNumbers, NEW w \in Waiter,
         \A x \in Waiter \ {w} : waiters'[x] = waiters[x],
         waiters'[w] = waiters[w] \/ waiters'[w].op \notin {"number", "insert"},
         \/ venueLock' = venueLock
         \/ ReleaseVenue(w) /\ waiters'[w].op \notin {"number", "insert"}
  PROVE  NumInv'
<1>1. Numbered'
  BY NumberedStays DEF NumInv
<1>2. ASSUME NEW x \in Waiter  PROVE HoldsNumber(x)'
  <2>1. HoldsNumber(x)
    BY DEF NumInv
  <2>2. CASE waiters'[x].op \notin {"number", "insert"}
    BY <2>2 DEF HoldsNumber
  <2>3. CASE waiters'[x] = waiters[x] /\ waiters[x].op \in {"number", "insert"}
    <3>1. /\ waiters[x].table \in Table /\ VenueOf[waiters[x].table] \in Venue
          /\ venueLock[VenueOf[waiters[x].table]] = x
      BY <2>1, <2>3, WaiterFields, FloorAssumption DEF HoldsNumber
    <3>2. venueLock'[VenueOf[waiters[x].table]] = x
      BY <2>3, <3>1, ReleaseTyped DEF Typed
    <3>3. QED  BY <2>1, <2>3, <3>2, DaysStay DEF HoldsNumber
  <2>4. QED  BY <2>2, <2>3
<1>3. QED  BY <1>1, <1>2 DEF NumInv

LEMMA LockNumbers ==
  ASSUME Typed, NumInv, NEW w \in Waiter, LockVenue(w)
  PROVE  NumInv'
<1> DEFINE v == VenueOf[waiters[w].table]
<1>1. waiters[w].table \in Table /\ v \in Venue /\ venueLock[v] = NoOne
  BY WaiterFields, FloorAssumption DEF LockVenue
<1>2. /\ SameNumbers
      /\ venueLock'[v] = w
      /\ \A u \in Venue \ {v} : venueLock'[u] = venueLock[u]
      /\ \A x \in Waiter \ {w} : waiters'[x] = waiters[x]
  BY <1>1 DEF LockVenue, SameNumbers, Become, Typed, RowsTyped, WaitersTyped
<1>3. waiters'[w].op = "number" /\ waiters'[w].table = waiters[w].table
  <2>1. waiters[w] \in [op : {"lock"}, table : Table, date : Nat]
    BY DEF LockVenue, Typed, WaitersTyped, Request, Idle
  <2>2. QED  BY <2>1, BecomeMoves DEF LockVenue, Typed
<1>4. Numbered'
  BY <1>2, NumberedStays DEF NumInv
<1>5. ASSUME NEW x \in Waiter  PROVE HoldsNumber(x)'
  <2>1. CASE x = w
    BY <1>2, <1>3, <2>1 DEF HoldsNumber
  <2>2. CASE x # w /\ waiters[x].op \in {"number", "insert"}
    <3>1. /\ waiters[x].table \in Table /\ VenueOf[waiters[x].table] \in Venue
          /\ venueLock[VenueOf[waiters[x].table]] = x /\ HoldsNumber(x)
      BY <2>2, WaiterFields, FloorAssumption DEF NumInv, HoldsNumber
    <3>2. VenueOf[waiters[x].table] # v
      BY <1>1, <3>1, FloorAssumption
    <3>3. QED  BY <1>2, <2>2, <3>1, <3>2, DaysStay DEF HoldsNumber
  <2>3. CASE x # w /\ waiters[x].op \notin {"number", "insert"}
    BY <1>2, <2>3 DEF HoldsNumber
  <2>4. QED  BY <2>1, <2>2, <2>3
<1>6. QED  BY <1>4, <1>5 DEF NumInv

LEMMA ReadNumbers ==
  ASSUME Typed, NumInv, NEW w \in Waiter, ReadNumber(w)
  PROVE  NumInv'
<1> DEFINE h == waiters[w]
<1>1. h.table \in Table /\ h.date \in Nat /\ VenueOf[h.table] \in Venue
  BY WaiterFields, FloorAssumption DEF ReadNumber
<1>2. /\ SameNumbers /\ UNCHANGED venueLock
      /\ \A x \in Waiter \ {w} : waiters'[x] = waiters[x]
  BY DEF ReadNumber, SameNumbers, Become, Typed, WaitersTyped
<1>3. waiters'[w] = [op |-> "insert", table |-> h.table, date |-> h.date,
                     number |-> MaxNumber(VenueOf[h.table], h.date) + 1]
  BY BecomeMoves DEF ReadNumber, Typed
<1>4. MaxNumber(VenueOf[h.table], h.date) = Cardinality(OnDay(VenueOf[h.table], h.date))
  BY <1>1, MaxNumberCounts DEF NumInv
<1>5. venueLock[VenueOf[h.table]] = w
  BY DEF ReadNumber, NumInv, HoldsNumber
<1>6. HoldsNumber(w)'
  BY <1>2, <1>3, <1>4, <1>5, DaysStay DEF HoldsNumber
<1>7. ASSUME NEW x \in Waiter \ {w}  PROVE HoldsNumber(x)'
  BY <1>2, DaysStay DEF HoldsNumber, NumInv
<1>8. QED  BY <1>2, <1>6, <1>7, NumberedStays DEF NumInv

\* The insert takes the next number of its day and of no other.
LEMMA InsertNumbers ==
  ASSUME Typed, NumInv, NEW w \in Waiter, NEW o \in OrderId, InsertOrder(w, o)
  PROVE  NumInv'
<1>h. PICK h : h = waiters[w]
  OBVIOUS
<1> DEFINE here == VenueOf[h.table]
<1>n. PICK n : n = Cardinality(OnDay(here, h.date))
  OBVIOUS
<1>1. h.table \in Table /\ h.date \in Nat /\ here \in Venue
  BY <1>h, WaiterFields, FloorAssumption DEF InsertOrder
<1>2. h.number = n + 1 /\ venueLock[here] = w
  BY <1>h, <1>n DEF InsertOrder, NumInv, HoldsNumber
<1>3. /\ DOMAIN orders' = DOMAIN orders \cup {o} /\ o \notin DOMAIN orders
      /\ \A p \in DOMAIN orders : orders'[p] = orders[p]
      /\ orders'[o].table = h.table /\ orders'[o].date = h.date /\ orders'[o].number = h.number
  <2>1. orders'[o] = NewRow(h)
    BY <1>h, InsertRows
  <2>2. orders'[o].table = h.table /\ orders'[o].date = h.date /\ orders'[o].number = h.number
    BY <2>1 DEF NewRow
  <2>3. QED  BY <2>2, InsertRows
<1>4. ASSUME NEW v \in Venue, NEW d \in Nat, <<v, d>> # <<here, h.date>>
      PROVE  OnDay(v, d)' = OnDay(v, d) /\ DayNumbers(v, d)' = DayNumbers(v, d)
  <2>1. OnDay(v, d)' = OnDay(v, d)
    BY <1>3, <1>4 DEF OnDay
  <2>2. QED  BY <1>3, <2>1 DEF DayNumbers, OnDay
<1>5. /\ OnDay(here, h.date)' = OnDay(here, h.date) \cup {o}
      /\ o \notin OnDay(here, h.date)
  BY <1>3 DEF OnDay
<1>6. n \in Nat /\ IsFiniteSet(OnDay(here, h.date))
  BY <1>n, CountOfDay DEF NumInv
<1>7. Cardinality(OnDay(here, h.date)') = n + 1
  BY <1>5, <1>6, <1>n, FS_AddElement
<1>8. DayNumbers(here, h.date)' = DayNumbers(here, h.date) \cup {n + 1}
  BY <1>2, <1>3, <1>5 DEF DayNumbers, OnDay
<1>9. DayNumbers(here, h.date)' = 1 .. (n + 1)
  <2>1. DayNumbers(here, h.date) = 1 .. n
    BY <1>1, <1>n DEF NumInv, Numbered
  <2>2. QED  BY <1>6, <1>8, <2>1
<1>10. IsFiniteSet(DOMAIN orders')
  BY <1>3, FS_AddElement DEF NumInv, Numbered
<1>11. ASSUME NEW v \in Venue, NEW d \in Nat
       PROVE  DayNumbers(v, d)' = 1 .. Cardinality(OnDay(v, d)')
  <2>1. CASE <<v, d>> = <<here, h.date>>
    <3>1. v = here /\ d = h.date
      BY <2>1
    <3>2. QED  BY <1>7, <1>9, <3>1
  <2>2. CASE <<v, d>> # <<here, h.date>>
    BY <1>4, <2>2 DEF NumInv, Numbered
  <2>3. QED  BY <2>1, <2>2
<1>12. ASSUME NEW x \in Waiter  PROVE HoldsNumber(x)'
  <2>1. waiters'[w] = Idle /\ \A y \in Waiter \ {w} : waiters'[y] = waiters[y]
    BY DEF InsertOrder, Become, Typed, WaitersTyped
  <2>2. CASE x = w
    BY <2>1, <2>2 DEF HoldsNumber, Idle
  <2>3. CASE x # w /\ waiters[x].op \in {"number", "insert"}
    <3>1. /\ waiters[x].table \in Table /\ waiters[x].date \in Nat
          /\ VenueOf[waiters[x].table] \in Venue
          /\ venueLock[VenueOf[waiters[x].table]] = x /\ HoldsNumber(x)
      BY <2>3, WaiterFields, FloorAssumption DEF NumInv, HoldsNumber
    <3>2. VenueOf[waiters[x].table] # here
      BY <1>2, <2>3, <3>1
    <3>3. venueLock'[VenueOf[waiters[x].table]] = x
      BY <2>3, <3>1, ReleaseTyped DEF InsertOrder, Typed
    <3>4. QED  BY <1>4, <2>1, <2>3, <3>1, <3>2, <3>3 DEF HoldsNumber
  <2>4. CASE x # w /\ waiters[x].op \notin {"number", "insert"}
    BY <2>1, <2>4 DEF HoldsNumber
  <2>5. QED  BY <2>2, <2>3, <2>4
<1>13. QED  BY <1>10, <1>11, <1>12 DEF NumInv, Numbered

LEMMA RewriteNumbers ==
  ASSUME RowsTyped, NEW o, NEW row, Rewrites(o, row)
  PROVE  SameNumbers
  BY RewriteRows DEF Rewrites, SameNumbers

LEMMA OthersStay ==
  ASSUME WaitersTyped, NEW w \in Waiter, NEW STATE h, Become(w, h)
  PROVE  \A x \in Waiter \ {w} : waiters'[x] = waiters[x]
  BY DEF WaitersTyped, Become

LEMMA IdleNumbers ==
  ASSUME Typed, NumInv, SameNumbers, NEW w \in Waiter, Become(w, Idle),
         UNCHANGED venueLock \/ ReleaseVenue(w)
  PROVE  NumInv'
<1>1. waiters'[w].op \notin {"number", "insert"}
  BY BecomeMoves DEF Typed, Idle
<1>2. QED  BY <1>1, OthersStay, QuietNumbers DEF Typed

LEMMA BeginNumbers ==
  ASSUME Typed, NumInv, NEW w \in Waiter,
         Begins(w) \/ SnapshotTotals(w) \/ SumPayments(w) \/ CheckPaid(w) \/ ReadLines(w)
  PROVE  NumInv'
<1>1. SameNumbers /\ UNCHANGED venueLock
  BY DEF Begins, BeginOpen, BeginAddItems, BeginPayment, BeginClose, SnapshotTotals,
         SumPayments, CheckPaid, ReadLines, SameNumbers
<1>2. \A x \in Waiter \ {w} : waiters'[x] = waiters[x]
  BY DEF Begins, BeginOpen, BeginAddItems, BeginPayment, BeginClose, SnapshotTotals,
         SumPayments, CheckPaid, ReadLines, Become, Typed, WaitersTyped
<1>3. waiters'[w].op \notin {"number", "insert"}
  <2>1. CASE CheckPaid(w)
    <3>1. waiters[w] \in [op : {"close"}, order : OrderId, total : Nat]
      BY <2>1 DEF CheckPaid, Typed, WaitersTyped, Request, Idle
    <3>2. QED  BY <2>1, <3>1 DEF CheckPaid, Become, Idle, Typed, WaitersTyped
  <2>2. CASE ~CheckPaid(w)
    BY <2>2 DEF Begins, BeginOpen, BeginAddItems, BeginPayment, BeginClose, SnapshotTotals,
                SumPayments, ReadLines, Become, Typed, WaitersTyped
  <2>3. QED  BY <2>1, <2>2
<1>4. QED  BY <1>1, <1>2, <1>3, QuietNumbers

LEMMA NextNumbers == Typed /\ NumInv /\ [Next]_vars => NumInv'
<1> SUFFICES ASSUME Typed, NumInv, [Next]_vars  PROVE NumInv'
  OBVIOUS
<1>1. ASSUME NEW w \in Waiter, Open(w)  PROVE NumInv'
  <2>1. ASSUME RefuseOpen(w)  PROVE NumInv'
    BY <2>1, IdleNumbers DEF RefuseOpen, SameNumbers
  <2>2. QED
    BY <1>1, <2>1, BeginNumbers, LockNumbers, ReadNumbers, InsertNumbers DEF Open, Begins
<1>2. ASSUME NEW w \in Waiter, AddItems(w)  PROVE NumInv'
  <2>1. ASSUME CommitItems(w)  PROVE NumInv'
    <3>1. SameNumbers
      BY <2>1, CommitItemsRewrites, RewriteNumbers DEF Typed
    <3>2. QED  BY <2>1, <3>1, IdleNumbers DEF CommitItems
  <2>2. QED  BY <1>2, <2>1, BeginNumbers DEF AddItems, Begins
<1>3. ASSUME NEW w \in Waiter, AddPayment(w)  PROVE NumInv'
  <2>1. ASSUME CommitPayment(w)  PROVE NumInv'
    <3>1. SameNumbers
      BY <2>1, CommitPaymentRewrites, RewriteNumbers DEF Typed
    <3>2. QED  BY <2>1, <3>1, IdleNumbers DEF CommitPayment
  <2>2. QED  BY <1>3, <2>1, BeginNumbers DEF AddPayment, Begins
<1>4. ASSUME NEW w \in Waiter, Close(w)  PROVE NumInv'
  <2>1. ASSUME IssueAndClose(w)  PROVE NumInv'
    <3>1. SameNumbers
      BY <2>1, CloseRewrites, RewriteNumbers, WaiterFields DEF Typed, IssueAndClose, OnOrder
    <3>2. QED  BY <2>1, <3>1, IdleNumbers DEF IssueAndClose
  <2>2. ASSUME RefuseClose(w)  PROVE NumInv'
    BY <2>2, IdleNumbers DEF RefuseClose, SameNumbers
  <2>3. QED  BY <1>4, <2>1, <2>2, BeginNumbers DEF Close, Begins
<1>5. ASSUME NEW w \in Waiter, Abort(w)  PROVE NumInv'
  BY <1>5, IdleNumbers DEF Abort, SameNumbers
<1>6. ASSUME SameNumbers, UNCHANGED <<waiters, venueLock>>  PROVE NumInv'
  <2>1. ASSUME NEW x \in Waiter  PROVE HoldsNumber(x)'
    BY <1>6, DaysStay DEF HoldsNumber, NumInv
  <2>2. QED  BY <1>6, <2>1, NumberedStays DEF NumInv
<1>7. ASSUME NEW v \in Venue, NEW o \in OrderId, CancelOrder(v, o)  PROVE NumInv'
  BY <1>6, <1>7, CloseRewrites, RewriteNumbers DEF CancelOrder, Typed
<1>8. ASSUME NEW v \in Venue, NEW o \in OrderId, Reprint(v, o)  PROVE NumInv'
  BY <1>6, <1>8 DEF Reprint, SameNumbers
<1>9. ASSUME NextDay \/ UNCHANGED vars  PROVE NumInv'
  BY <1>6, <1>9 DEF NextDay, vars, SameNumbers
<1>10. QED  BY <1>1, <1>2, <1>3, <1>4, <1>5, <1>7, <1>8, <1>9 DEF Next

LEMMA InitNumbers == Init => NumInv
<1> SUFFICES ASSUME Init  PROVE NumInv
  OBVIOUS
<1>1. DOMAIN orders = {} /\ IsFiniteSet(DOMAIN orders)
  BY FS_EmptySet DEF Init
<1>2. ASSUME NEW v \in Venue, NEW d \in Nat
      PROVE  DayNumbers(v, d) = 1 .. Cardinality(OnDay(v, d))
  <2>1. OnDay(v, d) = {} /\ DayNumbers(v, d) = {}
    BY <1>1 DEF OnDay, DayNumbers
  <2>2. QED  BY <2>1, FS_EmptySet
<1>3. \A w \in Waiter : HoldsNumber(w)
  BY DEF Init, Idle, HoldsNumber
<1>4. QED  BY <1>1, <1>2, <1>3 DEF NumInv, Numbered

LEMMA NumInvMeans == Typed /\ NumInv => NumbersInSequence
<1> SUFFICES ASSUME Typed, NumInv  PROVE NumbersInSequence
  OBVIOUS
<1>1. ASSUME NEW v \in Venue, NEW d \in 0 .. LastDay
      PROVE  {orders[o].number : o \in OnDay(v, d)} = 1 .. Cardinality(OnDay(v, d))
  BY BoundAssumption DEF NumInv, Numbered, DayNumbers
<1>2. ASSUME NEW w \in Waiter, waiters[w].op = "insert"
      PROVE  NumberFree(VenueOf[waiters[w].table], waiters[w].date, waiters[w].number)
  <2> DEFINE here == VenueOf[waiters[w].table]
             day == waiters[w].date
             n == Cardinality(OnDay(here, day))
  <2>1. here \in Venue /\ day \in Nat
    BY <1>2, WaiterFields, FloorAssumption
  <2>2. waiters[w].number = n + 1 /\ n \in Nat
    BY <1>2, CountOfDay DEF NumInv, HoldsNumber
  <2>3. DayNumbers(here, day) = 1 .. n
    BY <2>1 DEF NumInv, Numbered
  <2>4. \A o \in OnDay(here, day) : orders[o].number \in 1 .. n
    BY <2>3 DEF DayNumbers
  <2>5. QED  BY <2>2, <2>4 DEF NumberFree
<1>3. QED  BY <1>1, <1>2 DEF NumbersInSequence

LEMMA TypedAlways == Spec => [](Typed /\ NumInv)
  BY InitTyped, InitNumbers, NextTyped, NextNumbers, PTL DEF Spec

\* Every reachable state is well typed.  The largest number of a day exists only
\* because the day's numbers are 1 .. n, so the numbering is part of the proof.
THEOREM OrdersTyped == Spec => []TypeOK
  BY TypedAlways, TypedIsTypeOK, PTL

\* The check numbers of a branch's day run from 1 without a gap or a repetition,
\* and a request holding a fresh number is never refused it.
THEOREM NumbersAreSequential == Spec => []NumbersInSequence
  BY TypedAlways, NumInvMeans, PTL

-----------------------------------------------------------------------------
(* How a check leaves the board *)

\* What ClosedOnce says of one stored check.
Closed(o) ==
    /\ closings[o] = IF Live(o) THEN <<>> ELSE <<orders[o].status>>
    /\ o \in DOMAIN receipts <=> orders[o].status = "completed"

LEMMA RewriteCloses ==
  ASSUME Typed, ClosedOnce, NEW o, NEW row, Rewrites(o, row),
         Live(o) => row.status \notin CLOSED_ORDER_STATUSES,
         UNCHANGED <<receipts, closings>>
  PROVE  ClosedOnce'
<1>1. /\ DOMAIN orders' = DOMAIN orders /\ orders'[o] = row /\ o \in DOMAIN orders
      /\ \A p \in DOMAIN orders \ {o} : orders'[p] = orders[p]
  BY RewriteRows DEF Typed, Rewrites
<1>2. ASSUME NEW p \in DOMAIN orders  PROVE Closed(p)'
  <2>1. Closed(p)
    BY DEF ClosedOnce, Closed
  <2>2. CASE p = o /\ Live(o)
    BY <1>1, <2>1, <2>2 DEF Closed, Live, CLOSED_ORDER_STATUSES
  <2>3. CASE p = o /\ ~Live(o)
    BY <1>1, <2>1, <2>3 DEF Closed, Live, Rewrites
  <2>4. CASE p # o
    BY <1>1, <2>1, <2>4 DEF Closed, Live
  <2>5. QED  BY <2>2, <2>3, <2>4
<1>3. QED  BY <1>1, <1>2 DEF ClosedOnce, Closed

LEMMA CloseCloses ==
  ASSUME Typed, ClosedOnce, NEW o \in OrderId,
         \/ \E w \in Waiter : IssueAndClose(w) /\ waiters[w].order = o
         \/ \E v \in Venue : CancelOrder(v, o)
  PROVE  ClosedOnce'
<1>1. /\ o \in DOMAIN orders /\ Live(o)
      /\ DOMAIN orders' = DOMAIN orders
      /\ \A p \in DOMAIN orders \ {o} : orders'[p] = orders[p]
      /\ \A p \in OrderId \ {o} : closings'[p] = closings[p]
  <2>1. PICK status \in CLOSED_ORDER_STATUSES :
           /\ Rewrites(o, WithStatus(o, status))
           /\ closings' = [closings EXCEPT ![o] = Append(@, status)]
    BY CloseRewrites
  <2>2. QED  BY <2>1, CloseRewrites, RewriteRows, AppendsType DEF Typed, Rewrites
<1>2. closings[o] = <<>> /\ o \notin DOMAIN receipts
  BY <1>1 DEF ClosedOnce, Live, CLOSED_ORDER_STATUSES
<1>3. /\ \A p \in DOMAIN orders \ {o} : p \in DOMAIN receipts' <=> p \in DOMAIN receipts
      /\ \/ /\ orders'[o].status = "completed" /\ closings'[o] = Append(<<>>, "completed")
            /\ o \in DOMAIN receipts'
         \/ /\ orders'[o].status = "cancelled" /\ closings'[o] = Append(<<>>, "cancelled")
            /\ o \notin DOMAIN receipts'
  <2>1. CASE \E w \in Waiter : IssueAndClose(w) /\ waiters[w].order = o
    BY <1>2, <2>1, WhichClose, IssueReceipts
  <2>2. CASE \E v \in Venue : CancelOrder(v, o)
    <3>1. receipts' = receipts
      BY <2>2 DEF CancelOrder
    <3>2. QED  BY <1>2, <2>2, <3>1, WhichClose
  <2>3. QED  BY <2>1, <2>2
<1>4. ASSUME NEW p \in DOMAIN orders  PROVE Closed(p)'
  <2>1. CASE p = o
    BY <1>3, <2>1 DEF Closed, Live, CLOSED_ORDER_STATUSES
  <2>2. CASE p # o
    <3>1. Closed(p) /\ p \in OrderId
      BY DEF ClosedOnce, Closed, Typed, RowsTyped
    <3>2. QED  BY <1>1, <1>3, <2>2, <3>1 DEF Closed, Live
  <2>3. QED  BY <2>1, <2>2
<1>5. \A p \in OrderId \ DOMAIN orders : closings'[p] = <<>>
  BY <1>1 DEF ClosedOnce
<1>6. QED  BY <1>1, <1>4, <1>5 DEF ClosedOnce, Closed

LEMMA InsertCloses ==
  ASSUME Typed, ClosedOnce, NEW w \in Waiter, NEW o \in OrderId, InsertOrder(w, o)
  PROVE  ClosedOnce'
<1>1. /\ DOMAIN orders' = DOMAIN orders \cup {o} /\ o \notin DOMAIN orders
      /\ orders'[o] = NewRow(waiters[w])
      /\ \A p \in DOMAIN orders : orders'[p] = orders[p]
      /\ UNCHANGED <<receipts, closings>>
  BY InsertRows DEF InsertOrder
<1>2. orders'[o].status = "open"
  BY <1>1 DEF NewRow
<1>3. closings[o] = <<>> /\ o \notin DOMAIN receipts
  BY <1>1 DEF ClosedOnce, Typed, RowsTyped
<1>4. Closed(o)'
  BY <1>1, <1>2, <1>3 DEF Closed, Live, CLOSED_ORDER_STATUSES
<1>5. \A p \in DOMAIN orders : Closed(p)'
  BY <1>1 DEF ClosedOnce, Closed, Live
<1>6. QED  BY <1>1, <1>4, <1>5 DEF ClosedOnce, Closed

\* No other step touches a status, a history or the set of receipts.
LEMMA QuietCloses ==
  ASSUME ClosedOnce, UNCHANGED <<orders, closings>>, DOMAIN receipts' = DOMAIN receipts
  PROVE  ClosedOnce'
  BY DEF ClosedOnce, Live

LEMMA ReadsAreQuiet ==
  ASSUME NEW w \in Waiter, Reads(w) \/ RefuseOpen(w) \/ RefuseClose(w) \/ Abort(w)
  PROVE  UNCHANGED <<orders, receipts, closings>>
  BY DEF Reads, Begins, BeginOpen, BeginAddItems, BeginPayment, BeginClose, LockVenue, ReadNumber,
         SnapshotTotals, SumPayments, CheckPaid, ReadLines, RefuseOpen, RefuseClose, Abort

LEMMA NextCloses == Typed /\ ClosedOnce /\ [Next]_vars => ClosedOnce'
<1> SUFFICES ASSUME Typed, ClosedOnce, [Next]_vars  PROVE ClosedOnce'
  OBVIOUS
<1>1. ASSUME NEW w \in Waiter, Open(w) \/ AddItems(w) \/ AddPayment(w) \/ Close(w) \/ Abort(w)
      PROVE  ClosedOnce'
  <2>1. CASE Reads(w) \/ RefuseOpen(w) \/ RefuseClose(w) \/ Abort(w)
    BY <2>1, ReadsAreQuiet, QuietCloses
  <2>2. CASE CommitItems(w)
    BY <2>2, CommitItemsRewrites, RewriteCloses DEF CommitItems
  <2>3. CASE CommitPayment(w)
    BY <2>3, CommitPaymentRewrites, RewriteCloses DEF CommitPayment
  <2>4. CASE IssueAndClose(w)
    BY <2>4, CloseCloses, WaiterFields DEF IssueAndClose, OnOrder
  <2>5. QED
    BY <1>1, <2>1, <2>2, <2>3, <2>4, InsertCloses DEF Open, AddItems, AddPayment, Close, Reads, Begins
<1>2. ASSUME NEW v \in Venue, NEW o \in OrderId, Reprint(v, o)  PROVE ClosedOnce'
  BY <1>2, ReprintRows, QuietCloses DEF Reprint
<1>3. ASSUME NextDay \/ UNCHANGED vars  PROVE ClosedOnce'
  BY <1>3, QuietCloses DEF NextDay, vars
<1>4. QED  BY <1>1, <1>2, <1>3, CloseCloses DEF Next

\* A check leaves the board exactly once, its one history row says how, and it
\* has a receipt exactly when it was completed: however requests interleave,
\* the guarded UPDATE lets one of them through.
THEOREM ClosesOnce == Spec => []ClosedOnce
<1>1. Init => ClosedOnce
  BY DEF Init, ClosedOnce
<1>2. QED  BY <1>1, TypedAlways, NextCloses, PTL DEF Spec

-----------------------------------------------------------------------------
(* Money: what a check asks for, and what a receipt prints *)

RowsOwe == \A o \in DOMAIN orders : orders[o].total <= orders[o].items

ReceiptsOwe ==
    \A o \in DOMAIN receipts : /\ receipts[o].total <= receipts[o].lines
                               /\ receipts[o].total <= receipts[o].paid

\* What a request read is still a bound when it writes: the items and the
\* payments of a check only grow.
HoldsMoney(w) ==
    LET h == waiters[w] IN
    /\ h.op = "recalculate" => h.sum <= orders[h.order].items + h.price
    /\ h.op \in {"close", "print"} => h.total <= orders[h.order].items
    /\ h.op = "print" => h.total <= orders[h.order].paid
    /\ h.op = "issue" => h.total <= h.lines /\ h.total <= h.paid

MoneyInv == RowsOwe /\ ReceiptsOwe /\ \A w \in Waiter : HoldsMoney(w)

Grows ==
    /\ DOMAIN orders \subseteq DOMAIN orders'
    /\ \A o \in DOMAIN orders : /\ orders'[o].items >= orders[o].items
                                /\ orders'[o].paid >= orders[o].paid

LEMMA RewriteGrows ==
  ASSUME RowsTyped, NEW o, NEW row, Rewrites(o, row)
  PROVE  Grows
<1>1. \A p \in DOMAIN orders : orders[p].items \in Nat /\ orders[p].paid \in Nat
  BY DEF RowsTyped, Row
<1>2. QED  BY <1>1, RewriteRows DEF Rewrites, Grows

LEMMA SameGrows == ASSUME RowsTyped, UNCHANGED orders  PROVE Grows
<1>1. \A p \in DOMAIN orders : orders[p].items \in Nat /\ orders[p].paid \in Nat
  BY DEF RowsTyped, Row
<1>2. QED  BY <1>1 DEF Grows

LEMMA HoldsStays ==
  ASSUME Typed, Typed', Grows, NEW w \in Waiter, HoldsMoney(w), waiters'[w] = waiters[w]
  PROVE  HoldsMoney(w)'
<1>1. CASE waiters[w].op \in {"recalculate", "close", "print"}
  <2>1. PICK h, o : h = waiters[w] /\ o = h.order
    OBVIOUS
  <2>2. o \in DOMAIN orders
    BY <1>1, <2>1, WaiterFields DEF OnOrder
  <2>3. /\ orders[o].items \in Nat /\ orders[o].paid \in Nat
        /\ orders'[o].items \in Nat /\ orders'[o].paid \in Nat
        /\ orders'[o].items >= orders[o].items /\ orders'[o].paid >= orders[o].paid
    BY <2>2 DEF Typed, RowsTyped, Row, Grows
  <2>4. /\ h.op = "recalculate" => h.sum \in Nat /\ h.price \in Nat
        /\ h.op \in {"close", "print"} => h.total \in Nat
    BY <2>1, WaiterFields, MoneyAssumption
  <2>5. QED  BY <1>1, <2>1, <2>3, <2>4 DEF HoldsMoney
<1>2. CASE waiters[w].op \notin {"recalculate", "close", "print"}
  BY <1>2 DEF HoldsMoney
<1>3. QED  BY <1>1, <1>2

\* A step of one request: what it knows afterwards, the rows and the receipts.
LEMMA OneStepMoney ==
  ASSUME Typed, Typed', MoneyInv, Grows, RowsOwe', ReceiptsOwe', NEW w \in Waiter,
         \A x \in Waiter \ {w} : waiters'[x] = waiters[x],
         HoldsMoney(w)'
  PROVE  MoneyInv'
<1>1. ASSUME NEW x \in Waiter \ {w}  PROVE HoldsMoney(x)'
  BY HoldsStays DEF MoneyInv
<1>2. QED  BY <1>1 DEF MoneyInv

LEMMA IdleMoney ==
  ASSUME Typed, Typed', MoneyInv, Grows, RowsOwe', ReceiptsOwe',
         NEW w \in Waiter, Become(w, Idle)
  PROVE  MoneyInv'
<1>1. waiters'[w] = Idle
  BY BecomeMoves DEF Typed
<1>2. HoldsMoney(w)'
  BY <1>1 DEF HoldsMoney, Idle
<1>3. QED  BY <1>2, OthersStay, OneStepMoney DEF Typed

LEMMA ReadMoney ==
  ASSUME Typed, Typed', MoneyInv, NEW w \in Waiter, Reads(w)
  PROVE  MoneyInv'
<1>1. UNCHANGED <<orders, receipts>>
  BY ReadsAreQuiet
<1>2. Grows /\ RowsOwe' /\ ReceiptsOwe'
  BY <1>1, SameGrows DEF Typed, MoneyInv, RowsOwe, ReceiptsOwe
<1>3. \A x \in Waiter \ {w} : waiters'[x] = waiters[x]
  BY DEF Reads, Begins, BeginOpen, BeginAddItems, BeginPayment, BeginClose, LockVenue, ReadNumber,
         SnapshotTotals, SumPayments, CheckPaid, ReadLines, Become, Typed, WaitersTyped
<1>4. \A o \in DOMAIN orders : /\ orders[o].total \in Nat /\ orders[o].items \in Nat
                               /\ orders[o].paid \in Nat /\ orders[o].total <= orders[o].items
  BY DEF Typed, RowsTyped, Row, MoneyInv, RowsOwe
<1>5. HoldsMoney(w)'
  <2>1. ASSUME NEW o \in OrderId, BeginClose(w, o)  PROVE HoldsMoney(w)'
    <3>1. o \in DOMAIN orders /\ orders' = orders
      BY <2>1 DEF BeginClose
    <3>2. waiters'[w] = [op |-> "close", order |-> o, total |-> orders[o].total]
      BY <2>1, BecomeMoves DEF BeginClose, Typed
    <3>3. QED  BY <1>4, <3>1, <3>2 DEF HoldsMoney
  <2>2. CASE SnapshotTotals(w)
    <3>1. PICK h : h = waiters[w]
      OBVIOUS
    <3>2. h.order \in DOMAIN orders /\ h.price \in Nat
      BY <2>2, <3>1, WaiterFields, MoneyAssumption DEF SnapshotTotals, OnOrder
    <3>3. waiters'[w] = [op |-> "recalculate", order |-> h.order, seen |-> h.seen,
                         price |-> h.price, sum |-> SumItems(h.order, h.price)]
      BY <2>2, <3>1, BecomeMoves DEF SnapshotTotals, Typed
    <3>4. QED  BY <1>1, <1>4, <3>2, <3>3 DEF HoldsMoney, SumItems
  <2>3. CASE CheckPaid(w)
    <3>1. PICK h : h = waiters[w]
      OBVIOUS
    <3>2. /\ h \in [op : {"close"}, order : OrderId, total : Nat] /\ h.order \in DOMAIN orders
          /\ h.total <= orders[h.order].items
      BY <2>3, <3>1
      DEF CheckPaid, Typed, WaitersTyped, Fits, OnOrder, Request, Idle, MoneyInv, HoldsMoney
    <3>3. CASE waiters'[w] = Idle
      BY <3>3 DEF HoldsMoney, Idle
    <3>4. CASE waiters'[w] = [h EXCEPT !.op = "print"] /\ orders[h.order].paid >= h.total
      BY <1>1, <1>4, <3>2, <3>4 DEF HoldsMoney
    <3>5. QED
      BY <2>3, <3>1, <3>3, <3>4, BecomeMoves DEF CheckPaid, Covered, Typed
  <2>4. CASE ReadLines(w)
    <3>1. PICK h : h = waiters[w]
      OBVIOUS
    <3>2. /\ h.total <= orders[h.order].items /\ h.total <= orders[h.order].paid
      BY <2>4, <3>1 DEF ReadLines, MoneyInv, HoldsMoney
    <3>3. waiters'[w] = [op |-> "issue", order |-> h.order, total |-> h.total,
                         lines |-> orders[h.order].items, paid |-> orders[h.order].paid]
      BY <2>4, <3>1, BecomeMoves DEF ReadLines, Typed
    <3>4. QED  BY <3>2, <3>3 DEF HoldsMoney
  <2>5. CASE LockVenue(w) \/ ReadNumber(w) \/ SumPayments(w)
             \/ (\E t \in Table : BeginOpen(w, t))
             \/ \E o \in OrderId : \/ \E price \in Price : BeginAddItems(w, o, price)
                                   \/ \E amount \in Amount : BeginPayment(w, o, amount)
    <3>1. waiters'[w].op \in {"lock", "number", "insert", "settle", "add", "pay"}
      <4>1. CASE LockVenue(w)
        <5>1. waiters[w] \in [op : {"lock"}, table : Table, date : Nat]
          BY <4>1 DEF LockVenue, Typed, WaitersTyped, Request, Idle
        <5>2. QED  BY <4>1, <5>1, BecomeMoves DEF LockVenue, Typed
      <4>2. CASE ~LockVenue(w)
        BY <2>5, <4>2 DEF ReadNumber, SumPayments, BeginOpen, BeginAddItems, BeginPayment,
                          Become, Typed, WaitersTyped
      <4>3. QED  BY <4>1, <4>2
    <3>2. QED  BY <3>1 DEF HoldsMoney
  <2>6. QED  BY <2>1, <2>2, <2>3, <2>4, <2>5 DEF Reads, Begins
<1>6. QED  BY <1>2, <1>3, <1>5, OneStepMoney

LEMMA CommitItemsMoney ==
  ASSUME Typed, Typed', MoneyInv, NEW w \in Waiter, CommitItems(w)
  PROVE  MoneyInv'
<1>1. PICK h, o : h = waiters[w] /\ o = h.order
  OBVIOUS
<1>2. /\ o \in DOMAIN orders /\ orders[o] \in Row /\ h.price \in Nat /\ h.sum \in Nat
      /\ h.sum <= orders[o].items + h.price
  BY <1>1, WaiterFields, MoneyAssumption
  DEF CommitItems, OnOrder, Typed, RowsTyped, MoneyInv, HoldsMoney
<1>3. Rewrites(o, WithItems(h))
  BY <1>1, CommitItemsRewrites
<1>4. WithItems(h).total = h.sum /\ WithItems(h).items = orders[o].items + h.price
  BY <1>1, <1>2 DEF WithItems, Row
<1>5. RowsOwe'
  BY <1>2, <1>3, <1>4, RewriteRows DEF Typed, MoneyInv, RowsOwe
<1>6. ReceiptsOwe'
  BY DEF CommitItems, MoneyInv, ReceiptsOwe
<1>7. QED  BY <1>3, <1>5, <1>6, RewriteGrows, IdleMoney DEF CommitItems, Typed

LEMMA OtherWritesMoney ==
  ASSUME Typed, Typed', MoneyInv, NEW o, NEW row, Rewrites(o, row),
         row.total = orders[o].total
  PROVE  Grows /\ RowsOwe'
<1>1. \A p \in DOMAIN orders : /\ orders[p].total \in Nat /\ orders[p].items \in Nat
                               /\ orders'[p].items \in Nat /\ orders[p].total <= orders[p].items
  BY RewriteRows DEF Typed, RowsTyped, Row, MoneyInv, RowsOwe
<1>2. /\ DOMAIN orders' = DOMAIN orders /\ orders'[o] = row /\ o \in DOMAIN orders
      /\ \A p \in DOMAIN orders \ {o} : orders'[p] = orders[p]
      /\ row.items >= orders[o].items
  BY RewriteRows DEF Rewrites, Typed
<1>3. RowsOwe'
  BY <1>1, <1>2 DEF RowsOwe
<1>4. QED  BY <1>3, RewriteGrows DEF Typed

LEMMA IssueMoney ==
  ASSUME Typed, Typed', MoneyInv, NEW w \in Waiter, IssueAndClose(w)
  PROVE  ReceiptsOwe'
<1>1. PICK h : h = waiters[w]
  OBVIOUS
<1>2. h.total <= h.lines /\ h.total <= h.paid
  BY <1>1 DEF IssueAndClose, MoneyInv, HoldsMoney
<1>3. /\ DOMAIN receipts' = DOMAIN receipts \cup {h.order}
      /\ receipts'[h.order] = NewReceipt(h)
      /\ \A o \in DOMAIN receipts : receipts'[o] = receipts[o]
  BY <1>1, IssueReceipts
<1>4. NewReceipt(h).total = h.total /\ NewReceipt(h).lines = h.lines /\ NewReceipt(h).paid = h.paid
  BY DEF NewReceipt
<1>5. QED  BY <1>2, <1>3, <1>4 DEF MoneyInv, ReceiptsOwe

LEMMA NextMoney == Typed /\ Typed' /\ MoneyInv /\ [Next]_vars => MoneyInv'
<1> SUFFICES ASSUME Typed, Typed', MoneyInv, [Next]_vars  PROVE MoneyInv'
  OBVIOUS
<1>1. ASSUME NEW w \in Waiter, RefuseOpen(w) \/ RefuseClose(w) \/ Abort(w)  PROVE MoneyInv'
  <2>1. UNCHANGED <<orders, receipts>> /\ Become(w, Idle)
    BY <1>1 DEF RefuseOpen, RefuseClose, Abort
  <2>2. RowsOwe' /\ ReceiptsOwe'
    BY <2>1 DEF MoneyInv, RowsOwe, ReceiptsOwe
  <2>3. QED  BY <2>1, <2>2, SameGrows, IdleMoney DEF Typed
<1>2. ASSUME NEW w \in Waiter, NEW o \in OrderId, InsertOrder(w, o)  PROVE MoneyInv'
  <2>1. /\ DOMAIN orders' = DOMAIN orders \cup {o} /\ o \notin DOMAIN orders
        /\ orders'[o] = NewRow(waiters[w])
        /\ \A p \in DOMAIN orders : orders'[p] = orders[p]
    BY <1>2, InsertRows
  <2>2. orders'[o].total = 0 /\ orders'[o].items = 0
    BY <2>1 DEF NewRow
  <2>3. RowsOwe'
    BY <2>1, <2>2 DEF MoneyInv, RowsOwe
  <2>4. ReceiptsOwe' /\ Become(w, Idle)
    BY <1>2 DEF InsertOrder, MoneyInv, ReceiptsOwe
  <2>5. Grows
    BY <2>1 DEF Grows, Typed, RowsTyped, Row
  <2>6. QED  BY <2>3, <2>4, <2>5, IdleMoney
<1>3. ASSUME NEW w \in Waiter, CommitPayment(w)  PROVE MoneyInv'
  <2>1. PICK h, o : h = waiters[w] /\ o = h.order
    OBVIOUS
  <2>2. /\ Rewrites(o, WithPayment(h)) /\ Become(w, Idle)
        /\ o \in DOMAIN orders /\ orders[o] \in Row
    BY <1>3, <2>1, CommitPaymentRewrites DEF CommitPayment, Rewrites, Typed, RowsTyped
  <2>3. WithPayment(h).total = orders[o].total
    BY <2>1, <2>2 DEF WithPayment, Row
  <2>4. ReceiptsOwe'
    BY <1>3 DEF CommitPayment, MoneyInv, ReceiptsOwe
  <2>5. QED  BY <2>2, <2>3, <2>4, OtherWritesMoney, IdleMoney
<1>4. ASSUME NEW o \in OrderId,
             \/ \E w \in Waiter : IssueAndClose(w) /\ waiters[w].order = o
             \/ \E v \in Venue : CancelOrder(v, o)
      PROVE  MoneyInv'
  <2>1. PICK status \in CLOSED_ORDER_STATUSES : Rewrites(o, WithStatus(o, status))
    BY <1>4, CloseRewrites
  <2>2. WithStatus(o, status).total = orders[o].total
    BY <2>1 DEF WithStatus, Rewrites, Typed, RowsTyped, Row
  <2>3. ReceiptsOwe'
    BY <1>4, IssueMoney DEF CancelOrder, MoneyInv, ReceiptsOwe
  <2>4. Grows /\ RowsOwe'
    BY <2>1, <2>2, OtherWritesMoney
  <2>5. CASE \E w \in Waiter : IssueAndClose(w)
    BY <2>3, <2>4, <2>5, IdleMoney DEF IssueAndClose
  <2>6. CASE \E v \in Venue : CancelOrder(v, o)
    <3>1. waiters' = waiters
      BY <2>6 DEF CancelOrder
    <3>2. QED  BY <2>3, <2>4, <3>1, HoldsStays DEF MoneyInv
  <2>7. QED  BY <1>4, <2>5, <2>6
<1>5. ASSUME NEW v \in Venue, NEW o \in OrderId, Reprint(v, o)  PROVE MoneyInv'
  <2>1. UNCHANGED <<orders, waiters>>
    BY <1>5 DEF Reprint
  <2>2. \A p \in DOMAIN receipts : receipts'[p].total = receipts[p].total
                                   /\ receipts'[p].lines = receipts[p].lines
                                   /\ receipts'[p].paid = receipts[p].paid
    BY <1>5, ReprintRows DEF Typed, RowsTyped, Receipt
  <2>3. RowsOwe' /\ ReceiptsOwe'
    BY <1>5, <2>1, <2>2, ReprintRows DEF MoneyInv, RowsOwe, ReceiptsOwe
  <2>4. Grows
    BY <2>1, SameGrows DEF Typed
  <2>5. QED  BY <2>1, <2>3, <2>4, HoldsStays DEF MoneyInv
<1>6. ASSUME NextDay \/ UNCHANGED vars  PROVE MoneyInv'
  BY <1>6 DEF NextDay, vars, MoneyInv, RowsOwe, ReceiptsOwe, HoldsMoney
<1>7. ASSUME NEW w \in Waiter, Open(w) \/ AddItems(w) \/ AddPayment(w) \/ Close(w) \/ Abort(w)
      PROVE  MoneyInv'
  <2>1. CASE Reads(w)
    BY <2>1, ReadMoney
  <2>2. CASE IssueAndClose(w)
    BY <1>4, <2>2, WaiterFields DEF IssueAndClose, OnOrder
  <2>3. QED
    BY <1>1, <1>2, <1>3, <1>7, <2>1, <2>2, CommitItemsMoney
    DEF Open, AddItems, AddPayment, Close, Reads, Begins
<1>8. QED  BY <1>4, <1>5, <1>6, <1>7 DEF Next

\* However requests interleave, no check asks for more than was ordered and no
\* receipt prints a total above its lines or above the payments it prints.
THEOREM ReceiptsAddUp == Spec => [](NeverOvercharged /\ ReceiptIsCovered)
<1>1. Init => MoneyInv
  BY DEF Init, Idle, MoneyInv, RowsOwe, ReceiptsOwe, HoldsMoney
<1>2. Typed /\ MoneyInv => NeverOvercharged /\ ReceiptIsCovered
  BY DEF Typed, RowsTyped, Receipt, MoneyInv, RowsOwe, ReceiptsOwe, NeverOvercharged,
         ReceiptIsCovered
<1>3. QED  BY <1>1, <1>2, TypedAlways, NextMoney, PTL DEF Spec

\* In particular the payments on a receipt cover what it charges (close sums them
\* first, without a lock), whatever was added to the check in the meantime.
THEOREM ReceiptsAreCovered == Spec => []ReceiptIsCovered
  BY ReceiptsAddUp, PTL
-----------------------------------------------------------------------------
(* Receipts never change, and the orders implement the table board *)

\* Whatever happens to the check later, a printed receipt stays what was
\* printed: only its reprint counter moves, and upwards.
THEOREM FrozenReceipts == Spec => ReceiptsAreFrozen
<1> DEFINE Frozen == \A o \in DOMAIN receipts :
                        /\ o \in DOMAIN receipts'
                        /\ receipts'[o] = [receipts[o] EXCEPT !.reprints = receipts'[o].reprints]
                        /\ receipts'[o].reprints >= receipts[o].reprints
<1>1. ASSUME Typed, UNCHANGED receipts  PROVE Frozen
  <2>1. \A o \in DOMAIN receipts : receipts[o] \in Receipt
    BY <1>1 DEF Typed, RowsTyped
  <2>2. QED  BY <1>1, <2>1 DEF Receipt
<1>2. ASSUME Typed, NEW w \in Waiter, IssueAndClose(w)  PROVE Frozen
  <2>1. \A o \in DOMAIN receipts : receipts[o] \in Receipt
    BY <1>2 DEF Typed, RowsTyped
  <2>2. \A o \in DOMAIN receipts : o \in DOMAIN receipts' /\ receipts'[o] = receipts[o]
    BY <1>2, IssueReceipts
  <2>3. QED  BY <2>1, <2>2 DEF Receipt
<1>3. ASSUME Typed, NEW v \in Venue, NEW o \in OrderId, Reprint(v, o)  PROVE Frozen
  BY <1>3, ReprintRows
<1>4. ASSUME Typed, [Next]_vars  PROVE Frozen
  <2>1. ASSUME NEW w \in Waiter, Reads(w) \/ RefuseOpen(w) \/ RefuseClose(w) \/ Abort(w)
        PROVE  Frozen
    BY <1>1, <1>4, <2>1, ReadsAreQuiet
  <2>2. ASSUME NEW w \in Waiter,
               CommitItems(w) \/ CommitPayment(w) \/ \E o \in OrderId : InsertOrder(w, o)
        PROVE  Frozen
    BY <1>1, <1>4, <2>2 DEF CommitItems, CommitPayment, InsertOrder
  <2>3. ASSUME NEW w \in Waiter, Open(w) \/ AddItems(w) \/ AddPayment(w) \/ Close(w) \/ Abort(w)
        PROVE  Frozen
    BY <1>2, <1>4, <2>1, <2>2, <2>3 DEF Open, AddItems, AddPayment, Close, Reads, Begins
  <2>4. ASSUME NEW v \in Venue, NEW o \in OrderId, CancelOrder(v, o)  PROVE Frozen
    BY <1>1, <1>4, <2>4 DEF CancelOrder
  <2>5. ASSUME NextDay \/ UNCHANGED vars  PROVE Frozen
    BY <1>1, <1>4, <2>5 DEF NextDay, vars
  <2>6. QED  BY <1>3, <1>4, <2>3, <2>4, <2>5 DEF Next
<1>5. Typed /\ [Next]_vars => [Frozen]_vars
  BY <1>4
<1>6. QED  BY <1>5, TypedAlways, PTL DEF Spec, ReceiptsAreFrozen

OneLive ==
    \A o, p \in DOMAIN orders :
        orders[o].table = orders[p].table /\ Live(o) /\ Live(p) => o = p

Pick(S) == IF S = {} THEN NoOne ELSE CHOOSE o \in S : TRUE

ShownNow == [t \in Table |-> Pick(ShownOn(t))]

\* The mapping looks a table up: the one live check on it, or none.
LEMMA ShowsIt ==
  ASSUME OneLive, NEW t \in Table
  PROVE  /\ ShownOn(t) = {} => ShownNow[t] = NoOne
         /\ \A o \in ShownOn(t) : ShownNow[t] = o /\ ShownOn(t) = {o}
  BY DEF OneLive, ShownOn, ShownNow, Pick

LEMMA ShowsCheck ==
  ASSUME Typed, OneLive, NEW t \in Table, ShownOn(t) # {}
  PROVE  ShownNow[t] # NoOne
<1>1. PICK o : o \in ShownOn(t)
  OBVIOUS
<1>2. o \in OrderId
  BY <1>1 DEF ShownOn, Typed, RowsTyped
<1>3. QED  BY <1>1, <1>2, ShowsIt, FloorAssumption

\* A step that moves no check on or off the board.
SameBoard ==
    /\ DOMAIN orders' = DOMAIN orders
    /\ \A o \in DOMAIN orders : orders'[o].table = orders[o].table /\ (Live(o)' <=> Live(o))

LEMMA SameBoardStutters ==
  ASSUME OneLive, SameBoard
  PROVE  OneLive' /\ UNCHANGED <<ShownNow, DOMAIN orders>>
<1>1. OneLive'
  BY DEF OneLive, SameBoard
<1>2. \A t \in Table : ShownOn(t)' = ShownOn(t)
  BY DEF ShownOn, SameBoard
<1>3. ShownNow' = ShownNow
  BY <1>2 DEF ShownNow
<1>4. QED  BY <1>1, <1>3 DEF SameBoard

LEMMA RewriteSameBoard ==
  ASSUME Typed, NEW o, NEW row, Rewrites(o, row),
         Live(o) => row.status \notin CLOSED_ORDER_STATUSES
  PROVE  SameBoard
  BY RewriteRows DEF Typed, Rewrites, SameBoard, Live

LEMMA CloseLeaves ==
  ASSUME Typed, OneLive, NEW o \in OrderId,
         \/ \E w \in Waiter : IssueAndClose(w) /\ waiters[w].order = o
         \/ \E v \in Venue : CancelOrder(v, o)
  PROVE  OneLive' /\ \E t \in Table : Board!Leave(t)
<1>1. PICK status \in CLOSED_ORDER_STATUSES : Rewrites(o, WithStatus(o, status))
  BY CloseRewrites
<1>2. o \in DOMAIN orders /\ Live(o) /\ orders[o] \in Row
  BY <1>1, CloseRewrites DEF Rewrites, Typed, RowsTyped
<1>3. WithStatus(o, status).status = status /\ WithStatus(o, status).table = orders[o].table
  BY <1>2 DEF WithStatus, Row
<1>4. /\ DOMAIN orders' = DOMAIN orders
      /\ \A p \in DOMAIN orders : orders'[p].table = orders[p].table
      /\ \A p \in DOMAIN orders \ {o} : Live(p)' <=> Live(p)
      /\ ~Live(o)'
  BY <1>1, <1>3, RewriteRows DEF Typed, Live
<1>5. OneLive'
  BY <1>2, <1>4 DEF OneLive
<1>6. PICK t : t = orders[o].table
  OBVIOUS
<1>7. t \in Table /\ o \in ShownOn(t)
  BY <1>2, <1>6 DEF Row, ShownOn
<1>8. ShownOn(t)' = {}
  BY <1>2, <1>4, <1>6, <1>7, ShowsIt DEF ShownOn
<1>9. \A s \in Table \ {t} : ShownOn(s)' = ShownOn(s)
  BY <1>2, <1>4, <1>6 DEF ShownOn
<1>. Pick({}) = NoOne
  BY DEF Pick
<1>10. ShownNow' = [ShownNow EXCEPT ![t] = NoOne]
  BY <1>7, <1>8, <1>9 DEF ShownNow
<1>11. ShownNow[t] # NoOne
  BY <1>7, ShowsCheck
<1>12. Board!Leave(t)
  BY <1>4, <1>10, <1>11 DEF Board!Leave, ShownNow, Pick
<1>13. QED  BY <1>5, <1>7, <1>12

LEMMA InsertSeats ==
  ASSUME Typed, OneLive, NEW w \in Waiter, NEW o \in OrderId, InsertOrder(w, o)
  PROVE  OneLive' /\ \E t \in Table : Board!Seat(t, o)
<1>1. /\ DOMAIN orders' = DOMAIN orders \cup {o} /\ o \notin DOMAIN orders
      /\ orders'[o] = NewRow(waiters[w])
      /\ \A p \in DOMAIN orders : orders'[p] = orders[p]
  BY InsertRows
<1>2. PICK t : t = waiters[w].table
  OBVIOUS
<1>3. orders'[o].table = t /\ Live(o)' /\ \A p \in DOMAIN orders : Live(p)' <=> Live(p)
  BY <1>1, <1>2 DEF NewRow, Live, CLOSED_ORDER_STATUSES
<1>4. t \in Table /\ \A p \in DOMAIN orders : orders[p].table = t => ~Live(p)
  BY <1>2, WaiterFields DEF InsertOrder, TableFree
<1>5. OneLive'
  BY <1>1, <1>3, <1>4 DEF OneLive
<1>6. ShownOn(t) = {} /\ ShownOn(t)' = {o}
  BY <1>1, <1>3, <1>4 DEF ShownOn
<1>7. \A s \in Table \ {t} : ShownOn(s)' = ShownOn(s)
  BY <1>1, <1>3 DEF ShownOn
<1>. Pick({o}) = o
  BY DEF Pick
<1>8. ShownNow' = [ShownNow EXCEPT ![t] = o]
  BY <1>4, <1>6, <1>7 DEF ShownNow
<1>9. ShownNow[t] = NoOne
  BY <1>4, <1>6 DEF ShownNow, Pick
<1>10. Board!Seat(t, o)
  BY <1>1, <1>8, <1>9 DEF Board!Seat, ShownNow, Pick
<1>11. QED  BY <1>4, <1>5, <1>10

LEMMA NextOnBoard ==
  ASSUME Typed, OneLive, [Next]_vars
  PROVE  OneLive' /\ (Board!BoardNext \/ UNCHANGED <<ShownNow, DOMAIN orders>>)
<1> DEFINE Fine == OneLive' /\ (Board!BoardNext \/ UNCHANGED <<ShownNow, DOMAIN orders>>)
<1>1. ASSUME UNCHANGED orders  PROVE Fine
  BY <1>1, SameBoardStutters DEF SameBoard, Live
<1>2. ASSUME NEW o \in OrderId,
             \/ \E w \in Waiter : IssueAndClose(w) /\ waiters[w].order = o
             \/ \E v \in Venue : CancelOrder(v, o)
      PROVE  Fine
  BY <1>2, CloseLeaves DEF Board!BoardNext
<1>3. ASSUME NEW w \in Waiter, NEW o \in OrderId, InsertOrder(w, o)  PROVE Fine
  BY <1>3, InsertSeats DEF Board!BoardNext
<1>4. ASSUME NEW w \in Waiter, CommitItems(w) \/ CommitPayment(w)  PROVE Fine
  BY <1>4, CommitItemsRewrites, CommitPaymentRewrites, RewriteSameBoard, SameBoardStutters
<1>5. ASSUME NEW w \in Waiter, Open(w) \/ AddItems(w) \/ AddPayment(w) \/ Close(w) \/ Abort(w)
      PROVE  Fine
  <2>1. CASE Reads(w) \/ RefuseOpen(w) \/ RefuseClose(w) \/ Abort(w)
    BY <1>1, <2>1, ReadsAreQuiet
  <2>2. CASE IssueAndClose(w)
    BY <1>2, <2>2, WaiterFields DEF IssueAndClose, OnOrder
  <2>3. QED
    BY <1>3, <1>4, <1>5, <2>1, <2>2 DEF Open, AddItems, AddPayment, Close, Reads, Begins
<1>6. ASSUME NEW v \in Venue, NEW o \in OrderId, Reprint(v, o)  PROVE Fine
  BY <1>1, <1>6 DEF Reprint
<1>7. ASSUME NextDay \/ UNCHANGED vars  PROVE Fine
  BY <1>1, <1>7 DEF NextDay, vars
<1>8. Fine
  BY <1>2, <1>5, <1>6, <1>7 DEF Next
<1>9. QED  BY <1>8

\* The orders implement the table board: a step seats a new check on a free
\* table, lets one leave for good, or changes nothing the board shows.
THEOREM RefinesBoard == Spec => ImplementsBoard
<1>1. Init => OneLive /\ Board!BoardInit
  BY DEF Init, OneLive, Board!BoardInit, ShownOn
<1>2. Typed /\ OneLive /\ [Next]_vars =>
        OneLive' /\ [Board!BoardNext]_<<ShownNow, DOMAIN orders>>
  BY NextOnBoard
<1>3. QED
  BY <1>1, <1>2, TypedAlways, PTL DEF Spec, ImplementsBoard, Board!BoardSpec, ShownNow, Pick
=============================================================================
