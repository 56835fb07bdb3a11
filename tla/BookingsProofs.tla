--------------------------- MODULE BookingsProofs ---------------------------
(* Machine-checked theorems about Bookings.tla, for every set of bookings,   *)
(* requests, handlers, branches and users.                                   *)
EXTENDS Bookings, TLAPS

\* Types and times are inductive together: a check-out writes a number of
\* minutes only because the check-in it read is not later than its own start.
RowsTyped ==
    /\ DOMAIN bookings \subseteq BookingId
    /\ bookings \in [DOMAIN bookings -> Row]
    /\ history \in [BookingId -> Seq(HistoryRow)]
    /\ now \in Nat
    /\ \A b \in DOMAIN bookings :
          bookings[b].checkedInAt # Null => bookings[b].checkedInAt <= now

HandlerFits(h) ==
    /\ h \in Handler
    /\ h.op \in {"cancel", "decide", "check_out", "flush"} => h.booking \in DOMAIN bookings
    /\ h.op \in {"check_out", "flush"} =>
          (h.seen.checkedInAt # Null => h.seen.checkedInAt <= h.at)

HandlersTyped ==
    /\ sessions \in [Session -> Handler]
    /\ \A s \in Session : HandlerFits(sessions[s])

Typed == RowsTyped /\ HandlersTyped

LEMMA TypedIsTypeOK == Typed <=> TypeOK /\ TimesOrdered
  BY DEF Typed, RowsTyped, HandlersTyped, HandlerFits, TypeOK, TimesOrdered

LEMMA InitTyped == Init => Typed
  BY DEF Init, Typed, RowsTyped, HandlersTyped, HandlerFits, Idle, Handler

\* A step that moves one request and forgets no booking keeps every request
\* typed, if it leaves that one in a fitting state.
LEMMA OneHandlerMoves ==
  ASSUME HandlersTyped, NEW s \in Session,
         sessions' = [sessions EXCEPT ![s] = sessions'[s]],
         HandlerFits(sessions[s])',
         DOMAIN bookings \subseteq DOMAIN bookings'
  PROVE  HandlersTyped'
  BY DEF HandlersTyped, HandlerFits

\* Every request that starts leaves the tables alone and is typed.
Begins(s) ==
    \/ \E q \in Request : BeginTableReservation(s, q) \/ BeginHallEvent(s, q)
    \/ \E u \in User, b \in BookingId :
          \/ BeginCancel(s, u, b)
          \/ \E verdict \in {"confirmed", "cancelled"} : BeginDecision(s, u, b, verdict)
          \/ BeginCheckOut(s, u, b)

LEMMA BeginTyped ==
  ASSUME Typed, NEW s \in Session, Begins(s)
  PROVE  Typed'
<1>0. UNCHANGED <<bookings, history, now>>
  BY DEF Begins, BeginTableReservation, BeginHallEvent, BeginCancel, BeginDecision,
         BeginCheckOut
<1>1. RowsTyped'
  BY <1>0 DEF Typed, RowsTyped
<1>2. ASSUME NEW q \in Request, Become(s, [op |-> "insert", ask |-> q])
      PROVE  HandlerFits(sessions[s])'
  BY <1>2 DEF Typed, HandlersTyped, Become, HandlerFits, Handler
<1>3. ASSUME NEW u \in User, NEW b \in BookingId, b \in DOMAIN bookings,
             NEW verdict \in {"confirmed", "cancelled"},
             \/ Become(s, [op |-> "cancel", booking |-> b, by |-> u])
             \/ Become(s, [op |-> "decide", booking |-> b, by |-> u, verdict |-> verdict])
             \/ Become(s, [op |-> "check_out", booking |-> b, by |-> u,
                           at |-> now, seen |-> bookings[b]])
      PROVE  HandlerFits(sessions[s])'
  <2>1. CASE Become(s, [op |-> "cancel", booking |-> b, by |-> u])
    BY <2>1, <1>0, <1>3 DEF Typed, HandlersTyped, Become, HandlerFits, Handler
  <2>2. CASE Become(s, [op |-> "decide", booking |-> b, by |-> u, verdict |-> verdict])
    BY <2>2, <1>0, <1>3 DEF Typed, HandlersTyped, Become, HandlerFits, Handler
  <2>3. CASE Become(s, [op |-> "check_out", booking |-> b, by |-> u,
                        at |-> now, seen |-> bookings[b]])
    <3>1. bookings[b] \in Row /\ now \in Nat
      BY <1>3 DEF Typed, RowsTyped
    <3>2. sessions'[s] = [op |-> "check_out", booking |-> b, by |-> u,
                           at |-> now, seen |-> bookings[b]]
      BY <2>3 DEF Typed, HandlersTyped, Become
    <3>3. sessions'[s] \in Handler
      BY <3>1, <3>2 DEF Handler
    <3>4. QED
      BY <3>2, <3>3, <1>3, <1>0 DEF HandlerFits, Typed, RowsTyped
  <2>4. QED  BY <1>3, <2>1, <2>2, <2>3
<1>4. HandlerFits(sessions[s])'
  <2>1. CASE \E q \in Request : BeginTableReservation(s, q) \/ BeginHallEvent(s, q)
    BY <2>1, <1>2 DEF BeginTableReservation, BeginHallEvent
  <2>2. CASE \E u \in User, b \in BookingId : BeginCancel(s, u, b)
    BY <2>2, <1>3 DEF BeginCancel
  <2>3. CASE \E u \in User, b \in BookingId, verdict \in {"confirmed", "cancelled"} :
                BeginDecision(s, u, b, verdict)
    BY <2>3, <1>3 DEF BeginDecision
  <2>4. CASE \E u \in User, b \in BookingId : BeginCheckOut(s, u, b)
    BY <2>4, <1>3 DEF BeginCheckOut
  <2>5. QED  BY <2>1, <2>2, <2>3, <2>4 DEF Begins
<1>5. sessions' = [sessions EXCEPT ![s] = sessions'[s]]
  BY DEF Begins, BeginTableReservation, BeginHallEvent, BeginCancel, BeginDecision,
         BeginCheckOut, Typed, HandlersTyped, Become
<1>6. HandlersTyped'
  BY <1>0, <1>4, <1>5, OneHandlerMoves DEF Typed
<1>7. QED  BY <1>1, <1>6 DEF Typed

LEMMA HistoryTyped ==
  ASSUME Typed, NEW b \in BookingId, NEW STATE from, NEW STATE to, NEW STATE by,
         from \in Statuses \cup {Null}, to \in Statuses, by \in User,
         RecordStatusChange(b, from, to, by)
  PROVE  history' \in [BookingId -> Seq(HistoryRow)]
<1>1. [from |-> from, to |-> to, by |-> by] \in HistoryRow
  BY DEF HistoryRow
<1>2. history[b] \in Seq(HistoryRow)
  BY DEF Typed, RowsTyped
<1>3. Append(history[b], [from |-> from, to |-> to, by |-> by]) \in Seq(HistoryRow)
  BY <1>1, <1>2
<1>4. QED  BY <1>3 DEF RecordStatusChange, Typed, RowsTyped

\* What a request in flight carries, by the step it has reached.
LEMMA HandlerFields ==
  ASSUME Typed, NEW s \in Session
  PROVE  /\ sessions[s].op = "insert" => sessions[s].ask \in Request
         /\ sessions[s].op \in {"cancel", "decide", "check_out", "flush"} =>
                /\ sessions[s].booking \in DOMAIN bookings
                /\ sessions[s].booking \in BookingId
                /\ sessions[s].by \in User
         /\ sessions[s].op = "decide" => sessions[s].verdict \in {"confirmed", "cancelled"}
         /\ sessions[s].op \in {"check_out", "flush"} =>
                /\ sessions[s].at \in Nat
                /\ sessions[s].seen \in Row
                /\ sessions[s].seen.checkedInAt # Null =>
                      sessions[s].seen.checkedInAt <= sessions[s].at
BY DEF Typed, RowsTyped, HandlersTyped, HandlerFits, Handler, Idle

LEMMA InvalidateFits ==
  ASSUME NEW v \in Venue, NEW s \in Session, HandlersTyped,
         Become(s, [op |-> "invalidate", venue |-> v]),
         DOMAIN bookings \subseteq DOMAIN bookings'
  PROVE  HandlersTyped'
<1>1. HandlerFits(sessions[s])'
  BY DEF HandlersTyped, Become, HandlerFits, Handler
<1>2. sessions' = [sessions EXCEPT ![s] = sessions'[s]]
  BY DEF HandlersTyped, Become
<1>3. QED  BY <1>1, <1>2, OneHandlerMoves

LEMMA IdleFits ==
  ASSUME NEW s \in Session, HandlersTyped, Become(s, Idle),
         DOMAIN bookings \subseteq DOMAIN bookings'
  PROVE  HandlersTyped'
<1>1. HandlerFits(sessions[s])'
  BY DEF HandlersTyped, Become, HandlerFits, Handler, Idle
<1>2. sessions' = [sessions EXCEPT ![s] = sessions'[s]]
  BY DEF HandlersTyped, Become
<1>3. QED  BY <1>1, <1>2, OneHandlerMoves

LEMMA InsertTyped ==
  ASSUME Typed, NEW s \in Session, NEW b \in BookingId, InsertBooking(s, b)
  PROVE  Typed'
<1> DEFINE q == sessions[s].ask
<1>1. q \in Request /\ q.user \in User /\ q.venue \in Venue
  BY HandlerFields, RequestAssumption DEF InsertBooking, RequestShape
<1>2. NewRow(q) \in Row
  BY <1>1 DEF NewRow, Row, Statuses
<1>3. /\ DOMAIN bookings' = DOMAIN bookings \cup {b}
      /\ bookings'[b] = NewRow(q)
      /\ \A c \in DOMAIN bookings : c # b => bookings'[c] = bookings[c]
      /\ bookings' \in [DOMAIN bookings \cup {b} -> Row]
      /\ now' = now
  BY <1>2 DEF InsertBooking, Typed, RowsTyped
<1>4. history' \in [BookingId -> Seq(HistoryRow)]
  BY <1>1, HistoryTyped DEF InsertBooking, Statuses
<1>5. RowsTyped'
  BY <1>3, <1>4 DEF Typed, RowsTyped, NewRow
<1>6. HandlersTyped'
  BY <1>1, <1>3, InvalidateFits DEF InsertBooking, Typed
<1>7. QED  BY <1>5, <1>6 DEF Typed

LEMMA SetStatusTyped ==
  ASSUME Typed, NEW b \in DOMAIN bookings, NEW STATE status, status \in Statuses,
         SetStatus(b, status), now' = now, history' \in [BookingId -> Seq(HistoryRow)]
  PROVE  RowsTyped' /\ DOMAIN bookings' = DOMAIN bookings
<1>1. bookings[b] \in Row
  BY DEF Typed, RowsTyped
<1>2. [bookings[b] EXCEPT !.status = status] \in Row
  BY <1>1 DEF Row
<1>3. /\ bookings' \in [DOMAIN bookings -> Row]
      /\ \A c \in DOMAIN bookings : bookings'[c].checkedInAt = bookings[c].checkedInAt
  BY <1>1, <1>2 DEF SetStatus, Typed, RowsTyped, Row
<1>4. QED  BY <1>3 DEF Typed, RowsTyped

LEMMA WriteTyped ==
  ASSUME Typed, NEW s \in Session, WriteCancel(s) \/ WriteDecision(s)
  PROVE  Typed'
<1> DEFINE b == sessions[s].booking
           status == IF sessions[s].op = "cancel" THEN "cancelled" ELSE sessions[s].verdict
<1>1. b \in DOMAIN bookings /\ b \in BookingId /\ sessions[s].by \in User
  BY HandlerFields DEF WriteCancel, WriteDecision
<1>2. status \in Statuses
  BY HandlerFields DEF WriteCancel, WriteDecision, Statuses
<1>3. bookings[b].ask.venue \in Venue
  BY <1>1, RequestAssumption DEF Typed, RowsTyped, Row, RequestShape
<1>4. /\ SetStatus(b, status)
      /\ \E from \in Statuses : RecordStatusChange(b, from, status, sessions[s].by)
      /\ Become(s, [op |-> "invalidate", venue |-> bookings[b].ask.venue])
      /\ now' = now
  BY DEF WriteCancel, WriteDecision, Statuses
<1>5. history' \in [BookingId -> Seq(HistoryRow)]
  BY <1>1, <1>2, <1>4, HistoryTyped
<1>6. RowsTyped' /\ DOMAIN bookings' = DOMAIN bookings
  BY <1>1, <1>2, <1>4, <1>5, SetStatusTyped
<1>7. HandlersTyped'
  BY <1>3, <1>4, <1>6, InvalidateFits DEF Typed
<1>8. QED  BY <1>6, <1>7 DEF Typed

LEMMA CheckInTyped ==
  ASSUME Typed, NEW u \in User, NEW b \in BookingId, CheckInByQr(u, b)
  PROVE  Typed'
<1>1. bookings[b] \in Row /\ now \in Nat
  BY DEF Typed, RowsTyped, CheckInByQr
<1>2. [bookings[b] EXCEPT !.status = "checked_in", !.checkedInAt = now] \in Row
  BY <1>1 DEF Row, Statuses
<1>3. history' \in [BookingId -> Seq(HistoryRow)]
  BY HistoryTyped DEF CheckInByQr, Statuses
<1>4. bookings' = [bookings EXCEPT ![b] =
                     [bookings[b] EXCEPT !.status = "checked_in", !.checkedInAt = now]]
  BY <1>1 DEF CheckInByQr, Row, Typed, RowsTyped
<1>5. RowsTyped' /\ DOMAIN bookings' = DOMAIN bookings
  BY <1>1, <1>2, <1>3, <1>4 DEF CheckInByQr, Typed, RowsTyped, Row
<1>6. HandlersTyped'
  BY <1>5 DEF CheckInByQr, Typed, HandlersTyped, HandlerFits
<1>7. QED  BY <1>5, <1>6 DEF Typed

LEMMA CheckOutTyped ==
  ASSUME Typed, NEW s \in Session, SelectSeated(s) \/ FlushCheckOut(s)
  PROVE  Typed'
<1>1. CASE SelectSeated(s)
  <2>1. UNCHANGED <<bookings, history, now>>
    BY <1>1 DEF SelectSeated
  <2>2. RowsTyped'
    BY <2>1 DEF Typed, RowsTyped
  <2>3. CASE Become(s, Idle)
    BY <2>1, <2>2, <2>3, IdleFits DEF Typed
  <2>4. CASE Become(s, [sessions[s] EXCEPT !.op = "flush"])
    <3>1. /\ sessions' = [sessions EXCEPT ![s] = sessions'[s]]
          /\ sessions'[s] = [sessions[s] EXCEPT !.op = "flush"]
      BY <2>4 DEF Typed, HandlersTyped, Become
    <3>2. sessions[s] \in [op : {"check_out", "flush"}, booking : BookingId, by : User,
                            at : Nat, seen : Row]
      BY <1>1 DEF SelectSeated, Typed, HandlersTyped, Handler, Idle
    <3>3. /\ sessions'[s] \in Handler
          /\ sessions'[s].op = "flush"
          /\ sessions'[s].booking = sessions[s].booking
          /\ sessions'[s].seen = sessions[s].seen
          /\ sessions'[s].at = sessions[s].at
      BY <3>1, <3>2 DEF Handler
    <3>4. HandlerFits(sessions[s])'
      BY <1>1, <2>1, <3>3, HandlerFields DEF SelectSeated, HandlerFits
    <3>5. QED
      BY <2>1, <2>2, <3>1, <3>4, OneHandlerMoves DEF Typed
  <2>5. QED
    BY <1>1, <2>3, <2>4 DEF SelectSeated
<1>2. CASE FlushCheckOut(s)
  <2> DEFINE h == sessions[s]
             old == bookings[h.booking]
             minutes == SeatedFor(h.seen.checkedInAt, h.at)
             row == [old EXCEPT
                 !.status = Flushed(old.status, h.seen.status, "completed"),
                 !.checkedOutAt = Flushed(old.checkedOutAt, h.seen.checkedOutAt, h.at),
                 !.seatedMinutes = Flushed(old.seatedMinutes, h.seen.seatedMinutes, minutes)]
  <2>1. /\ h.booking \in DOMAIN bookings /\ h.booking \in BookingId /\ h.by \in User
        /\ h.at \in Nat /\ h.seen \in Row
        /\ h.seen.checkedInAt # Null => h.seen.checkedInAt <= h.at
    BY <1>2, HandlerFields DEF FlushCheckOut
  <2>2. minutes \in Nat \cup {Null}
    BY <2>1, NullAssumption DEF SeatedFor, Row
  <2>3. old \in Row
    BY <2>1 DEF Typed, RowsTyped
  <2>4. row \in Row /\ row.checkedInAt = old.checkedInAt
    <3> HIDE DEF minutes
    <3>1. Flushed(old.status, h.seen.status, "completed") \in Statuses
      BY <2>3 DEF Flushed, Row, Statuses
    <3>2. /\ Flushed(old.checkedOutAt, h.seen.checkedOutAt, h.at) \in Nat \cup {Null}
          /\ Flushed(old.seatedMinutes, h.seen.seatedMinutes, minutes) \in Nat \cup {Null}
      BY <2>1, <2>2, <2>3 DEF Flushed, Row
    <3>3. QED  BY <2>3, <3>1, <3>2 DEF Row
  <2>5. bookings' = [bookings EXCEPT ![h.booking] = row]
    BY <1>2, <2>1, <2>3 DEF FlushCheckOut, Row, Typed, RowsTyped
  <2>6. history' \in [BookingId -> Seq(HistoryRow)]
    BY <1>2, <2>1, HistoryTyped DEF FlushCheckOut, Statuses
  <2>7. RowsTyped' /\ DOMAIN bookings' = DOMAIN bookings
    <3> HIDE DEF row
    <3> QED
      BY <1>2, <2>1, <2>3, <2>4, <2>5, <2>6 DEF FlushCheckOut, Typed, RowsTyped
  <2>8. HandlersTyped'
    BY <1>2, <2>7, IdleFits DEF FlushCheckOut, Typed
  <2>9. QED  BY <2>7, <2>8 DEF Typed
<1>3. QED  BY <1>1, <1>2

LEMMA SweepTyped ==
  ASSUME Typed, ExpireStale
  PROVE  Typed' /\ DOMAIN bookings' = DOMAIN bookings
<1>1. \A b \in DOMAIN bookings : [bookings[b] EXCEPT !.status = "no_show"] \in Row
  BY DEF Typed, RowsTyped, Row, Statuses
<1>2. /\ bookings' \in [DOMAIN bookings -> Row]
      /\ \A b \in DOMAIN bookings : bookings'[b].checkedInAt = bookings[b].checkedInAt
  BY <1>1 DEF ExpireStale, Typed, RowsTyped, Row
<1>3. UNCHANGED <<history, sessions, now>>
  BY DEF ExpireStale
<1>4. QED
  BY <1>2, <1>3 DEF Typed, RowsTyped, HandlersTyped, HandlerFits

LEMMA RefusalTyped ==
  ASSUME Typed, NEW s \in Session,
         RefuseInsert(s) \/ FailDecision(s) \/ FinishRequest(s)
  PROVE  Typed'
<1>1. Become(s, Idle) /\ UNCHANGED <<bookings, history, now>>
  BY DEF RefuseInsert, FailDecision, FinishRequest
<1>2. RowsTyped'
  BY <1>1 DEF Typed, RowsTyped
<1>3. QED  BY <1>1, <1>2, IdleFits DEF Typed

LEMMA ClockTyped ==
  ASSUME Typed, Tick \/ Restart \/ UNCHANGED vars
  PROVE  Typed'
<1>1. CASE Tick
  BY <1>1 DEF Tick, Typed, RowsTyped, HandlersTyped, HandlerFits, Row
<1>2. CASE Restart
  BY <1>2 DEF Restart, Typed, RowsTyped, HandlersTyped, HandlerFits, Handler, Idle
<1>3. CASE UNCHANGED vars
  BY <1>3 DEF vars, Typed, RowsTyped, HandlersTyped, HandlerFits
<1>4. QED  BY <1>1, <1>2, <1>3

LEMMA NextTyped == Typed /\ [Next]_vars => Typed'
<1> SUFFICES ASSUME Typed, [Next]_vars  PROVE Typed'
  OBVIOUS
<1>1. ASSUME NEW s \in Session, Create(s)  PROVE Typed'
  BY <1>1, BeginTyped, InsertTyped, RefusalTyped DEF Create, Begins
<1>2. ASSUME NEW s \in Session, Cancel(s)  PROVE Typed'
  BY <1>2, BeginTyped, WriteTyped DEF Cancel, Begins
<1>3. ASSUME NEW s \in Session, Decide(s)  PROVE Typed'
  BY <1>3, BeginTyped, WriteTyped, RefusalTyped DEF Decide, Begins
<1>4. ASSUME NEW s \in Session, CheckOut(s)  PROVE Typed'
  BY <1>4, BeginTyped, CheckOutTyped DEF CheckOut, Begins
<1>5. QED
  BY <1>1, <1>2, <1>3, <1>4, CheckInTyped, SweepTyped, RefusalTyped, ClockTyped DEF Next, DeskStep

\* Type correctness of the booking desk, TimesOrdered included.
THEOREM TypeCorrect == Spec => []TypeOK /\ []TimesOrdered
<1>1. Spec => []Typed
  BY InitTyped, NextTyped, PTL DEF Spec
<1>2. Typed => TypeOK /\ TimesOrdered
  BY TypedIsTypeOK
<1>3. QED  BY <1>1, <1>2, PTL
-----------------------------------------------------------------------------
(* Who holds what.  A step either only gives up tables and days, or one       *)
(* booking claims what it was asked for and the constraints let it.           *)

NoClash ==
    \A b, c \in DOMAIN bookings :
        b # c /\ Active(b) /\ Active(c) => ~Clash(bookings[b].ask, bookings[c].ask)

OnlyReleases ==
    /\ DOMAIN bookings' = DOMAIN bookings
    /\ \A b \in DOMAIN bookings : /\ bookings'[b].ask = bookings[b].ask
                                  /\ Active(b)' => Active(b)

Claims(b, q) ==
    /\ ConstraintsAllow(b, q)
    /\ DOMAIN bookings' = DOMAIN bookings \cup {b}
    /\ \A c \in DOMAIN bookings \ {b} : bookings'[c] = bookings[c]
    /\ bookings'[b].ask = q
    /\ b \in DOMAIN bookings => bookings[b].ask = q

LEMMA ClashSymmetric ==
  ASSUME NEW p, NEW q  PROVE Clash(p, q) <=> Clash(q, p)
  BY DEF Clash, RangesMeet

LEMMA UnchangedReleases ==
  ASSUME UNCHANGED bookings  PROVE OnlyReleases
  BY DEF OnlyReleases, Active

LEMMA StatusReleases ==
  ASSUME Typed, NEW b \in DOMAIN bookings, NEW STATE status,
         SetStatus(b, status), status \in ACTIVE_BOOKING_STATUSES => Active(b)
  PROVE  OnlyReleases
<1>1. bookings[b] \in Row
  BY DEF Typed, RowsTyped
<1>2. /\ DOMAIN bookings' = DOMAIN bookings
      /\ bookings'[b] = [bookings[b] EXCEPT !.status = status]
      /\ \A c \in DOMAIN bookings : c # b => bookings'[c] = bookings[c]
  BY DEF SetStatus, Typed, RowsTyped
<1>3. bookings'[b].status = status /\ bookings'[b].ask = bookings[b].ask
  BY <1>1, <1>2 DEF Row
<1>4. QED  BY <1>2, <1>3 DEF OnlyReleases, Active

LEMMA InsertClaims ==
  ASSUME NEW s \in Session, NEW b \in BookingId, InsertBooking(s, b)
  PROVE  Claims(b, sessions[s].ask)
  BY DEF InsertBooking, Claims, NewRow

LEMMA DecisionClaims ==
  ASSUME Typed, NEW s \in Session, WriteDecision(s)
  PROVE  \/ OnlyReleases
         \/ Claims(sessions[s].booking, bookings[sessions[s].booking].ask)
<1> DEFINE b == sessions[s].booking
<1>1. b \in DOMAIN bookings /\ sessions[s].verdict \in {"confirmed", "cancelled"}
  BY HandlerFields DEF WriteDecision
<1>2. CASE sessions[s].verdict = "cancelled"
  <2>1. SetStatus(b, "cancelled")
    BY <1>2 DEF WriteDecision
  <2>2. QED  BY <1>1, <2>1, StatusReleases DEF ACTIVE_BOOKING_STATUSES
<1>3. CASE sessions[s].verdict = "confirmed"
  <2>1. ConstraintsAllow(b, bookings[b].ask) /\ SetStatus(b, "confirmed")
    BY <1>3 DEF WriteDecision, DecisionStorable, ACTIVE_BOOKING_STATUSES
  <2>2. bookings[b] \in Row
    BY <1>1 DEF Typed, RowsTyped
  <2>3. QED
    BY <1>1, <2>1, <2>2 DEF Claims, SetStatus, Typed, RowsTyped, Row
<1>4. QED  BY <1>1, <1>2, <1>3

LEMMA CheckInReleases ==
  ASSUME Typed, NEW u \in User, NEW b \in BookingId, CheckInByQr(u, b)
  PROVE  OnlyReleases
<1>1. bookings[b] \in Row /\ b \in DOMAIN bookings
  BY DEF Typed, RowsTyped, CheckInByQr
<1>2. Active(b)
  BY DEF CheckInByQr, Active, ACTIVE_BOOKING_STATUSES
<1>3. /\ DOMAIN bookings' = DOMAIN bookings
      /\ bookings'[b].ask = bookings[b].ask
      /\ \A c \in DOMAIN bookings : c # b => bookings'[c] = bookings[c]
  BY <1>1 DEF CheckInByQr, Typed, RowsTyped, Row
<1>4. QED  BY <1>1, <1>2, <1>3 DEF OnlyReleases, Active

LEMMA FlushReleases ==
  ASSUME Typed, NEW s \in Session, FlushCheckOut(s)
  PROVE  OnlyReleases
<1> DEFINE b == sessions[s].booking
<1>1. b \in DOMAIN bookings /\ bookings[b] \in Row
  BY HandlerFields DEF FlushCheckOut, Typed, RowsTyped
<1>2. /\ DOMAIN bookings' = DOMAIN bookings
      /\ bookings'[b].ask = bookings[b].ask
      /\ bookings'[b].status \in {"completed", bookings[b].status}
      /\ \A c \in DOMAIN bookings : c # b => bookings'[c] = bookings[c]
  BY <1>1 DEF FlushCheckOut, Flushed, Typed, RowsTyped, Row
<1>3. QED  BY <1>1, <1>2 DEF OnlyReleases, Active, ACTIVE_BOOKING_STATUSES

LEMMA SweepReleases ==
  ASSUME Typed, ExpireStale
  PROVE  OnlyReleases
<1>1. \A b \in DOMAIN bookings : bookings[b] \in Row
  BY DEF Typed, RowsTyped
<1>2. \A b \in DOMAIN bookings :
        \/ bookings'[b] = bookings[b]
        \/ bookings'[b] = [bookings[b] EXCEPT !.status = "no_show"]
  BY DEF ExpireStale
<1>3. \A b \in DOMAIN bookings :
        LET row == [bookings[b] EXCEPT !.status = "no_show"] IN
        row.ask = bookings[b].ask /\ row.status = "no_show"
  BY <1>1 DEF Row
<1>4. DOMAIN bookings' = DOMAIN bookings
  BY DEF ExpireStale
<1>5. QED
  BY <1>2, <1>3, <1>4 DEF OnlyReleases, Active, ACTIVE_BOOKING_STATUSES

LEMMA NextClaims ==
  ASSUME Typed, [Next]_vars
  PROVE  OnlyReleases \/ \E b \in BookingId, q \in Request : Claims(b, q)
<1>1. ASSUME NEW s \in Session, Begins(s) \/ RefuseInsert(s) \/ FailDecision(s)
                                \/ SelectSeated(s) \/ FinishRequest(s)
      PROVE  OnlyReleases
  BY <1>1, UnchangedReleases
  DEF Begins, BeginTableReservation, BeginHallEvent, BeginCancel, BeginDecision,
      BeginCheckOut, RefuseInsert, FailDecision, SelectSeated, FinishRequest
<1>2. ASSUME NEW s \in Session, WriteCancel(s)  PROVE OnlyReleases
  BY <1>2, HandlerFields, StatusReleases DEF WriteCancel, ACTIVE_BOOKING_STATUSES
<1>3. ASSUME NEW s \in Session, WriteDecision(s)
      PROVE  OnlyReleases \/ \E b \in BookingId, q \in Request : Claims(b, q)
  BY <1>3, HandlerFields, DecisionClaims DEF WriteDecision, Typed, RowsTyped, Row
<1>4. ASSUME NEW s \in Session, NEW b \in BookingId, InsertBooking(s, b)
      PROVE  \E c \in BookingId, q \in Request : Claims(c, q)
  BY <1>4, HandlerFields, InsertClaims DEF InsertBooking
<1>5. CASE Tick \/ Restart \/ UNCHANGED vars
  BY <1>5, UnchangedReleases DEF Tick, Restart, vars
<1>6. QED
  BY <1>1, <1>2, <1>3, <1>4, <1>5, CheckInReleases, FlushReleases, SweepReleases
  DEF Next, DeskStep, Create, Cancel, Decide, CheckOut, Begins

LEMMA NextNoClash == Typed /\ NoClash /\ [Next]_vars => NoClash'
<1> SUFFICES ASSUME Typed, NoClash, [Next]_vars  PROVE NoClash'
  OBVIOUS
<1>1. CASE OnlyReleases
  BY <1>1 DEF OnlyReleases, NoClash
<1>2. ASSUME NEW b \in BookingId, NEW q \in Request, Claims(b, q)
      PROVE  NoClash'
  <2>1. \A c \in DOMAIN bookings \ {b} : Active(c)' => ~Clash(bookings'[c].ask, bookings'[b].ask)
    BY <1>2 DEF Claims, ConstraintsAllow, Active
  <2>2. \A c, d \in DOMAIN bookings \ {b} :
           c # d /\ Active(c)' /\ Active(d)' => ~Clash(bookings'[c].ask, bookings'[d].ask)
    BY <1>2 DEF Claims, NoClash, Active
  <2>3. QED
    BY <1>2, <2>1, <2>2, ClashSymmetric DEF Claims, NoClash
<1>3. QED  BY <1>1, <1>2, NextClaims

LEMMA NoClashMeans == Typed /\ NoClash => NoDoubleBooking /\ OneHallEventPerDay
<1> SUFFICES ASSUME Typed, NoClash, NEW b \in DOMAIN bookings, NEW c \in DOMAIN bookings, b # c
             PROVE  LET p == bookings[b].ask
                        q == bookings[c].ask IN
                    /\ p.table = q.table /\ Holding(b, "table_reservation")
                       /\ Holding(c, "table_reservation")
                       => EndsAt(p) <= StartsAt(q) \/ EndsAt(q) <= StartsAt(p)
                    /\ Holding(b, "hall_event") /\ Holding(c, "hall_event")
                       /\ p.venue = q.venue => p.day # q.day
  BY DEF NoDoubleBooking, OneHallEventPerDay
<1> DEFINE p == bookings[b].ask
           q == bookings[c].ask
<1>1. p \in Request /\ q \in Request
  BY DEF Typed, RowsTyped, Row
<1>2. /\ StartsAt(p) \in Int /\ EndsAt(p) \in Int
      /\ StartsAt(q) \in Int /\ EndsAt(q) \in Int
  BY <1>1, RequestAssumption, ClockAssumption DEF RequestShape, StartsAt, EndsAt
<1>3. \A k \in {"table_reservation", "hall_event"} :
         Holding(b, k) /\ Holding(c, k) => ~Clash(p, q)
  BY DEF NoClash, Holding, Active, ACTIVE_BOOKING_STATUSES
<1>4. p.kind = "table_reservation" => p.table # Null
  BY <1>1, RequestAssumption, NullAssumption
<1>5. QED
  BY <1>2, <1>3, <1>4 DEF Clash, RangesMeet, Holding

\* However the requests interleave, no table is promised twice for one moment
\* and no hall twice for one day.
THEOREM NeverDoubleBooked == Spec => []NoDoubleBooking /\ []OneHallEventPerDay
<1>1. Init => NoClash
  BY DEF Init, NoClash
<1>2. Typed /\ NoClash /\ [Next]_vars => (Typed /\ NoClash)'
  BY NextTyped, NextNoClash
<1>3. Spec => [](Typed /\ NoClash)
  BY <1>1, <1>2, InitTyped, PTL DEF Spec
<1>4. QED  BY <1>3, NoClashMeans, PTL

\* In particular a branch hosts one hall event a day (the unique index
\* one_hall_event_per_day), whatever requests for it overlap.
THEOREM HallsHostOneEvent == Spec => []OneHallEventPerDay
  BY NeverDoubleBooked, PTL
-----------------------------------------------------------------------------
(* Refinement of the reservation ledger. *)

LEMMA DisjointCells ==
  ASSUME NEW p \in Request, NEW q \in Request, ~Clash(p, q)
  PROVE  Cells(p) \cap Cells(q) = {}
<1>1. /\ StartsAt(p) \in Int /\ EndsAt(p) \in Int
      /\ StartsAt(q) \in Int /\ EndsAt(q) \in Int
  BY RequestAssumption, ClockAssumption DEF RequestShape, StartsAt, EndsAt
<1>2. p.kind \in {"table_reservation", "hall_event"} /\ q.kind \in {"table_reservation", "hall_event"}
  BY RequestAssumption DEF RequestShape
<1>3. CASE p.kind = "hall_event" /\ q.kind = "hall_event"
  BY <1>3 DEF Clash, Cells
<1>4. CASE p.kind # q.kind
  BY <1>2, <1>4 DEF Cells
<1>5. CASE p.kind = "table_reservation" /\ q.kind = "table_reservation"
  <2>1. p.table # Null
    BY <1>5, RequestAssumption, NullAssumption
  <2>2. p.table = q.table => EndsAt(p) <= StartsAt(q) \/ EndsAt(q) <= StartsAt(p)
    BY <1>1, <2>1 DEF Clash, RangesMeet
  <2>3. QED
    BY <1>1, <1>5, <2>2 DEF Cells
<1>6. QED  BY <1>2, <1>3, <1>4, <1>5

Cell == ({"table"} \X Table \X Nat) \cup ({"hall"} \X Venue \X Nat)

LEMMA CellsAreCells ==
  ASSUME NEW q \in Request
  PROVE  Cells(q) \subseteq Cell
<1>1. q.day \in Nat /\ q.start \in Nat /\ q.venue \in Venue
  BY RequestAssumption DEF RequestShape
<1>2. StartsAt(q) \in Nat /\ EndsAt(q) \in Nat
  BY <1>1, RequestAssumption, ClockAssumption DEF RequestShape, StartsAt, EndsAt
<1>3. q.kind # "hall_event" => q.table \in Table
  BY RequestAssumption DEF RequestShape
<1>4. QED
  BY <1>1, <1>2, <1>3 DEF Cells, Cell

HeldNow == [b \in BookingId |-> HeldCells(b)]

LEMMA ReleaseIsLedgerStep ==
  ASSUME Typed, OnlyReleases  PROVE Ledger!Release
<1>1. \A b \in BookingId : HeldCells(b)' = {} \/ HeldCells(b)' = HeldCells(b)
  BY DEF OnlyReleases, HeldCells
<1>2. QED  BY <1>1 DEF Ledger!Release

LEMMA ClaimIsLedgerStep ==
  ASSUME Typed, Typed', NoClash, NEW b \in BookingId, NEW q \in Request, Claims(b, q)
  PROVE  Ledger!Take(b) \/ Ledger!Release
<1>1. \A c \in BookingId \ {b} : HeldCells(c)' = HeldCells(c)
  BY DEF Claims, HeldCells, Active
<1>2. CASE HeldCells(b)' = {} \/ HeldCells(b)' = HeldCells(b)
  BY <1>1, <1>2 DEF Ledger!Release
<1>3. CASE HeldCells(b)' # {} /\ HeldCells(b)' # HeldCells(b)
  <2>1. HeldCells(b)' = Cells(q) /\ HeldCells(b) = {}
    BY <1>3 DEF HeldCells, Claims
  <2>2. \A c \in BookingId \ {b} : HeldCells(c) \cap Cells(q) = {}
    <3> SUFFICES ASSUME NEW c \in DOMAIN bookings, c # b, Active(c)
                 PROVE  Cells(bookings[c].ask) \cap Cells(q) = {}
      BY DEF HeldCells
    <3>1. bookings[c].ask \in Request
      BY DEF Typed, RowsTyped, Row
    <3>2. ~Clash(bookings[c].ask, q)
      BY DEF Claims, ConstraintsAllow
    <3>3. QED  BY <3>1, <3>2, DisjointCells
  <2>3. Cells(q) \in SUBSET Cell
    BY CellsAreCells
  <2>4. HeldNow' = [HeldNow EXCEPT ![b] = Cells(q)]
    BY <1>1, <2>1 DEF HeldNow
  <2>5. QED
    BY <1>1, <2>1, <2>2, <2>3, <2>4 DEF Ledger!Take, HeldNow, Cell
<1>4. QED  BY <1>2, <1>3

\* The booking desk implements the reservation ledger: a step takes free cells
\* for one booking, or gives cells up.
THEOREM RefinesLedger == Spec => ImplementsLedger
<1>1. Init => Ledger!LedgerInit
  BY DEF Init, Ledger!LedgerInit, HeldCells
<1>2. Typed /\ Typed' /\ NoClash /\ [Next]_vars => [Ledger!LedgerNext]_HeldNow
  <2> SUFFICES ASSUME Typed, Typed', NoClash, [Next]_vars  PROVE Ledger!LedgerNext
    OBVIOUS
  <2>1. QED
    BY NextClaims, ReleaseIsLedgerStep, ClaimIsLedgerStep DEF Ledger!LedgerNext
<1>3. Typed /\ NoClash /\ [Next]_vars => (Typed /\ NoClash)'
  BY NextTyped, NextNoClash
<1>4. Init => Typed /\ NoClash
  BY InitTyped DEF Init, NoClash
<1>5. QED
  BY <1>1, <1>2, <1>3, <1>4, PTL DEF Spec, ImplementsLedger, Ledger!LedgerSpec, HeldNow
-----------------------------------------------------------------------------
(* The status history.  The inductive invariant adds what the requests in     *)
(* flight rely on: one about to flush a check-out has seen the guest seated,  *)
(* and whoever acts was entitled to when the request started.                 *)

WasSeated(b) == \E i \in DOMAIN history[b] : history[b][i].to = "checked_in"

\* A confirmation no scan has used is the last word on letting the guest in.
FreshlyConfirmed(b) ==
    \E k \in DOMAIN history[b] :
        /\ history[b][k].to = "confirmed"
        /\ \A j \in k .. Len(history[b]) : history[b][j].to # "checked_in"

\* The visit was completed and the guest let in again since.
LetInAgain(b) ==
    \E i, j \in DOMAIN history[b] :
        i < j /\ history[b][i].to = "completed" /\ history[b][j].to = "checked_in"

\* The visit was completed; a guest who is seated was let in again since.
OnceCompleted(b) ==
    \E i \in DOMAIN history[b] :
        /\ history[b][i].to = "completed"
        /\ bookings[b].status = "checked_in" =>
              \E j \in DOMAIN history[b] : i < j /\ history[b][j].to = "checked_in"

OwnPerson(b, u) == u = bookings[b].ask.user \/ StaffWorksAt(u, bookings[b].ask.venue)

HistoryKept ==
    /\ \A b \in BookingId \ DOMAIN bookings : history[b] = <<>>
    /\ HistoryMatchesStatus
    /\ ScanFollowsConfirmation
    /\ \A b \in DOMAIN bookings : bookings[b].status = "confirmed" => FreshlyConfirmed(b)
    /\ CompletedWasSeated
    /\ \A b \in DOMAIN bookings : \A i \in DOMAIN history[b] : OwnPerson(b, history[b][i].by)

HandlerEntitled(h) ==
    /\ h.op = "check_out" /\ h.seen.status = "completed" => OnceCompleted(h.booking)
    /\ h.op = "flush" => WasSeated(h.booking)
    /\ h.op = "flush" /\ h.seen.status = "completed" => LetInAgain(h.booking)
    /\ h.op \in {"cancel", "decide", "check_out", "flush"} => OwnPerson(h.booking, h.by)

HandlersEntitled == \A s \in Session : HandlerEntitled(sessions[s])

HistInv == HistoryKept /\ HandlersEntitled

LEMMA Recorded ==
  ASSUME Typed, NEW b \in BookingId, NEW STATE from, NEW STATE to, NEW STATE by,
         RecordStatusChange(b, from, to, by)
  PROVE  /\ Len(history[b]) \in Nat
         /\ DOMAIN history[b] = 1 .. Len(history[b])
         /\ DOMAIN history'[b] = 1 .. Len(history[b]) + 1
         /\ Len(history'[b]) = Len(history[b]) + 1
         /\ history'[b][Len(history[b]) + 1] = [from |-> from, to |-> to, by |-> by]
         /\ \A i \in 1 .. Len(history[b]) : history'[b][i] = history[b][i]
         /\ \A c \in BookingId \ {b} : history'[c] = history[c]
<1>1. history[b] \in Seq(HistoryRow)
  BY DEF Typed, RowsTyped
<1>2. history'[b] = Append(history[b], [from |-> from, to |-> to, by |-> by])
  BY DEF RecordStatusChange, Typed, RowsTyped
<1>3. \A c \in BookingId \ {b} : history'[c] = history[c]
  BY DEF RecordStatusChange, Typed, RowsTyped
<1>4. QED  BY <1>1, <1>2, <1>3

\* A step that records a change of one booking keeps the history true, if the
\* booking takes the status recorded, or is one that was let in again and ends
\* without a change; if a scan starts from confirmed and a completion from a
\* guest who was seated.
LEMMA RecordKeeps ==
  ASSUME Typed, HistoryKept, NEW b \in BookingId,
         NEW STATE from, NEW STATE to, NEW STATE by,
         RecordStatusChange(b, from, to, by),
         DOMAIN bookings' = DOMAIN bookings \cup {b},
         \/ bookings'[b].status = to
         \/ /\ to = "completed" /\ LetInAgain(b) /\ b \in DOMAIN bookings
            /\ bookings'[b].status = bookings[b].status,
         b \in DOMAIN bookings => bookings'[b].ask = bookings[b].ask,
         \A c \in DOMAIN bookings \ {b} : bookings'[c] = bookings[c],
         to = "checked_in" => b \in DOMAIN bookings /\ bookings[b].status = "confirmed",
         to = "completed" => WasSeated(b),
         by = bookings'[b].ask.user \/ StaffWorksAt(by, bookings'[b].ask.venue)
  PROVE  HistoryKept'
<1> DEFINE n == Len(history[b])
<1>1. /\ n \in Nat /\ DOMAIN history[b] = 1 .. n /\ DOMAIN history'[b] = 1 .. n + 1
      /\ Len(history'[b]) = n + 1
      /\ history'[b][n + 1] = [from |-> from, to |-> to, by |-> by]
      /\ \A i \in 1 .. n : history'[b][i] = history[b][i]
      /\ \A c \in BookingId \ {b} : history'[c] = history[c]
  BY Recorded
<1>2. \A c \in BookingId \ DOMAIN bookings' : history'[c] = <<>>
  BY <1>1 DEF HistoryKept
<1> HIDE DEF n
<1>3. HistoryMatchesStatus'
  <2>1. LastTo(b)' = to /\ history'[b] # <<>>
    BY <1>1 DEF LastTo
  <2>2. \A c \in DOMAIN bookings \ {b} :
            /\ history'[c] = history[c]
            /\ LastTo(c)' = LastTo(c) /\ (ClosedAgain(c) => ClosedAgain(c)')
    BY <1>1 DEF LastTo, ClosedAgain, Typed, RowsTyped
  <2>3. ASSUME LetInAgain(b)  PROVE ClosedAgain(b)'
    <3>1. PICK i \in 1 .. n, j \in 1 .. n :
              i < j /\ history[b][i].to = "completed" /\ history[b][j].to = "checked_in"
      BY <1>1, <2>3 DEF LetInAgain
    <3>2. i \in 1 .. n + 1 /\ j \in 1 .. n + 1 /\ j < n + 1
      BY <1>1, <3>1
    <3>3. QED  BY <1>1, <3>1, <3>2 DEF ClosedAgain
  <2>4. ASSUME NEW c \in DOMAIN bookings \ {b}
        PROVE  /\ history'[c] # <<>>
               /\ \/ LastTo(c)' = bookings'[c].status
                  \/ LastTo(c)' = "confirmed" /\ bookings'[c].status = "no_show"
                  \/ LastTo(c)' = "completed" /\ ClosedAgain(c)'
    BY <2>2 DEF HistoryKept, HistoryMatchesStatus
  <2>5. QED
    BY <2>1, <2>3, <2>4 DEF HistoryMatchesStatus
<1>4. ScanFollowsConfirmation'
  <2>1. ASSUME NEW i \in 1 .. n + 1, history'[b][i].to = "checked_in"
        PROVE  \E k \in 1 .. i - 1 :
                   /\ history'[b][k].to = "confirmed"
                   /\ \A j \in k .. i - 1 : history'[b][j].to # "checked_in"
    <3>1. PICK k \in 1 .. i - 1 :
                   /\ history[b][k].to = "confirmed"
                   /\ \A j \in k .. i - 1 : history[b][j].to # "checked_in"
      <4>1. CASE i = n + 1
        <5>1. FreshlyConfirmed(b)
          BY <1>1, <2>1, <4>1 DEF HistoryKept
        <5>2. n + 1 - 1 = n
          BY <1>1
        <5>3. QED  BY <1>1, <4>1, <5>1, <5>2 DEF FreshlyConfirmed, n
      <4>2. CASE i \in 1 .. n
        BY <1>1, <2>1, <4>2 DEF HistoryKept, ScanFollowsConfirmation
      <4>3. QED  BY <1>1, <2>1, <4>1, <4>2
    <3>2. k \in 1 .. n /\ \A j \in k .. i - 1 : j \in 1 .. n
      BY <1>1, <2>1, <3>1
    <3>3. QED  BY <1>1, <3>1, <3>2
  <2>2. ASSUME NEW c \in BookingId \ {b}, NEW i \in DOMAIN history'[c],
               history'[c][i].to = "checked_in"
        PROVE  \E k \in 1 .. i - 1 :
                   /\ history'[c][k].to = "confirmed"
                   /\ \A j \in k .. i - 1 : history'[c][j].to # "checked_in"
    <3>1. history'[c] = history[c]
      BY <1>1
    <3>2. QED  BY <2>2, <3>1 DEF HistoryKept, ScanFollowsConfirmation
  <2>3. QED
    BY <1>1, <2>1, <2>2 DEF ScanFollowsConfirmation
<1>8. ASSUME NEW c \in DOMAIN bookings', bookings'[c].status = "confirmed"
      PROVE  FreshlyConfirmed(c)'
  <2>1. CASE c # b
    <3>1. c \in DOMAIN bookings /\ bookings'[c] = bookings[c] /\ history'[c] = history[c]
      BY <1>1, <2>1 DEF Typed, RowsTyped
    <3>2. FreshlyConfirmed(c)
      BY <1>8, <3>1 DEF HistoryKept
    <3>3. QED  BY <3>1, <3>2 DEF FreshlyConfirmed
  <2>2. CASE c = b /\ to = "confirmed"
    <3>1. n + 1 \in 1 .. n + 1 /\ \A j \in n + 1 .. n + 1 : j = n + 1
      BY <1>1
    <3>2. QED  BY <1>1, <2>2, <3>1 DEF FreshlyConfirmed
  <2>3. CASE c = b /\ to = "completed" /\ b \in DOMAIN bookings
             /\ bookings[b].status = "confirmed"
    <3>1. PICK k \in 1 .. n : /\ history[b][k].to = "confirmed"
                             /\ \A j \in k .. n : history[b][j].to # "checked_in"
      BY <1>1, <2>3 DEF HistoryKept, FreshlyConfirmed, n
    <3>2. k \in 1 .. n + 1 /\ \A j \in k .. n + 1 : (j \in k .. n /\ j \in 1 .. n) \/ j = n + 1
      BY <1>1, <3>1
    <3>3. QED  BY <1>1, <2>3, <3>1, <3>2 DEF FreshlyConfirmed
  <2>4. QED  BY <1>8, <2>1, <2>2, <2>3
<1>5. CompletedWasSeated'
  <2>1. ASSUME WasSeated(b)
        PROVE  \E i \in DOMAIN history'[b] : history'[b][i].to = "checked_in"
    <3>1. PICK i \in 1 .. n : history[b][i].to = "checked_in"
      BY <1>1, <2>1 DEF WasSeated
    <3>2. i \in 1 .. n + 1
      BY <1>1
    <3>3. QED  BY <1>1, <3>1, <3>2
  <2>2. \A c \in DOMAIN bookings \ {b} : history'[c] = history[c]
    BY <1>1 DEF Typed, RowsTyped
  <2>3. QED
    BY <2>1, <2>2 DEF HistoryKept, CompletedWasSeated
<1>6. ASSUME NEW c \in DOMAIN bookings', NEW i \in DOMAIN history'[c]
      PROVE  OwnPerson(c, history[c][i].by)'
  <2>1. CASE c = b
    <3>1. CASE i = n + 1
      BY <1>1, <2>1, <3>1 DEF OwnPerson
    <3>2. CASE i \in 1 .. n
      <4>1. b \in DOMAIN bookings
        BY <1>1, <3>2 DEF HistoryKept
      <4>2. OwnPerson(b, history[b][i].by)
        BY <1>1, <3>2, <4>1 DEF HistoryKept
      <4>3. QED
        BY <1>1, <2>1, <3>2, <4>1, <4>2 DEF OwnPerson, StaffWorksAt
    <3>3. QED  BY <1>1, <1>6, <2>1, <3>1, <3>2
  <2>2. CASE c # b
    <3>1. c \in DOMAIN bookings /\ c \in BookingId /\ history'[c] = history[c]
      BY <1>1, <2>2 DEF Typed, RowsTyped
    <3>2. OwnPerson(c, history[c][i].by)
      BY <1>6, <3>1 DEF HistoryKept
    <3>3. QED  BY <2>2, <3>1, <3>2 DEF OwnPerson, StaffWorksAt
  <2>3. QED  BY <2>1, <2>2
<1>7. QED  BY <1>2, <1>3, <1>4, <1>5, <1>6, <1>8 DEF HistoryKept

\* What every step leaves alone: who asked for a stored booking, and what its
\* history shows of visits that began and ended.
AsksStay ==
    \A b \in DOMAIN bookings :
        /\ b \in DOMAIN bookings'
        /\ bookings'[b].ask = bookings[b].ask
        /\ WasSeated(b) => WasSeated(b)'
        /\ LetInAgain(b) => LetInAgain(b)'
        /\ OnceCompleted(b) => OnceCompleted(b)'

LEMMA MoveEntitled ==
  ASSUME Typed, HandlersEntitled, NEW s \in Session, AsksStay,
         sessions' = [sessions EXCEPT ![s] = sessions'[s]],
         HandlerEntitled(sessions[s])'
  PROVE  HandlersEntitled'
<1> SUFFICES ASSUME NEW r \in Session, r # s  PROVE HandlerEntitled(sessions[r])'
  BY DEF HandlersEntitled
<1>1. sessions'[r] = sessions[r]
  BY DEF Typed, HandlersTyped
<1>2. sessions[r].op \in {"cancel", "decide", "check_out", "flush"} =>
          sessions[r].booking \in DOMAIN bookings
  BY HandlerFields
<1>3. HandlerEntitled(sessions[r])
  BY DEF HandlersEntitled
<1>4. QED
  BY <1>1, <1>2, <1>3 DEF HandlerEntitled, OwnPerson, AsksStay

LEMMA QuietKeeps ==
  ASSUME HistoryKept, UNCHANGED <<bookings, history>>
  PROVE  HistoryKept' /\ AsksStay
<1>1. HistoryMatchesStatus' /\ ScanFollowsConfirmation' /\ CompletedWasSeated'
  BY DEF HistoryKept, HistoryMatchesStatus, LastTo, ClosedAgain, ScanFollowsConfirmation,
         CompletedWasSeated
<1>2. AsksStay
  BY DEF AsksStay, WasSeated, LetInAgain, OnceCompleted
<1>3. QED  BY <1>1, <1>2 DEF HistoryKept, OwnPerson, FreshlyConfirmed

LEMMA RecordedStays ==
  ASSUME Typed, NEW b \in BookingId, NEW STATE from, NEW STATE to, NEW STATE by,
         RecordStatusChange(b, from, to, by),
         DOMAIN bookings \subseteq DOMAIN bookings',
         \A c \in DOMAIN bookings :
            /\ bookings'[c].ask = bookings[c].ask
            /\ bookings'[c].status = "checked_in" =>
                  bookings[c].status = "checked_in" \/ (c = b /\ to = "checked_in")
  PROVE  AsksStay
<1> SUFFICES ASSUME NEW c \in DOMAIN bookings
             PROVE  /\ WasSeated(c) => WasSeated(c)'
                    /\ LetInAgain(c) => LetInAgain(c)'
                    /\ OnceCompleted(c) => OnceCompleted(c)'
  BY DEF AsksStay
<1> DEFINE n == Len(history[b])
<1>1. /\ n \in Nat /\ DOMAIN history[b] = 1 .. n /\ DOMAIN history'[b] = 1 .. n + 1
      /\ history'[b][n + 1] = [from |-> from, to |-> to, by |-> by]
      /\ \A i \in 1 .. n : history'[b][i] = history[b][i]
      /\ \A d \in BookingId \ {b} : history'[d] = history[d]
      /\ c \in BookingId
  BY Recorded DEF Typed, RowsTyped
<1> HIDE DEF n
<1>2. \A i \in 1 .. n : i \in 1 .. n + 1 /\ i < n + 1
  BY <1>1
<1>3. \A i \in DOMAIN history[c] : i \in DOMAIN history'[c] /\ history'[c][i] = history[c][i]
  <2>1. CASE c = b
    BY <1>1, <1>2, <2>1
  <2>2. CASE c # b
    BY <1>1, <2>2
  <2>3. QED  BY <2>1, <2>2
<1>4. WasSeated(c) => WasSeated(c)'
  BY <1>3 DEF WasSeated
<1>5. LetInAgain(c) => LetInAgain(c)'
  BY <1>3 DEF LetInAgain
<1>6. ASSUME OnceCompleted(c)  PROVE OnceCompleted(c)'
  <2>1. PICK i \in DOMAIN history[c] :
          /\ history[c][i].to = "completed"
          /\ bookings[c].status = "checked_in" =>
                \E j \in DOMAIN history[c] : i < j /\ history[c][j].to = "checked_in"
    BY <1>6 DEF OnceCompleted
  <2>2. ASSUME bookings'[c].status = "checked_in"
        PROVE  \E j \in DOMAIN history'[c] : i < j /\ history'[c][j].to = "checked_in"
    <3>1. CASE bookings[c].status = "checked_in"
      BY <1>3, <2>1, <3>1
    <3>2. CASE c = b /\ to = "checked_in"
      <4>1. n + 1 \in 1 .. n + 1 /\ i < n + 1
        BY <1>1, <1>2, <2>1, <3>2
      <4>2. QED  BY <1>1, <3>2, <4>1
    <3>3. QED  BY <2>2, <3>1, <3>2
  <2>3. QED  BY <1>3, <2>1, <2>2 DEF OnceCompleted
<1>7. QED  BY <1>4, <1>5, <1>6

LEMMA CompletedOnce ==
  ASSUME Typed, HistoryKept, NEW b \in DOMAIN bookings, bookings[b].status = "completed"
  PROVE  OnceCompleted(b)
<1>1. history[b] # <<>> /\ LastTo(b) = "completed"
  BY DEF HistoryKept, HistoryMatchesStatus
<1>2. history[b] \in Seq(HistoryRow)
  BY DEF Typed, RowsTyped
<1>3. Len(history[b]) \in DOMAIN history[b]
  BY <1>1, <1>2
<1>4. QED  BY <1>1, <1>3 DEF OnceCompleted, LastTo

LEMMA BeginHistory ==
  ASSUME Typed, HistInv, NEW s \in Session, Begins(s)
  PROVE  HistInv'
<1>0. UNCHANGED <<bookings, history, now>>
  BY DEF Begins, BeginTableReservation, BeginHallEvent, BeginCancel, BeginDecision,
         BeginCheckOut
<1>1. HistoryKept' /\ AsksStay
  BY <1>0, QuietKeeps DEF HistInv
<1>2. sessions' = [sessions EXCEPT ![s] = sessions'[s]]
  BY DEF Begins, BeginTableReservation, BeginHallEvent, BeginCancel, BeginDecision,
         BeginCheckOut, Typed, HandlersTyped, Become
<1>3. ASSUME NEW h, Become(s, h)  PROVE sessions'[s] = h
  BY <1>3 DEF Become, Typed, HandlersTyped
<1>4. HandlerEntitled(sessions[s])'
  <2>1. CASE \E q \in Request : BeginTableReservation(s, q) \/ BeginHallEvent(s, q)
    BY <2>1, <1>3 DEF BeginTableReservation, BeginHallEvent, HandlerEntitled
  <2>2. CASE \E u \in User, b \in BookingId : BeginCancel(s, u, b)
    BY <2>2, <1>0, <1>3 DEF BeginCancel, HandlerEntitled, OwnPerson
  <2>3. CASE \E u \in User, b \in BookingId, verdict \in {"confirmed", "cancelled"} :
                BeginDecision(s, u, b, verdict)
    BY <2>3, <1>0, <1>3 DEF BeginDecision, HandlerEntitled, OwnPerson
  <2>4. CASE \E u \in User, b \in BookingId : BeginCheckOut(s, u, b)
    <3>1. PICK u \in User, b \in BookingId : BeginCheckOut(s, u, b)
      BY <2>4
    <3>2. /\ b \in DOMAIN bookings
          /\ sessions'[s] = [op |-> "check_out", booking |-> b, by |-> u,
                             at |-> now, seen |-> bookings[b]]
          /\ OwnPerson(b, u)
      BY <3>1, <1>3 DEF BeginCheckOut, OwnPerson
    <3>3. bookings[b].status = "completed" => OnceCompleted(b)'
      BY <1>1, <3>2, CompletedOnce DEF HistInv, AsksStay
    <3>4. QED  BY <1>0, <3>2, <3>3 DEF HandlerEntitled, OwnPerson
  <2>5. QED  BY <2>1, <2>2, <2>3, <2>4 DEF Begins
<1>5. QED  BY <1>1, <1>2, <1>4, MoveEntitled DEF HistInv

LEMMA InsertHistory ==
  ASSUME Typed, HistInv, NEW s \in Session, NEW b \in BookingId, InsertBooking(s, b)
  PROVE  HistInv'
<1> DEFINE q == sessions[s].ask
<1>1. /\ DOMAIN bookings' = DOMAIN bookings \cup {b}
      /\ bookings'[b].status = "pending" /\ bookings'[b].ask = q
      /\ b \notin DOMAIN bookings
      /\ \A c \in DOMAIN bookings \ {b} : bookings'[c] = bookings[c]
      /\ RecordStatusChange(b, Null, "pending", q.user)
      /\ Become(s, [op |-> "invalidate", venue |-> q.venue])
  BY DEF InsertBooking, NewRow
<1>2. q.user = bookings'[b].ask.user
  BY <1>1
<1>3. HistoryKept'
  BY <1>1, <1>2, RecordKeeps, "pending" # "checked_in", "pending" # "completed" DEF HistInv
<1>4. AsksStay
  BY <1>1, RecordedStays, "pending" # "checked_in"
<1>5. /\ sessions' = [sessions EXCEPT ![s] = sessions'[s]]
      /\ HandlerEntitled(sessions[s])'
  BY <1>1 DEF Become, Typed, HandlersTyped, HandlerEntitled
<1>6. QED  BY <1>3, <1>4, <1>5, MoveEntitled DEF HistInv

\* A status change by a request in flight, which then answers or invalidates.
LEMMA ChangeHistory ==
  ASSUME Typed, HistInv, NEW s \in Session, NEW STATE from, NEW STATE to,
         sessions[s].op \in {"cancel", "decide", "flush"},
         RecordStatusChange(sessions[s].booking, from, to, sessions[s].by),
         DOMAIN bookings' = DOMAIN bookings,
         \/ bookings'[sessions[s].booking].status = to
         \/ /\ to = "completed" /\ sessions[s].seen.status = "completed"
            /\ bookings'[sessions[s].booking].status = bookings[sessions[s].booking].status,
         \A c \in DOMAIN bookings : bookings'[c].ask = bookings[c].ask,
         \A c \in DOMAIN bookings \ {sessions[s].booking} : bookings'[c] = bookings[c],
         to # "checked_in",
         to = "completed" => sessions[s].op = "flush",
         NEW STATE h, h.op \in {"idle", "invalidate"}, Become(s, h)
  PROVE  HistInv'
<1> DEFINE b == sessions[s].booking
<1>1. b \in DOMAIN bookings /\ b \in BookingId
  BY HandlerFields
<1>2. HandlerEntitled(sessions[s])
  BY DEF HistInv, HandlersEntitled
<1>3. /\ to = "completed" => WasSeated(b)
      /\ to = "completed" /\ sessions[s].seen.status = "completed" => LetInAgain(b)
      /\ OwnPerson(b, sessions[s].by)
  BY <1>2 DEF HandlerEntitled
<1>4. sessions[s].by = bookings'[b].ask.user
      \/ StaffWorksAt(sessions[s].by, bookings'[b].ask.venue)
  BY <1>1, <1>3 DEF OwnPerson
<1>5. DOMAIN bookings' = DOMAIN bookings \cup {b}
  BY <1>1
<1>6. HistoryKept'
  BY <1>1, <1>3, <1>4, <1>5, RecordKeeps DEF HistInv
<1>7. AsksStay
  BY RecordedStays, <1>1
<1>8. sessions'[s] = h /\ sessions' = [sessions EXCEPT ![s] = sessions'[s]]
  BY DEF Become, Typed, HandlersTyped
<1>9. HandlerEntitled(sessions[s])'
  BY <1>8 DEF HandlerEntitled
<1>10. QED  BY <1>6, <1>7, <1>8, <1>9, MoveEntitled DEF HistInv

LEMMA WriteHistory ==
  ASSUME Typed, HistInv, NEW s \in Session, WriteCancel(s) \/ WriteDecision(s)
  PROVE  HistInv'
<1> DEFINE b == sessions[s].booking
           to == IF sessions[s].op = "cancel" THEN "cancelled" ELSE sessions[s].verdict
           from == IF sessions[s].op = "cancel" THEN "cancelled" ELSE "pending"
           h == [op |-> "invalidate", venue |-> bookings[b].ask.venue]
<1>1. /\ sessions[s].op \in {"cancel", "decide"}
      /\ SetStatus(b, to)
      /\ RecordStatusChange(b, from, to, sessions[s].by)
      /\ Become(s, h)
  BY DEF WriteCancel, WriteDecision
<1>2. b \in DOMAIN bookings /\ to \in {"confirmed", "cancelled"}
  BY <1>1, HandlerFields
<1>3. bookings[b] \in Row
  BY <1>2 DEF Typed, RowsTyped
<1>4. /\ DOMAIN bookings' = DOMAIN bookings
      /\ bookings'[b].status = to
      /\ \A c \in DOMAIN bookings : bookings'[c].ask = bookings[c].ask
      /\ \A c \in DOMAIN bookings \ {b} : bookings'[c] = bookings[c]
  BY <1>1, <1>2, <1>3 DEF SetStatus, Row, Typed, RowsTyped
<1>5. h.op = "invalidate" /\ to # "checked_in" /\ to # "completed"
  BY <1>2
<1> HIDE DEF to, from, h
<1>6. QED
  BY <1>1, <1>4, <1>5, ChangeHistory

LEMMA FlushHistory ==
  ASSUME Typed, HistInv, NEW s \in Session, FlushCheckOut(s)
  PROVE  HistInv'
<1> DEFINE b == sessions[s].booking
<1>1. /\ sessions[s].op = "flush"
      /\ RecordStatusChange(b, "checked_in", "completed", sessions[s].by)
      /\ Become(s, Idle)
  BY DEF FlushCheckOut
<1>2. b \in DOMAIN bookings
  BY <1>1, HandlerFields
<1>3. bookings[b] \in Row
  BY <1>2 DEF Typed, RowsTyped
<1>4. /\ DOMAIN bookings' = DOMAIN bookings
      /\ \/ bookings'[b].status = "completed"
         \/ /\ sessions[s].seen.status = "completed"
            /\ bookings'[b].status = bookings[b].status
      /\ \A c \in DOMAIN bookings : bookings'[c].ask = bookings[c].ask
      /\ \A c \in DOMAIN bookings \ {b} : bookings'[c] = bookings[c]
  BY <1>2, <1>3 DEF FlushCheckOut, Flushed, Row, Typed, RowsTyped
<1>5. Idle.op = "idle"
  BY DEF Idle
<1>6. QED
  BY <1>1, <1>4, <1>5, ChangeHistory

LEMMA SelectHistory ==
  ASSUME Typed, HistInv, NEW s \in Session, SelectSeated(s)
  PROVE  HistInv'
<1> DEFINE b == sessions[s].booking
<1>1. UNCHANGED <<bookings, history, now>>
  BY DEF SelectSeated
<1>2. HistoryKept' /\ AsksStay
  BY <1>1, QuietKeeps DEF HistInv
<1>3. CASE Become(s, Idle)
  BY <1>2, <1>3, MoveEntitled
  DEF HistInv, Become, Typed, HandlersTyped, HandlerEntitled, Idle
<1>4. CASE bookings[b].status = "checked_in"
           /\ Become(s, [sessions[s] EXCEPT !.op = "flush"])
  <2>1. b \in DOMAIN bookings /\ b \in BookingId
    BY HandlerFields DEF SelectSeated
  <2>2. history[b] # <<>> /\ (LastTo(b) = "checked_in" \/ ClosedAgain(b))
    BY <1>4, <2>1 DEF HistInv, HistoryKept, HistoryMatchesStatus
  <2>3. history[b] \in Seq(HistoryRow)
    BY <2>1 DEF Typed, RowsTyped
  <2>4. Len(history[b]) \in DOMAIN history[b]
    BY <2>2, <2>3
  <2>5. WasSeated(b)
    BY <2>2, <2>4 DEF WasSeated, LastTo, ClosedAgain
  <2>12. sessions[s].seen.status = "completed" => LetInAgain(b)
    BY <1>4 DEF SelectSeated, HistInv, HandlersEntitled, HandlerEntitled, OnceCompleted,
                LetInAgain
  <2>6. sessions[s] \in [op : {"check_out", "flush"}, booking : BookingId, by : User,
                          at : Nat, seen : Row]
    BY DEF SelectSeated, Typed, HandlersTyped, Handler, Idle
  <2>7. /\ sessions' = [sessions EXCEPT ![s] = sessions'[s]]
        /\ sessions'[s] = [sessions[s] EXCEPT !.op = "flush"]
    BY <1>4 DEF Typed, HandlersTyped, Become
  <2>8. /\ sessions'[s].booking = b /\ sessions'[s].by = sessions[s].by
        /\ sessions'[s].seen = sessions[s].seen /\ sessions'[s].op = "flush"
    BY <2>6, <2>7
  <2>9. OwnPerson(b, sessions[s].by)
    BY DEF SelectSeated, HistInv, HandlersEntitled, HandlerEntitled
  <2>10. HandlerEntitled(sessions[s])'
    BY <1>1, <2>5, <2>8, <2>9, <2>12 DEF HandlerEntitled, OwnPerson, WasSeated, LetInAgain
  <2>11. QED  BY <1>2, <2>7, <2>10, MoveEntitled DEF HistInv
<1>5. QED  BY <1>3, <1>4 DEF SelectSeated

LEMMA CheckInHistory ==
  ASSUME Typed, HistInv, NEW u \in User, NEW b \in BookingId, CheckInByQr(u, b)
  PROVE  HistInv'
<1>1. b \in DOMAIN bookings /\ bookings[b] \in Row
  BY DEF CheckInByQr, Typed, RowsTyped
<1>2. /\ DOMAIN bookings' = DOMAIN bookings \cup {b}
      /\ DOMAIN bookings' = DOMAIN bookings
      /\ bookings'[b].status = "checked_in"
      /\ \A c \in DOMAIN bookings : bookings'[c].ask = bookings[c].ask
      /\ \A c \in DOMAIN bookings \ {b} : bookings'[c] = bookings[c]
      /\ RecordStatusChange(b, "confirmed", "checked_in", u)
      /\ StaffWorksAt(u, bookings'[b].ask.venue)
      /\ sessions' = sessions
  BY <1>1 DEF CheckInByQr, Row, Typed, RowsTyped
<1>3. bookings[b].status = "confirmed" /\ "checked_in" # "completed"
  BY DEF CheckInByQr
<1>4. HistoryKept'
  BY <1>1, <1>2, <1>3, RecordKeeps DEF HistInv
<1>5. AsksStay
  BY <1>2, RecordedStays
<1>6. HandlersEntitled'
  <2> SUFFICES ASSUME NEW s \in Session  PROVE HandlerEntitled(sessions[s])'
    BY DEF HandlersEntitled
  <2>1. HandlerEntitled(sessions[s])
    BY DEF HistInv, HandlersEntitled
  <2>2. QED
    BY <1>2, <1>5, <2>1, HandlerFields DEF HandlerEntitled, OwnPerson, AsksStay
<1>7. QED  BY <1>4, <1>6 DEF HistInv

LEMMA SweepHistory ==
  ASSUME Typed, HistInv, ExpireStale
  PROVE  HistInv'
<1>1. /\ DOMAIN bookings' = DOMAIN bookings
      /\ \A b \in DOMAIN bookings :
            /\ bookings'[b].ask = bookings[b].ask
            /\ \/ bookings'[b].status = bookings[b].status
               \/ bookings[b].status = "confirmed" /\ bookings'[b].status = "no_show"
      /\ UNCHANGED <<history, sessions>>
  BY DEF ExpireStale, Typed, RowsTyped, Row
<1>2. HistoryMatchesStatus'
  BY <1>1 DEF HistInv, HistoryKept, HistoryMatchesStatus, LastTo, ClosedAgain
<1>3. ScanFollowsConfirmation'
  BY <1>1 DEF HistInv, HistoryKept, ScanFollowsConfirmation
<1>4. CompletedWasSeated'
  BY <1>1 DEF HistInv, HistoryKept, CompletedWasSeated
<1>5. HistoryKept'
  BY <1>1, <1>2, <1>3, <1>4 DEF HistInv, HistoryKept, OwnPerson, FreshlyConfirmed
<1>6. \A s \in Session : HandlerEntitled(sessions[s])'
  BY <1>1, HandlerFields
  DEF HistInv, HandlersEntitled, HandlerEntitled, OwnPerson, WasSeated, LetInAgain, OnceCompleted
<1>7. QED  BY <1>5, <1>6 DEF HistInv, HandlersEntitled

LEMMA QuietHistory ==
  ASSUME Typed, HistInv, UNCHANGED <<bookings, history>>,
         \A s \in Session : sessions'[s] \in {sessions[s], Idle}
  PROVE  HistInv'
<1>1. HistoryKept'
  BY QuietKeeps DEF HistInv
<1>2. \A s \in Session : HandlerEntitled(sessions[s])'
  BY DEF HistInv, HandlersEntitled, HandlerEntitled, OwnPerson, WasSeated, LetInAgain,
         OnceCompleted, Idle
<1>3. QED  BY <1>1, <1>2 DEF HistInv, HandlersEntitled

LEMMA NextHistory == Typed /\ HistInv /\ [Next]_vars => HistInv'
<1> SUFFICES ASSUME Typed, HistInv, [Next]_vars  PROVE HistInv'
  OBVIOUS
<1>1. ASSUME NEW s \in Session,
             RefuseInsert(s) \/ FailDecision(s) \/ FinishRequest(s)
      PROVE  HistInv'
  BY <1>1, QuietHistory
  DEF RefuseInsert, FailDecision, FinishRequest, Become, Typed, HandlersTyped
<1>2. ASSUME Restart \/ Tick \/ UNCHANGED vars  PROVE HistInv'
  BY <1>2, QuietHistory DEF Restart, Tick, vars
<1>3. ASSUME NEW s \in Session, Create(s)  PROVE HistInv'
  BY <1>1, <1>3, BeginHistory, InsertHistory DEF Create, Begins
<1>4. ASSUME NEW s \in Session, Cancel(s)  PROVE HistInv'
  BY <1>4, BeginHistory, WriteHistory DEF Cancel, Begins
<1>5. ASSUME NEW s \in Session, Decide(s)  PROVE HistInv'
  BY <1>1, <1>5, BeginHistory, WriteHistory DEF Decide, Begins
<1>6. ASSUME NEW s \in Session, CheckOut(s)  PROVE HistInv'
  BY <1>6, BeginHistory, SelectHistory, FlushHistory DEF CheckOut, Begins
<1>7. QED
  BY <1>1, <1>2, <1>3, <1>4, <1>5, <1>6, CheckInHistory, SweepHistory DEF Next, DeskStep

\* The history of a booking ends in its status, unless the sweep moved it or a
\* check-out ended a visit with the object of an earlier one; it shows for every
\* scan a confirmation of its own and a scan before the completion, and names
\* only the guest and the staff of the booking's branch.
THEOREM HistoryTrue ==
  Spec => [](HistoryMatchesStatus /\ ScanFollowsConfirmation /\ CompletedWasSeated
             /\ ChangedByItsOwnPeople)
<1>1. Init => Typed /\ HistInv
  <2> SUFFICES ASSUME Init  PROVE Typed /\ HistInv
    OBVIOUS
  <2>1. HistoryKept
    BY DEF Init, HistoryKept, HistoryMatchesStatus, ScanFollowsConfirmation,
           CompletedWasSeated
  <2>2. HandlersEntitled
    BY DEF Init, Idle, HandlersEntitled, HandlerEntitled
  <2>3. QED  BY <2>1, <2>2, InitTyped DEF HistInv
<1>2. Typed /\ HistInv /\ [Next]_vars => (Typed /\ HistInv)'
  BY NextTyped, NextHistory
<1>3. HistInv => HistoryMatchesStatus /\ ScanFollowsConfirmation /\ CompletedWasSeated
                 /\ ChangedByItsOwnPeople
  BY DEF HistInv, HistoryKept, OwnPerson, StaffWorksAt, ChangedByItsOwnPeople
<1>4. QED  BY <1>1, <1>2, <1>3, PTL DEF Spec

\* In particular no confirmation lets a guest in twice (check_in_by_qr takes the
\* booking from confirmed to checked_in in one guarded UPDATE).
THEOREM ScansFollowConfirmation == Spec => []ScanFollowsConfirmation
  BY HistoryTrue, PTL

\* A visit that ended (check_out) was one that began, even when the two
\* overlapped with a cancellation.
THEOREM VisitsBeganBeforeTheyEnded == Spec => []CompletedWasSeated
  BY HistoryTrue, PTL

\* No request of another guest, nor of the staff of another branch, is ever in
\* the history of a booking (cancel compares the user, the staff calls the branch).
THEOREM HistoryIsOfItsOwnPeople == Spec => []ChangedByItsOwnPeople
  BY HistoryTrue, PTL
-----------------------------------------------------------------------------
(* The no-show sweep and the courtesy pre-check *)

LEMMA WritesOtherStatuses ==
  ASSUME Typed, NEW s \in Session, NEW c \in DOMAIN bookings,
         Create(s) \/ Cancel(s) \/ Decide(s) \/ CheckOut(s) \/ FinishRequest(s),
         bookings'[c].status = "no_show"
  PROVE  bookings[c].status = "no_show"
<1>0. \A b \in DOMAIN bookings : bookings[b] \in Row
  BY DEF Typed, RowsTyped
<1>1. CASE bookings' = bookings
  BY <1>1
<1>2. ASSUME NEW b \in BookingId, InsertBooking(s, b)  PROVE bookings'[c] = bookings[c]
  BY <1>2 DEF InsertBooking
<1>3. ASSUME WriteCancel(s) \/ WriteDecision(s)  PROVE bookings[c].status = "no_show"
  <2>1. PICK status \in {"confirmed", "cancelled"} : SetStatus(sessions[s].booking, status)
    BY <1>3, HandlerFields DEF WriteCancel, WriteDecision
  <2>2. QED  BY <1>0, <2>1 DEF SetStatus, Row
<1>4. ASSUME FlushCheckOut(s)  PROVE bookings[c].status = "no_show"
  BY <1>0, <1>4 DEF FlushCheckOut, Flushed, Row
<1>5. QED
  BY <1>1, <1>2, <1>3, <1>4
  DEF Create, Cancel, Decide, CheckOut, BeginTableReservation, BeginHallEvent, RefuseInsert,
      BeginCancel, BeginDecision, FailDecision, BeginCheckOut, SelectSeated, FinishRequest

LEMMA SweepIsLate ==
  ASSUME Typed, NEW b \in DOMAIN bookings, [Next]_vars,
         bookings[b].status # "no_show", bookings'[b].status = "no_show"
  PROVE  now + UtcOffset >= StartsAt(bookings[b].ask) + Grace
<1>1. bookings[b] \in Row /\ bookings[b].ask \in RequestShape
  BY RequestAssumption DEF Typed, RowsTyped, Row
<1>2. StartsAt(bookings[b].ask) \in Nat
  BY <1>1, ClockAssumption DEF StartsAt, RequestShape
<1>3. ~ \E s \in Session : Create(s) \/ Cancel(s) \/ Decide(s) \/ CheckOut(s) \/ FinishRequest(s)
  BY WritesOtherStatuses
<1>4. ~ \E u \in User, c \in BookingId : CheckInByQr(u, c)
  BY <1>1 DEF CheckInByQr, Row
<1>5. ExpireStale
  BY <1>3, <1>4 DEF Next, DeskStep, vars, Restart, Tick
<1>6. StartsAt(bookings[b].ask) + Grace <= now
  BY <1>1, <1>5 DEF ExpireStale, AutoCancelAt
<1>7. now \in Nat /\ now + UtcOffset >= now
  BY ClockAssumption DEF Typed, RowsTyped
<1>8. QED  BY <1>2, <1>6, <1>7, ClockAssumption

\* No booking turns into a no-show before the grace has run out on the wall
\* clock of a branch east of Greenwich.
THEOREM NoShowsAreLate == Spec => NoShowNeverEarly
<1>1. Typed /\ [Next]_vars =>
        [\A b \in DOMAIN bookings :
            bookings[b].status # "no_show" /\ bookings'[b].status = "no_show" =>
                now + UtcOffset >= StartsAt(bookings[b].ask) + Grace]_vars
  BY SweepIsLate
<1>2. QED
  BY <1>1, InitTyped, NextTyped, PTL DEF Spec, NoShowNeverEarly

LEMMA LaterDay ==
  ASSUME NEW d \in Nat, NEW e \in Nat, NEW L \in Nat, d < e
  PROVE  d * L + L <= e * L
<1>1. PICK k \in Nat : e = d + 1 + k
  <2>1. e - d - 1 \in Nat /\ e = d + 1 + (e - d - 1)
    OBVIOUS
  <2>2. QED  BY <2>1
<1>2. e * L = d * L + L + k * L
  BY <1>1
<1>3. k * L \in Nat /\ d * L \in Nat
  OBVIOUS
<1>4. QED  BY <1>2, <1>3

\* Two ranges of timestamps meet when their dates agree and their times of day
\* meet: no booking runs past midnight.
Window(p) ==
    /\ p.day \in Nat /\ p.start \in Nat /\ p.end \in Nat
    /\ p.end <= DayLength

LEMMA MeetsOnOneDay ==
  ASSUME NEW p, NEW q, Window(p), Window(q)
  PROVE  p.day = q.day /\ p.start < q.end /\ p.end > q.start <=> RangesMeet(p, q)
<1>1. p.day * DayLength \in Nat /\ q.day * DayLength \in Nat /\ DayLength \in Nat
  BY ClockAssumption DEF Window
<1>2. CASE p.day = q.day
  BY <1>1, <1>2 DEF Window, RangesMeet, StartsAt, EndsAt
<1>3. CASE p.day < q.day
  <2>1. p.day * DayLength + DayLength <= q.day * DayLength
    BY <1>1, <1>3, LaterDay DEF Window
  <2>2. QED  BY <1>1, <1>3, <2>1 DEF Window, RangesMeet, StartsAt, EndsAt
<1>4. CASE q.day < p.day
  <2>1. q.day * DayLength + DayLength <= p.day * DayLength
    BY <1>1, <1>4, LaterDay DEF Window
  <2>2. QED  BY <1>1, <1>4, <2>1 DEF Window, RangesMeet, StartsAt, EndsAt
<1>5. p.day = q.day \/ p.day < q.day \/ q.day < p.day
  BY DEF Window
<1>6. QED  BY <1>2, <1>3, <1>4, <1>5

LEMMA RequestWindow == \A q \in Request : Window(q)
  BY RequestAssumption DEF RequestShape, Window

\* The courtesy pre-check of a table reservation and the exclusion constraint
\* refuse the same requests: the check compares dates and times of day, the
\* constraint ranges of timestamps.
THEOREM PreCheckAgrees ==
  ASSUME Typed, NEW q \in Request, q.kind = "table_reservation"
  PROVE  FindOverlapping(q) = {}
         <=> \A b \in DOMAIN bookings : Active(b) => ~Clash(bookings[b].ask, q)
<1>1. \A b \in DOMAIN bookings : bookings[b].ask \in Request
  BY DEF Typed, RowsTyped, Row
<1>2. q.table \in Table /\ q.table # Null
  BY RequestAssumption, NullAssumption
<1>3. \A b \in DOMAIN bookings :
          Clash(bookings[b].ask, q) <=> /\ bookings[b].ask.table = q.table
                                        /\ RangesMeet(bookings[b].ask, q)
  BY <1>2 DEF Clash
<1>4. QED  BY <1>1, <1>3, MeetsOnOneDay, RequestWindow DEF FindOverlapping
=============================================================================
