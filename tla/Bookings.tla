------------------------------ MODULE Bookings ------------------------------
(***************************************************************************)
(* The bookings table of the Bazmly backend and the request handlers that  *)
(* write it (backend/app/modules/bookings).  Each request runs on its own  *)
(* database session: it reads, decides on what it read, writes and commits *)
(* under READ COMMITTED, so other requests interleave between its read and *)
(* its write.  From the first UPDATE of a row to the commit the row is     *)
(* locked and the change invisible, so that part is one step here.         *)
(***************************************************************************)
EXTENDS Integers, Sequences, FiniteSets

CONSTANTS
    BookingId,      \* primary keys the table can hand out
    Request,        \* the validated payloads guests send, a set of records
    Session,        \* the requests the server handles at one time
    User,           \* guests and staff alike
    Venue,
    Table,
    Null,           \* SQL NULL
    VenueOf,        \* VenueOf[t]: the branch table t stands in
    Seats,          \* Seats[t]: how many it seats
    Tiers,          \* Tiers[v]: the guest counts some price tier of v covers
    OpenAt,         \* the triples <<venue, day, start>> at which is_open_at holds
    WorksAt,        \* WorksAt[u]: the branches u is active staff of; Null in it
                    \* is a chain-wide row, which matches every branch
    DayLength,      \* ticks in a day
    MinAdvance,     \* venues.min_advance_booking_days
    Grace,          \* venues.late_grace_minutes, in ticks
    UtcOffset,      \* how far venue-local time runs ahead of the server's UTC
    Horizon         \* bound on the clock

RequestShape ==
    [kind : {"table_reservation", "hall_event"}, user : User, venue : Venue,
     table : Table \cup {Null}, day : Nat, start : Nat, end : Nat, guests : Nat]

ASSUME RequestAssumption ==
    /\ Request \subseteq RequestShape
    /\ \A q \in Request : /\ q.start < q.end
                          /\ q.end <= DayLength
                          /\ q.kind = "table_reservation" => q.table \in Table
                          /\ q.kind = "hall_event" => q.table = Null
ASSUME VenueAssumption ==
    /\ VenueOf \in [Table -> Venue]
    /\ Seats \in [Table -> Nat]
    /\ Tiers \in [Venue -> SUBSET Nat]
    /\ WorksAt \in [User -> SUBSET (Venue \cup {Null})]
ASSUME ClockAssumption ==
    /\ DayLength \in Nat \ {0}
    /\ MinAdvance \in Nat /\ Grace \in Nat /\ UtcOffset \in Nat /\ Horizon \in Nat
ASSUME NullAssumption == Null \notin Nat /\ Null \notin Venue \cup Table

VARIABLES
    bookings,   \* the table: a function from the ids inserted so far to rows
    history,    \* booking_status_history, in order, per booking
    sessions,   \* what each request in flight holds between its steps
    now         \* the server clock, in UTC ticks

vars == <<bookings, history, sessions, now>>
-----------------------------------------------------------------------------
Statuses == {"pending", "confirmed", "checked_in", "completed", "cancelled", "no_show"}

\* The states in which a booking holds its table or its day.
ACTIVE_BOOKING_STATUSES == {"pending", "confirmed", "checked_in"}

Row == [ask : Request, status : Statuses,
        checkedInAt : Nat \cup {Null}, checkedOutAt : Nat \cup {Null},
        seatedMinutes : Nat \cup {Null}]

HistoryRow == [from : Statuses \cup {Null}, to : Statuses, by : User]

Idle == [op |-> "idle"]

Handler ==
    {Idle}
    \cup [op : {"insert"}, ask : Request]
    \cup [op : {"cancel"}, booking : BookingId, by : User]
    \cup [op : {"decide"}, booking : BookingId, by : User,
          verdict : {"confirmed", "cancelled"}]
    \cup [op : {"check_out", "flush"}, booking : BookingId, by : User,
          at : Nat, seen : Row]
    \cup [op : {"invalidate"}, venue : Venue]
-----------------------------------------------------------------------------
(* Times.  Dates and times are venue-local and never converted. *)

StartsAt(q) == q.day * DayLength + q.start
EndsAt(q)   == q.day * DayLength + q.end

\* Mutant: the grace is taken off instead of added.
AutoCancelBefore(q) == StartsAt(q) - Grace

\* late_grace_minutes after the local start, yet compared with the UTC clock.
AutoCancelAt(q) == StartsAt(q) + Grace

Active(b) == bookings[b].status \in ACTIVE_BOOKING_STATUSES

\* The courtesy pre-check: same table, same date, half-open times that meet.
FindOverlapping(q) ==
    {b \in DOMAIN bookings :
        /\ Active(b)
        /\ bookings[b].ask.table = q.table
        /\ bookings[b].ask.day = q.day
        /\ bookings[b].ask.start < q.end
        /\ bookings[b].ask.end > q.start}

\* reserved_range && reserved_range.
RangesMeet(p, q) == StartsAt(p) < EndsAt(q) /\ StartsAt(q) < EndsAt(p)

\* Mutant: the partial unique index on hall events is missing.
ClashOnTableOnly(p, q) == p.table # Null /\ p.table = q.table /\ RangesMeet(p, q)

\* What no_overlapping_table_bookings and one_hall_event_per_day refuse to
\* store side by side.  A hall event has no table, and NULL equals nothing.
Clash(p, q) ==
    \/ /\ p.table # Null
       /\ p.table = q.table
       /\ RangesMeet(p, q)
    \/ /\ p.kind = "hall_event" /\ q.kind = "hall_event"
       /\ p.venue = q.venue
       /\ p.day = q.day

\* Mutant: the constraint's WHERE forgets the guests already seated.
ConstraintsIgnoreSeated(b, q) ==
    \A c \in DOMAIN bookings \ {b} :
        bookings[c].status \in {"pending", "confirmed"} => ~Clash(bookings[c].ask, q)

\* Storing b, asked for as q, with an active status keeps both constraints.
ConstraintsAllow(b, q) ==
    \A c \in DOMAIN bookings \ {b} : Active(c) => ~Clash(bookings[c].ask, q)

\* Mutant: any employment will do.
StaffWorksSomewhere(u, v) == WorksAt[u] # {}

\* _staff_works_at: employed at the branch, or chain-wide.
StaffWorksAt(u, v) == v \in WorksAt[u] \/ Null \in WorksAt[u]
-----------------------------------------------------------------------------
Init ==
    /\ bookings = [b \in {} |-> Null]
    /\ history = [b \in BookingId |-> <<>>]
    /\ sessions = [s \in Session |-> Idle]
    /\ now = 0

Become(s, handler) == sessions' = [sessions EXCEPT ![s] = handler]

\* Mutant: from and to swapped at the call.
RecordSwapped(b, from, to, by) ==
    history' = [history EXCEPT ![b] = Append(@, [from |-> to, to |-> from, by |-> by])]

RecordStatusChange(b, from, to, by) ==
    history' = [history EXCEPT ![b] = Append(@, [from |-> from, to |-> to, by |-> by])]

SetStatus(b, status) == bookings' = [bookings EXCEPT ![b].status = status]
-----------------------------------------------------------------------------
(* Creating a booking: guards and pre-check, then the INSERT. *)

GuardLeadTime(q) == q.day - (now \div DayLength) >= MinAdvance

GuardOpen(q) == <<q.venue, q.day, q.start>> \in OpenAt

BeginTableReservation(s, q) ==
    /\ sessions[s] = Idle
    /\ q.kind = "table_reservation"
    /\ GuardLeadTime(q)
    /\ GuardOpen(q)
    /\ VenueOf[q.table] = q.venue
    /\ Seats[q.table] >= q.guests
    /\ FindOverlapping(q) = {}
    /\ Become(s, [op |-> "insert", ask |-> q])
    /\ UNCHANGED <<bookings, history, now>>

BeginHallEvent(s, q) ==
    /\ sessions[s] = Idle
    /\ q.kind = "hall_event"
    /\ GuardLeadTime(q)
    /\ GuardOpen(q)
    /\ q.guests \in Tiers[q.venue]
    /\ Become(s, [op |-> "insert", ask |-> q])
    /\ UNCHANGED <<bookings, history, now>>

NewRow(q) == [ask |-> q, status |-> "pending", checkedInAt |-> Null,
              checkedOutAt |-> Null, seatedMinutes |-> Null]

InsertBooking(s, b) ==
    /\ sessions[s].op = "insert"
    /\ b \notin DOMAIN bookings
    /\ LET q == sessions[s].ask IN
        /\ ConstraintsAllow(b, q)
        /\ bookings' = [c \in DOMAIN bookings \cup {b} |->
                            IF c = b THEN NewRow(q) ELSE bookings[c]]
        /\ RecordStatusChange(b, Null, "pending", q.user)
        /\ Become(s, [op |-> "invalidate", venue |-> q.venue])
    /\ UNCHANGED now

\* IntegrityError, translated into the domain error the guest sees.
RefuseInsert(s) ==
    /\ sessions[s].op = "insert"
    /\ \E c \in DOMAIN bookings : Active(c) /\ Clash(bookings[c].ask, sessions[s].ask)
    /\ Become(s, Idle)
    /\ UNCHANGED <<bookings, history, now>>
-----------------------------------------------------------------------------
(* The guest cancels.  set_status has no guard on the current status. *)

BeginCancel(s, u, b) ==
    /\ sessions[s] = Idle
    /\ b \in DOMAIN bookings
    /\ bookings[b].ask.user = u
    /\ bookings[b].status \notin {"cancelled", "completed"}
    /\ Become(s, [op |-> "cancel", booking |-> b, by |-> u])
    /\ UNCHANGED <<bookings, history, now>>

\* from_status is read from the session's own object after set_status has
\* already synchronised it, so the row recorded says cancelled -> cancelled.
WriteCancel(s) ==
    /\ sessions[s].op = "cancel"
    /\ LET b == sessions[s].booking IN
        /\ SetStatus(b, "cancelled")
        /\ RecordStatusChange(b, "cancelled", "cancelled", sessions[s].by)
        /\ Become(s, [op |-> "invalidate", venue |-> bookings[b].ask.venue])
    /\ UNCHANGED now
-----------------------------------------------------------------------------
(* The branch confirms or rejects.  Only the first read checks the status. *)

BeginDecision(s, u, b, verdict) ==
    /\ sessions[s] = Idle
    /\ b \in DOMAIN bookings
    /\ StaffWorksAt(u, bookings[b].ask.venue)
    /\ bookings[b].status = "pending"
    /\ Become(s, [op |-> "decide", booking |-> b, by |-> u, verdict |-> verdict])
    /\ UNCHANGED <<bookings, history, now>>

\* Mutant: the constraints are only checked on INSERT.
AlwaysStorable(b, verdict) == TRUE

DecisionStorable(b, verdict) ==
    verdict \in ACTIVE_BOOKING_STATUSES => ConstraintsAllow(b, bookings[b].ask)

WriteDecision(s) ==
    /\ sessions[s].op = "decide"
    /\ LET b == sessions[s].booking
           verdict == sessions[s].verdict IN
        /\ DecisionStorable(b, verdict)
        /\ SetStatus(b, verdict)
        /\ RecordStatusChange(b, "pending", verdict, sessions[s].by)
        /\ Become(s, [op |-> "invalidate", venue |-> bookings[b].ask.venue])
    /\ UNCHANGED now

\* The IntegrityError escapes and the transaction rolls back.
FailDecision(s) ==
    /\ sessions[s].op = "decide"
    /\ ~DecisionStorable(sessions[s].booking, sessions[s].verdict)
    /\ Become(s, Idle)
    /\ UNCHANGED <<bookings, history, now>>
-----------------------------------------------------------------------------
(* Check-in: one guarded UPDATE, nothing read before it can go stale. *)

\* Mutant: a ticket is scanned before the branch accepted the booking.
CheckInUnconfirmed(u, b) ==
    /\ b \in DOMAIN bookings
    /\ StaffWorksAt(u, bookings[b].ask.venue)
    /\ bookings[b].status \in {"pending", "confirmed"}
    /\ bookings' = [bookings EXCEPT ![b].status = "checked_in", ![b].checkedInAt = now]
    /\ RecordStatusChange(b, "confirmed", "checked_in", u)
    /\ UNCHANGED <<sessions, now>>

CheckInByQr(u, b) ==
    /\ b \in DOMAIN bookings
    /\ StaffWorksAt(u, bookings[b].ask.venue)
    /\ bookings[b].status = "confirmed"
    /\ bookings' = [bookings EXCEPT ![b].status = "checked_in", ![b].checkedInAt = now]
    /\ RecordStatusChange(b, "confirmed", "checked_in", u)
    /\ UNCHANGED <<sessions, now>>

(* Check-out: get_by_id loads the row; a second SELECT decides by the status *)
(* in the database but hands back the object already loaded; the flush is an *)
(* UPDATE by primary key with no status guard, of the columns that differ    *)
(* from the ones loaded.                                                     *)

BeginCheckOut(s, u, b) ==
    /\ sessions[s] = Idle
    /\ b \in DOMAIN bookings
    /\ StaffWorksAt(u, bookings[b].ask.venue)
    /\ Become(s, [op |-> "check_out", booking |-> b, by |-> u,
                  at |-> now, seen |-> bookings[b]])
    /\ UNCHANGED <<bookings, history, now>>

\* Mutant: any booking that still holds its table can be closed.
SelectActive(s) ==
    /\ sessions[s].op = "check_out"
    /\ IF Active(sessions[s].booking)
         THEN Become(s, [sessions[s] EXCEPT !.op = "flush"])
         ELSE Become(s, Idle)
    /\ UNCHANGED <<bookings, history, now>>

SelectSeated(s) ==
    /\ sessions[s].op = "check_out"
    /\ IF bookings[sessions[s].booking].status = "checked_in"
         THEN Become(s, [sessions[s] EXCEPT !.op = "flush"])
         ELSE Become(s, Idle)
    /\ UNCHANGED <<bookings, history, now>>

\* Mutant: the two times swapped.
SeatedBackwards(in, out) == IF in = Null THEN Null ELSE in - out

SeatedFor(in, out) == IF in = Null THEN Null ELSE out - in

\* What a column holds after the object's flush: one set to the value it was
\* loaded with is not in the UPDATE.
Flushed(stored, loaded, value) == IF value = loaded THEN stored ELSE value

\* Where the object in hand was completed already, by an earlier check-out, the
\* UPDATE has no status: a guest scanned again meanwhile stays checked in.
FlushCheckOut(s) ==
    /\ sessions[s].op = "flush"
    /\ LET h == sessions[s]
           minutes == SeatedFor(h.seen.checkedInAt, h.at) IN
        /\ bookings' = [bookings EXCEPT
               ![h.booking].status = Flushed(@, h.seen.status, "completed"),
               ![h.booking].checkedOutAt = Flushed(@, h.seen.checkedOutAt, h.at),
               ![h.booking].seatedMinutes = Flushed(@, h.seen.seatedMinutes, minutes)]
        /\ RecordStatusChange(h.booking, "checked_in", "completed", h.by)
        /\ Become(s, Idle)
    /\ UNCHANGED now
-----------------------------------------------------------------------------
\* One bulk UPDATE; no history row, no cache invalidation.
ExpireStale ==
    LET stale == {b \in DOMAIN bookings : /\ bookings[b].status = "confirmed"
                                          /\ AutoCancelAt(bookings[b].ask) <= now}
    IN  /\ stale # {}
        /\ bookings' = [b \in DOMAIN bookings |->
                            IF b \in stale
                              THEN [bookings[b] EXCEPT !.status = "no_show"]
                              ELSE bookings[b]]
        /\ UNCHANGED <<history, sessions, now>>

\* The handler drops the venue's cached slots and answers.
FinishRequest(s) ==
    /\ sessions[s].op = "invalidate"
    /\ Become(s, Idle)
    /\ UNCHANGED <<bookings, history, now>>

\* The process dies: every open transaction rolls back.
Restart ==
    /\ sessions' = [s \in Session |-> Idle]
    /\ UNCHANGED <<bookings, history, now>>

Tick ==
    /\ now < Horizon
    /\ now' = now + 1
    /\ UNCHANGED <<bookings, history, sessions>>

Create(s) ==
    \/ \E q \in Request : BeginTableReservation(s, q) \/ BeginHallEvent(s, q)
    \/ \E b \in BookingId : InsertBooking(s, b)
    \/ RefuseInsert(s)

Cancel(s) ==
    \/ \E u \in User, b \in BookingId : BeginCancel(s, u, b)
    \/ WriteCancel(s)

Decide(s) ==
    \/ \E u \in User, b \in BookingId, verdict \in {"confirmed", "cancelled"} :
            BeginDecision(s, u, b, verdict)
    \/ WriteDecision(s)
    \/ FailDecision(s)

CheckOut(s) ==
    \/ \E u \in User, b \in BookingId : BeginCheckOut(s, u, b)
    \/ SelectSeated(s)
    \/ FlushCheckOut(s)

\* Every step but those that also touch the availability cache.
DeskStep ==
    \/ \E s \in Session : Create(s) \/ Cancel(s) \/ Decide(s) \/ CheckOut(s)
    \/ \E u \in User, b \in BookingId : CheckInByQr(u, b)
    \/ ExpireStale
    \/ Tick

Next ==
    \/ DeskStep
    \/ \E s \in Session : FinishRequest(s)
    \/ Restart

Spec == Init /\ [][Next]_vars
-----------------------------------------------------------------------------
(* Invariants *)

\* Every variable has its type, and a request in flight works on a stored row.
TypeOK ==
    /\ DOMAIN bookings \subseteq BookingId
    /\ bookings \in [DOMAIN bookings -> Row]
    /\ history \in [BookingId -> Seq(HistoryRow)]
    /\ sessions \in [Session -> Handler]
    /\ \A s \in Session :
          sessions[s].op \in {"cancel", "decide", "check_out", "flush"} =>
              sessions[s].booking \in DOMAIN bookings
    /\ now \in Nat

Holding(b, kind) ==
    /\ bookings[b].ask.kind = kind
    /\ bookings[b].status \in {"pending", "confirmed", "checked_in"}

\* The times the rows and the requests carry lie in the past, in order.
TimesOrdered ==
    /\ \A b \in DOMAIN bookings :
          bookings[b].checkedInAt # Null => bookings[b].checkedInAt <= now
    /\ \A s \in Session :
          sessions[s].op \in {"check_out", "flush"} /\ sessions[s].seen.checkedInAt # Null =>
              sessions[s].seen.checkedInAt <= sessions[s].at

\* Two bookings that hold one table never overlap in time, whatever requests
\* raced to create, confirm or resurrect them.
NoDoubleBooking ==
    \A b, c \in DOMAIN bookings :
        LET p == bookings[b].ask
            q == bookings[c].ask IN
        /\ b # c /\ p.table = q.table
        /\ Holding(b, "table_reservation") /\ Holding(c, "table_reservation")
        => EndsAt(p) <= StartsAt(q) \/ EndsAt(q) <= StartsAt(p)

\* A branch hosts at most one hall event a day.
OneHallEventPerDay ==
    \A b, c \in DOMAIN bookings :
        /\ b # c
        /\ Holding(b, "hall_event") /\ Holding(c, "hall_event")
        /\ bookings[b].ask.venue = bookings[c].ask.venue
        => bookings[b].ask.day # bookings[c].ask.day

LastTo(b) == history[b][Len(history[b])].to

\* The guest was let in again after a check-out, and checked out again.
ClosedAgain(b) ==
    \E i, j \in DOMAIN history[b] :
        /\ i < j /\ j < Len(history[b])
        /\ history[b][i].to = "completed" /\ history[b][j].to = "checked_in"

\* The last history row names the booking's status, even after lost updates,
\* but for two cases: the bulk no-show sweep leaves no row, and it starts from
\* confirmed; and a check-out that was given the object of a visit completed
\* before records an end that it does not write, if the guest was let in again.
HistoryMatchesStatus ==
    \A b \in DOMAIN bookings :
        /\ history[b] # <<>>
        /\ \/ LastTo(b) = bookings[b].status
           \/ LastTo(b) = "confirmed" /\ bookings[b].status = "no_show"
           \/ LastTo(b) = "completed" /\ ClosedAgain(b)

\* No confirmation lets a guest in twice: before every scan there is one that
\* no earlier scan has used.
ScanFollowsConfirmation ==
    \A b \in BookingId : \A i \in DOMAIN history[b] :
        history[b][i].to = "checked_in" =>
            \E k \in 1 .. i - 1 :
                /\ history[b][k].to = "confirmed"
                /\ \A j \in k .. i - 1 : history[b][j].to # "checked_in"

\* A visit is completed only if the guest was let in at some earlier point,
\* even when the check-out races a cancellation.
CompletedWasSeated ==
    \A b \in DOMAIN bookings :
        bookings[b].status = "completed" =>
            \E i \in DOMAIN history[b] : history[b][i].to = "checked_in"

\* Nobody but the guest and the staff of the booking's own branch appears in
\* its history.
ChangedByItsOwnPeople ==
    \A b \in DOMAIN bookings : \A i \in DOMAIN history[b] :
        LET by == history[b][i].by IN
        by = bookings[b].ask.user \/ {bookings[b].ask.venue, Null} \cap WorksAt[by] # {}

(* Action properties *)

\* No booking turns into a no-show before its grace has run out on the wall
\* clock of the venue, although the deadline is compared with UTC.
NoShowNeverEarly ==
    [][\A b \in DOMAIN bookings :
          bookings[b].status # "no_show" /\ bookings'[b].status = "no_show" =>
              now + UtcOffset >= StartsAt(bookings[b].ask) + Grace]_vars

(* Statements of the code's own documentation that the code does not keep *)

\* "A second scan fails the third check, which is what makes the token
\* single-use": one booking is checked in at most once.
TokenSingleUse ==
    \A b \in BookingId :
        Cardinality({i \in DOMAIN history[b] : history[b][i].to = "checked_in"}) <= 1

\* "seated_minutes is written once": a second check-out leaves it alone.
SeatedWrittenOnce ==
    [][\A b \in DOMAIN bookings :
          bookings[b].checkedOutAt # Null =>
              /\ bookings'[b].checkedOutAt = bookings[b].checkedOutAt
              /\ bookings'[b].seatedMinutes = bookings[b].seatedMinutes]_vars
-----------------------------------------------------------------------------
(* Refinement: an active booking holds its table for every tick of its range, *)
(* or its hall for the day.                                                   *)

Cells(q) ==
    IF q.kind = "hall_event"
      THEN {<<"hall", q.venue, q.day>>}
      ELSE {<<"table", q.table, x>> : x \in StartsAt(q) .. EndsAt(q) - 1}

HeldCells(b) ==
    IF b \in DOMAIN bookings /\ Active(b) THEN Cells(bookings[b].ask) ELSE {}

Ledger == INSTANCE ReservationLedger WITH
    Holder <- BookingId,
    Cell <- ({"table"} \X Table \X Nat) \cup ({"hall"} \X Venue \X Nat),
    held <- [b \in BookingId |-> HeldCells(b)]

\* Every behaviour of the booking desk is one of the reservation ledger.
ImplementsLedger == Ledger!LedgerSpec
=============================================================================
