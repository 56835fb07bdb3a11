-------------------------------- MODULE Inbox --------------------------------
(***************************************************************************)
(* Conversations, favourites (modules/engagement) and friendships          *)
(* (modules/auth): the records of which there is to be one for two         *)
(* parties, though a unique constraint stands behind one of them only.     *)
(***************************************************************************)
EXTENDS Requests

CONSTANTS
    Guest,       \* those who write, save and make friends
    Place,       \* the branches written to and saved
    Stay,        \* the bookings a conversation may be attached to
    NoStay,      \* booking_id IS NULL
    MaxMessages  \* bound on the messages

VARIABLES
    threads,   \* the rows of conversations
    messages,  \* the rows of messages
    saved,     \* the rows of favorites
    ties       \* the rows of friendships

inbox == <<threads, messages, saved, ties>>

InboxInit == threads = <<>> /\ messages = <<>> /\ saved = {} /\ ties = <<>>

ThreadsOf(u, v) == {t \in DOMAIN threads : threads[t].user = u /\ threads[t].venue = v}
TiesOf(pair) == {t \in DOMAIN ties : {ties[t].from, ties[t].to} = pair}

\* scalar_one_or_none raises on a second row.
Forked(rows) == Cardinality(rows) > 1

\* get_or_create: the one conversation, which a booking may be attached to.
OpenThread(c, u, v, stay) ==
    /\ LET found == ThreadsOf(u, v)
           keys == {<<"thread", u, v>>} IN
        \/ found = {} /\ Begin(c, "thread", keys,
               [user |-> u, venue |-> v, stay |-> stay, last |-> 0])
        \/ Forked(found) /\ AnswerAtOnce(c, Refused("failed", v))
        \/ \E t \in found :
            /\ ~Forked(found)
            /\ IF stay # NoStay /\ threads[t].stay = NoStay
               THEN Begin(c, "stay", keys, [thread |-> t, stay |-> stay])
               ELSE AnswerAtOnce(c, Served)
    /\ UNCHANGED inbox

InsertThread(c) ==
    /\ calls[c].op = "thread"
    /\ threads' = Append(threads, calls[c].read)
    /\ Answer(c, Served)
    /\ UNCHANGED <<messages, saved, ties>>

\* What has been attached meanwhile is overwritten.
AttachStay(c) ==
    /\ calls[c].op = "stay"
    /\ threads' = [threads EXCEPT ![calls[c].read.thread].stay = calls[c].read.stay]
    /\ Answer(c, Served)
    /\ UNCHANGED <<messages, saved, ties>>

\* send: the time for the conversation is taken before the writes, created_at at
\* the INSERT, an instant later; here a message has the former.
Send(c, t, side) ==
    /\ Len(messages) < MaxMessages
    /\ Begin(c, "send", {<<"messages", t>>}, [thread |-> t, side |-> side, sent |-> begun + 1])
    /\ UNCHANGED inbox

\* The time a conversation shows once a message of time now is in it.
\* Mutant: only the first message sets it.
StampFirst(last, now) == IF last = 0 THEN now ELSE last
Stamp(last, now) == now

\* The message and the time of the conversation, in one transaction.
Deliver(c) ==
    /\ calls[c].op = "send"
    /\ LET m == calls[c].read IN
        /\ messages' = Append(messages,
               [thread |-> m.thread, side |-> m.side, sent |-> m.sent, unread |-> TRUE])
        /\ threads' = [threads EXCEPT ![m.thread].last = Stamp(@, m.sent)]
    /\ Answer(c, Served)
    /\ UNCHANGED <<saved, ties>>

\* mark_read: what the other side has written so far, seen or not.
MarkRead(c, t, reader) ==
    /\ AnswerAtOnce(c, Served)
    /\ messages' = [m \in DOMAIN messages |->
           IF messages[m].thread = t /\ messages[m].side # reader
           THEN [messages[m] EXCEPT !.unread = FALSE] ELSE messages[m]]
    /\ UNCHANGED <<threads, saved, ties>>

\* toggle: look, then the opposite.
Toggle(c, u, v) ==
    /\ Begin(c, "toggle", {<<"saved", u, v>>}, [of |-> <<u, v>>, exists |-> <<u, v>> \in saved])
    /\ UNCHANGED inbox

\* A DELETE of what is gone is a DELETE of nothing; UNIQUE (user_id, venue_id).
Toggled(c) ==
    /\ calls[c].op = "toggle"
    /\ LET r == calls[c].read IN
        \/ r.exists /\ saved' = saved \ {r.of} /\ Answer(c, Served)
        \/ ~r.exists /\ r.of \notin saved /\ saved' = saved \cup {r.of} /\ Answer(c, Served)
        \/ ~r.exists /\ r.of \in saved /\ UNCHANGED saved /\ Answer(c, Refused("invalid", r.of))
    /\ UNCHANGED <<threads, messages, ties>>

\* request: "either direction counts".
Befriend(c, u, w) ==
    /\ LET found == TiesOf({u, w}) IN
        CASE found = {} -> Begin(c, "befriend", {<<"pair", {u, w}>>}, [from |-> u, to |-> w])
          [] Forked(found) -> AnswerAtOnce(c, Refused("failed", w))
          [] OTHER -> AnswerAtOnce(c, Served)
    /\ UNCHANGED inbox

\* UNIQUE (requester_id, addressee_id) is ordered.
\* Mutant: it is left out.
SameRequestNever(t, r) == FALSE
SameRequest(t, r) == ties[t].from = r.from /\ ties[t].to = r.to

InsertTie(c) ==
    /\ calls[c].op = "befriend"
    /\ LET r == calls[c].read IN
        IF \E t \in DOMAIN ties : SameRequest(t, r)
        THEN Answer(c, Refused("invalid", r.to)) /\ UNCHANGED ties
        ELSE /\ ties' = Append(ties, [from |-> r.from, to |-> r.to, status |-> "pending"])
             /\ Answer(c, Served)
    /\ UNCHANGED <<threads, messages, saved>>

\* respond: only the addressee, whatever the status is by now.
Respond(c, t, accept) ==
    /\ AnswerAtOnce(c, Served)
    /\ ties' = [ties EXCEPT ![t].status = IF accept THEN "accepted" ELSE "blocked"]
    /\ UNCHANGED <<threads, messages, saved>>

InboxNext ==
    \E c \in Client :
        \/ \E u \in Guest, v \in Place :
            Toggle(c, u, v) \/ \E stay \in Stay \cup {NoStay} : OpenThread(c, u, v, stay)
        \/ \E t \in DOMAIN threads, side \in {"user", "venue"} :
            Send(c, t, side) \/ MarkRead(c, t, side)
        \/ \E u \in Guest : \E w \in Guest \ {u} : Befriend(c, u, w)
        \/ \E t \in DOMAIN ties, accept \in BOOLEAN : Respond(c, t, accept)
        \/ InsertThread(c) \/ AttachStay(c) \/ Deliver(c) \/ Toggled(c) \/ InsertTie(c)
-----------------------------------------------------------------------------
InboxTypeOK ==
    /\ \A t \in DOMAIN threads : threads[t].stay \in Stay \cup {NoStay} /\ threads[t].last \in Nat
    /\ \A m \in DOMAIN messages : messages[m].thread \in DOMAIN threads
    /\ saved \subseteq Guest \X Place
    /\ \A t \in DOMAIN ties : ties[t].status \in {"pending", "accepted", "blocked"}

\* "One thread per user and venue" and one friendship of two people: a second
\* one is there only when two requests overlapped, and two friendships only when
\* each of the two had asked the other.
ForkedOnlyByARace ==
    /\ \A t, u \in DOMAIN threads :
        t # u /\ threads[t].user = threads[u].user /\ threads[t].venue = threads[u].venue =>
            <<"thread", threads[t].user, threads[t].venue>> \in raced
    /\ \A t, u \in DOMAIN ties :
        t # u /\ {ties[t].from, ties[t].to} = {ties[u].from, ties[u].to} =>
            /\ <<"pair", {ties[t].from, ties[t].to}>> \in raced
            /\ ties[t].from = ties[u].to

\* "so the inbox ordering can never lag behind its own messages": it shows the
\* time of the latest message, unless two were being sent at the same time, of
\* which the one with the earlier time may be the last to write.
InboxKeepsUp ==
    \A t \in DOMAIN threads :
        LET times == {messages[m].sent : m \in {k \in DOMAIN messages : messages[k].thread = t}}
        IN  <<"messages", t>> \notin raced =>
                /\ \A n \in times : n <= threads[t].last
                /\ threads[t].last \in times \cup {0}
=============================================================================
