---------------------------- MODULE GuestsProofs ----------------------------
(* Machine-checked theorems about what guests do: what the bot answers them,  *)
(* the conversations, favourites and friends, the reviews and the places they *)
(* have picked.  For any number of them and of requests.                      *)
EXTENDS PartnersProofs, SequenceTheorems, FiniteSetTheorems

InFlight(u) == \E c \in Client : <<"update", u>> \in calls[c].keys

\* Nothing has been sent for u, unless a worker stopped that had.
NothingSent(u) == "restart" \notin faults[u] => replies[u] = 0

\* Nothing arrived only for a cause, and more than one message for another.
AnswerOf(u) ==
    /\ replies[u] = 0 => "raised" \in faults[u] \/ {"photo_refused", "words_refused"} \subseteq faults[u]
    /\ replies[u] > 1 => "restart" \in faults[u]

AboutUpdate(c) ==
    LET u == calls[c].read.update IN
        IF calls[c].op \in {"photo", "words", "done"}
        THEN /\ calls[c] = [op |-> calls[c].op, keys |-> {<<"update", u>>}, read |-> calls[c].read]
             /\ u \in Update \ acked
             /\ calls[c].op = "photo" => NothingSent(u)
             /\ calls[c].op = "words" => NothingSent(u) /\ "photo_refused" \in faults[u]
             /\ calls[c].op = "done" => AnswerOf(u)
        ELSE calls[c].keys = {}

BotInv ==
    /\ RequestsInv
    /\ replies \in [Update -> Nat] /\ faults = [u \in Update |-> faults[u]]
    /\ acked \subseteq Update
    /\ \A c \in Client : AboutUpdate(c)
    /\ \A c, d \in Client : c # d => calls[c].keys \cap calls[d].keys = {}
    /\ \A u \in Update \ acked : ~InFlight(u) => NothingSent(u)
    /\ \A u \in acked : AnswerOf(u)

BotIsRight == IF area = "bot" THEN BotInv ELSE BotInit

LEMMA BotInitially == Init => BotInv /\ BotInit
<1> SUFFICES ASSUME Init PROVE BotInv
  BY DEF Init
<1>1. RequestsInv /\ \A c \in Client : calls[c].op = "idle" /\ calls[c].keys = {}
  BY RequestsInitially DEF Init, RequestsInit, Idle
<1>2. /\ replies \in [Update -> Nat] /\ faults = [u \in Update |-> faults[u]] /\ acked = {}
      /\ \A u \in Update : replies[u] = 0
  BY DEF Init, BotInit
<1>3. QED  BY <1>1, <1>2 DEF BotInv, AboutUpdate, NothingSent

\* A step of the request on c about u, which leaves the other updates alone.
LEMMA OneUpdate ==
  ASSUME BotInv, RequestsInv', NEW c \in Client, NEW u \in Update \ acked,
         \A d \in Client \ {c} : calls'[d] = calls[d] /\ <<"update", u>> \notin calls[d].keys,
         calls'[c].keys \in {{}, {<<"update", u>>}},
         replies' \in [Update -> Nat], faults' = [v \in Update |-> faults'[v]],
         \A v \in Update : v # u => replies'[v] = replies[v] /\ faults'[v] = faults[v],
         calls[c].keys \in {{}, {<<"update", u>>}},
         acked' = acked \/ (acked' = acked \cup {u} /\ calls'[c].keys = {} /\ AnswerOf(u)'),
         calls'[c].keys = {} => acked' = acked \cup {u},
         AboutUpdate(c)'
  PROVE  BotInv'
<1>1. ASSUME NEW d \in Client \ {c}  PROVE AboutUpdate(d)'
  <2>1. AboutUpdate(d) /\ calls'[d] = calls[d] /\ <<"update", u>> \notin calls[d].keys
    BY DEF BotInv
  <2>2. CASE calls[d].op \in {"photo", "words", "done"}
    <3> DEFINE v == calls[d].read.update
    <3>1. v # u /\ v \in Update \ acked /\ <<"update", v>> \in calls[d].keys
      BY <2>1, <2>2 DEF AboutUpdate
    <3>2. v \notin acked' /\ replies'[v] = replies[v] /\ faults'[v] = faults[v]
      BY <3>1
    <3>3. QED  BY <2>1, <2>2, <3>1, <3>2 DEF AboutUpdate, NothingSent, AnswerOf
  <2>3. CASE calls[d].op \notin {"photo", "words", "done"}
    BY <2>1, <2>3 DEF AboutUpdate
  <2>4. QED  BY <2>2, <2>3
<1>2. ASSUME NEW d \in Client, NEW e \in Client, d # e
      PROVE  calls'[d].keys \cap calls'[e].keys = {}
  <2>1. CASE d = c
    BY <2>1, <1>2
  <2>2. CASE e = c
    BY <2>2, <1>2
  <2>3. CASE d # c /\ e # c
    BY <2>3, <1>2 DEF BotInv
  <2>4. QED  BY <2>1, <2>2, <2>3
<1>3. ASSUME NEW v \in Update, v \notin acked', ~\E d \in Client : <<"update", v>> \in calls'[d].keys
      PROVE  NothingSent(v)'
  <2>1. v # u
    BY <1>3
  <2>2. ~InFlight(v)
    BY <1>3, <2>1 DEF InFlight
  <2>3. v \notin acked
    BY <1>3
  <2>4. QED  BY <2>1, <2>2, <2>3 DEF BotInv, NothingSent
<1>4. ASSUME NEW v \in acked'
      PROVE  /\ replies'[v] = 0 => \/ "raised" \in faults'[v]
                                   \/ {"photo_refused", "words_refused"} \subseteq faults'[v]
             /\ replies'[v] > 1 => "restart" \in faults'[v]
  <2>1. CASE v \in acked
    <3>1. v # u /\ v \in Update /\ AnswerOf(v)
      BY <2>1 DEF BotInv
    <3>2. QED  BY <3>1 DEF AnswerOf
  <2>2. CASE v = u /\ v \notin acked
    BY <2>2, <1>4 DEF AnswerOf
  <2>3. QED  BY <2>1, <2>2, <1>4
<1>5. acked' \subseteq Update
  BY DEF BotInv
<1>6. \A d \in Client : AboutUpdate(d)'
  BY <1>1
<1>7. \A v \in Update \ acked' : ~InFlight(v)' => NothingSent(v)'
  BY <1>3 DEF InFlight
<1>8. \A v \in acked' : AnswerOf(v)'
  BY <1>4 DEF AnswerOf
<1>9. QED  BY <1>2, <1>5, <1>6, <1>7, <1>8 DEF BotInv

\* What a request that is under way about an update is.
LEMMA UnderWay ==
  ASSUME BotInv, NEW c \in Client, calls[c].op \in {"photo", "words", "done"}
  PROVE  /\ calls[c].read.update \in Update \ acked
         /\ calls[c].keys = {<<"update", calls[c].read.update>>}
         /\ calls[c] = [op |-> calls[c].op, keys |-> calls[c].keys, read |-> calls[c].read]
         /\ \A d \in Client \ {c} : <<"update", calls[c].read.update>> \notin calls[d].keys
         /\ AboutUpdate(c)
<1>1. AboutUpdate(c)
  BY DEF BotInv
<1>2. /\ calls[c].read.update \in Update \ acked
      /\ calls[c] = [op |-> calls[c].op, keys |-> {<<"update", calls[c].read.update>>},
                     read |-> calls[c].read]
  BY <1>1 DEF AboutUpdate
<1>3. calls[c].keys = {<<"update", calls[c].read.update>>}
  BY <1>1 DEF AboutUpdate
<1>4. \A d \in Client \ {c} : <<"update", calls[c].read.update>> \notin calls[d].keys
  BY <1>3 DEF BotInv
<1>5. QED  BY <1>1, <1>2, <1>3, <1>4

\* What a call to Telegram does for u, after which the request is at op.
Moved(u, op) ==
    /\ replies' \in [Update -> Nat] /\ faults' = [v \in Update |-> faults'[v]]
    /\ \A v \in Update : v # u => replies'[v] = replies[v] /\ faults'[v] = faults[v]
    /\ faults[u] \subseteq faults'[u]
    /\ op = "words" => replies' = replies /\ "photo_refused" \in faults'[u]
    /\ op = "done" => \/ replies'[u] = replies[u] + 1
                      \/ "raised" \in faults'[u] /\ replies'[u] = replies[u]
                      \/ /\ "words_refused" \in faults'[u] /\ "photo_refused" \in faults'[u]
                         /\ replies'[u] = replies[u]

\* The banner or the words are sent, refused or lost on the way.
LEMMA SendingKeeps ==
  ASSUME BotInv, NEW c \in Client,
         \/ PhotoSent(c) \/ PhotoRefused(c)
         \/ \E fine \in BOOLEAN : WordsSent(c, fine)
         \/ \E arrived \in BOOLEAN : Raised(c, arrived)
  PROVE  BotInv'
<1>1. calls[c].op \in {"photo", "words"} /\ acked' = acked
  BY DEF PhotoSent, PhotoRefused, WordsSent, Raised
<1>2. PICK u \in Update \ acked : u = calls[c].read.update
  BY <1>1, UnderWay
<1>3. /\ calls[c].keys = {<<"update", u>>}
      /\ calls[c] = [op |-> calls[c].op, keys |-> calls[c].keys, read |-> calls[c].read]
      /\ \A d \in Client \ {c} : <<"update", u>> \notin calls[d].keys
      /\ NothingSent(u)
      /\ calls[c].op = "words" => "photo_refused" \in faults[u]
  BY <1>1, <1>2, UnderWay DEF AboutUpdate
<1>31. RequestsInv
  BY DEF BotInv
<1>32. ASSUME NEW ended \in {"words", "done"}, Proceed(c, ended, calls[c].read)
       PROVE  calls'[c].op = ended
  <2>1. calls'[c] = [op |-> ended, keys |-> calls[c].keys, read |-> calls[c].read]
    BY <1>3, <1>31, <1>32, ProceedRequest
  <2>2. QED  BY <2>1
<1>4. PICK op \in {"words", "done"} : Proceed(c, op, calls[c].read)
  BY DEF PhotoSent, PhotoRefused, WordsSent, Raised, Done, WordsNext
<1>5. /\ RequestsInv'
      /\ calls'[c] = [op |-> op, keys |-> calls[c].keys, read |-> calls[c].read]
      /\ \A d \in Client \ {c} : calls'[d] = calls[d]
  BY <1>3, <1>4, <1>31, ProceedRequest, SMTT(30)
<1>6. /\ replies \in [Update -> Nat] /\ faults = [v \in Update |-> faults[v]]
  BY DEF BotInv
<1>7. Moved(u, op)
  <2>1. CASE PhotoSent(c)
    <3>1. replies' = [replies EXCEPT ![u] = @ + 1] /\ faults' = faults
          /\ calls'[c].op = "done"
      BY <2>1, <1>2, <1>32 DEF PhotoSent, Reached, Done
    <3>2. op = "done"
      BY <3>1, <1>5
    <3>3. QED  BY <3>1, <3>2, <1>6 DEF Moved
  <2>2. CASE PhotoRefused(c)
    <3>1. replies' = replies /\ faults' = [faults EXCEPT ![u] = @ \cup {"photo_refused"}]
          /\ calls'[c].op = "words"
      BY <2>2, <1>2, <1>32 DEF PhotoRefused, Met, WordsNext
    <3>2. op = "words"
      BY <3>1, <1>5
    <3>3. QED  BY <3>1, <3>2, <1>6 DEF Moved
  <2>3. ASSUME NEW fine \in BOOLEAN, WordsSent(c, fine)
        PROVE  Moved(u, op)
    <3>1. /\ \/ replies' = [replies EXCEPT ![u] = @ + 1] /\ faults' = faults
             \/ replies' = replies /\ faults' = [faults EXCEPT ![u] = @ \cup {"words_refused"}]
          /\ calls'[c].op = "done" /\ calls[c].op = "words"
      BY <2>3, <1>2, <1>32 DEF WordsSent, Reached, Met, Done
    <3>2. op = "done" /\ "photo_refused" \in faults[u]
      BY <3>1, <1>3, <1>5
    <3>3. QED  BY <3>1, <3>2, <1>6 DEF Moved
  <2>4. ASSUME NEW arrived \in BOOLEAN, Raised(c, arrived)
        PROVE  Moved(u, op)
    <3>1. /\ replies' = [replies EXCEPT ![u] = @ + 1] \/ replies' = replies
          /\ faults' = [faults EXCEPT ![u] = @ \cup {"raised"}]
          /\ calls'[c].op = "done"
      BY <2>4, <1>2, <1>32 DEF Raised, Reached, Met, Done
    <3>2. op = "done"
      BY <3>1, <1>5
    <3>3. /\ faults' = [v \in Update |-> IF v = u THEN faults[u] \cup {"raised"} ELSE faults[v]]
          /\ \/ replies' = [v \in Update |-> IF v = u THEN replies[u] + 1 ELSE replies[v]]
             \/ replies' = replies
      BY <3>1, <1>6
    <3>4. "raised" \in faults'[u] /\ faults[u] \subseteq faults'[u]
      BY <3>3
    <3>5. /\ replies' \in [Update -> Nat] /\ faults' = [v \in Update |-> faults'[v]]
          /\ \A v \in Update : v # u => replies'[v] = replies[v] /\ faults'[v] = faults[v]
          /\ replies'[u] \in {replies[u], replies[u] + 1}
      BY <3>3, <1>6
    <3>6. QED  BY <3>2, <3>4, <3>5 DEF Moved
  <2>5. QED  BY <2>1, <2>2, <2>3, <2>4
<1>8. replies[u] \in Nat /\ replies'[u] \in Nat
  BY <1>6, <1>7 DEF Moved
<1>9. op = "words" => NothingSent(u)' /\ "photo_refused" \in faults'[u]
  BY <1>3, <1>7 DEF NothingSent, Moved
<1>10. op = "done" => AnswerOf(u)'
  BY <1>3, <1>7, <1>8 DEF NothingSent, AnswerOf, Moved
<1>11. AboutUpdate(c)'
  <2>1. /\ calls'[c].op = op /\ calls'[c].keys = {<<"update", u>>} /\ calls'[c].read.update = u
        /\ calls'[c] = [op |-> op, keys |-> {<<"update", u>>}, read |-> calls'[c].read]
    BY <1>2, <1>3, <1>5
  <2>2. QED  BY <2>1, <1>1, <1>9, <1>10 DEF AboutUpdate, NothingSent, AnswerOf
<1>12. calls'[c].keys = {<<"update", u>>}
  BY <1>3, <1>5
<1>13. QED  BY <1>1, <1>3, <1>5, <1>7, <1>11, <1>12, OneUpdate DEF Moved

\* A command is taken up, which no other request is about.
LEMMA HandleKeeps ==
  ASSUME BotInv, NEW c \in Client, NEW u \in Update, Handle(c, u)
  PROVE  BotInv'
<1>1. /\ u \in Update \ acked /\ \A d \in Client : <<"update", u>> \notin calls[d].keys
      /\ acked' = acked /\ replies' = replies /\ faults' = faults
      /\ calls[c].op = "idle"
  BY DEF Handle, chats, Begin, Waiting
<1>2. RequestsInv /\ NothingSent(u) /\ calls[c].keys = {}
      /\ replies \in [Update -> Nat] /\ faults = [v \in Update |-> faults[v]]
  BY <1>1 DEF BotInv, InFlight, AboutUpdate
<1>3. /\ RequestsInv'
      /\ calls'[c] = [op |-> "photo", keys |-> {<<"update", u>>},
                      read |-> [update |-> u, cached |-> banner]]
      /\ \A d \in Client \ {c} : calls'[d] = calls[d]
  <2>1. Begin(c, "photo", {<<"update", u>>}, [update |-> u, cached |-> banner])
    BY DEF Handle
  <2>2. RequestsInv
    BY <1>2
  <2>3. RequestsInv' /\ \A d \in Client \ {c} : calls'[d] = calls[d]
    BY ONLY <2>1, <2>2, BeginRequest
  <2>4. calls'[c] = [op |-> "photo", keys |-> {<<"update", u>>},
                     read |-> [update |-> u, cached |-> banner]]
    BY ONLY <2>1, <2>2, BeginRequest
  <2>5. QED  BY <2>3, <2>4
<1>4. /\ calls'[c].op = "photo" /\ calls'[c].keys = {<<"update", u>>}
      /\ calls'[c].read.update = u
      /\ calls'[c] = [op |-> calls'[c].op, keys |-> {<<"update", u>>}, read |-> calls'[c].read]
  BY <1>3
<1>5. AboutUpdate(c)'
  BY <1>1, <1>2, <1>4 DEF AboutUpdate, NothingSent
<1>6. QED  BY <1>1, <1>2, <1>3, <1>4, <1>5, OneUpdate

LEMMA AcknowledgeKeeps ==
  ASSUME BotInv, NEW c \in Client, Acknowledge(c)
  PROVE  BotInv'
<1>1. /\ calls[c].op = "done" /\ acked' = acked \cup {calls[c].read.update}
      /\ replies' = replies /\ faults' = faults
  BY DEF Acknowledge
<1>2. PICK u \in Update \ acked : u = calls[c].read.update
  BY <1>1, UnderWay
<1>3. /\ calls[c].keys = {<<"update", u>>} /\ AnswerOf(u)
      /\ \A d \in Client \ {c} : <<"update", u>> \notin calls[d].keys
  BY <1>1, <1>2, UnderWay DEF AboutUpdate
<1>4. RequestsInv /\ replies \in [Update -> Nat] /\ faults = [v \in Update |-> faults[v]]
  BY DEF BotInv
<1>5. /\ RequestsInv'
      /\ calls'[c] = [op |-> "idle", keys |-> {}, answer |-> Served]
      /\ \A d \in Client \ {c} : calls'[d] = calls[d]
  BY <1>4, AnswerRequest DEF Acknowledge
<1>6. calls'[c].op = "idle" /\ calls'[c].keys = {}
  BY <1>5
<1>7. AboutUpdate(c)'
  BY <1>6 DEF AboutUpdate
<1>8. AnswerOf(u)'
  BY <1>1, <1>3 DEF AnswerOf
<1>9. QED  BY <1>1, <1>2, <1>3, <1>4, <1>5, <1>6, <1>7, <1>8, OneUpdate

\* The worker that stops leaves its mark on what it was doing.
LEMMA RestartKeeps ==
  ASSUME BotInv, Restart
  PROVE  BotInv'
<1>1. /\ acked' = acked /\ replies' = replies
      /\ \A d \in Client : calls'[d].op = "idle" /\ calls'[d].keys = {}
      /\ calls' = [d \in Client |-> calls'[d]]
  BY DEF Restart, Idle
<1>2. /\ faults' = [u \in Update |-> faults'[u]]
      /\ \A u \in Update : faults'[u] = IF InFlight(u) THEN faults[u] \cup {"restart"} ELSE faults[u]
  BY DEF Restart, InFlight
<1>3. RequestsInv'
  BY <1>1 DEF RequestsInv
<1>4. \A d \in Client : AboutUpdate(d)'
  BY <1>1 DEF AboutUpdate
<1>5. ASSUME NEW u \in Update \ acked  PROVE NothingSent(u)'
  <2>1. CASE InFlight(u)
    BY <1>2, <2>1 DEF NothingSent
  <2>2. CASE ~InFlight(u)
    BY <1>1, <1>2, <2>2 DEF NothingSent, BotInv
  <2>3. QED  BY <2>1, <2>2
<1>6. ASSUME NEW u \in acked  PROVE AnswerOf(u)'
  <2>1. AnswerOf(u) /\ u \in Update
    BY DEF BotInv
  <2>2. faults[u] \subseteq faults'[u]
    BY <1>2, <2>1
  <2>3. QED  BY <1>1, <2>1, <2>2 DEF AnswerOf
<1>7. replies' \in [Update -> Nat] /\ acked' \subseteq Update
  BY <1>1 DEF BotInv
<1>8. \A d, e \in Client : d # e => calls'[d].keys \cap calls'[e].keys = {}
  BY <1>1
<1>9. \A u \in Update \ acked' : NothingSent(u)'
  BY <1>1, <1>5
<1>10. \A u \in acked' : AnswerOf(u)'
  BY <1>1, <1>6
<1>11. QED  BY <1>2, <1>3, <1>4, <1>7, <1>8, <1>9, <1>10 DEF BotInv

LEMMA BotAsItWas == ASSUME BotInv, calls' = calls, raced' = raced, acked' = acked,
                           replies' = replies, faults' = faults
                    PROVE  BotInv'
  BY DEF BotInv, RequestsInv, AboutUpdate, NothingSent, AnswerOf, InFlight

LEMMA BotStep ==
  ASSUME BotIsRight, [Next]_vars
  PROVE  BotIsRight'
<1>1. CASE UNCHANGED vars
  BY <1>1, BotAsItWas DEF BotIsRight, vars, requests, chats, BotInit
<1>2. CASE Next /\ area = "bot"
  <2>1. BotInv /\ area' = area /\ BotNext
    BY <1>2, StepOfArea DEF BotIsRight
  <2>2. BotInv'
    <3>1. CASE \E c \in Client, u \in Update : Handle(c, u)
      BY <2>1, <3>1, HandleKeeps
    <3>2. CASE \E c \in Client : \/ PhotoSent(c) \/ PhotoRefused(c)
                                 \/ \E fine \in BOOLEAN : WordsSent(c, fine)
                                 \/ \E arrived \in BOOLEAN : Raised(c, arrived)
      BY <2>1, <3>2, SendingKeeps
    <3>3. CASE \E c \in Client : Acknowledge(c)
      BY <2>1, <3>3, AcknowledgeKeeps
    <3>4. CASE Forget
      BY <2>1, <3>4, BotAsItWas DEF Forget, requests
    <3>5. CASE Restart
      BY <2>1, <3>5, RestartKeeps
    <3>6. QED  BY <2>1, <3>1, <3>2, <3>3, <3>4, <3>5 DEF BotNext
  <2>3. QED  BY <1>2, <2>1, <2>2 DEF BotIsRight
<1>3. CASE Next /\ area # "bot"
  <2>1. BotInit /\ area' = area /\ UNCHANGED chats
    BY <1>3, StepOfArea DEF BotIsRight
  <2>2. QED  BY <1>3, <2>1 DEF BotIsRight, BotInit, chats
<1>4. QED  BY <1>1, <1>2, <1>3

\* A command is answered once, whatever workers stop and whatever Telegram does
\* (BotService.handle, _send_banner, _send_text; the webhook): nothing reaches the chat
\* only when a call raised or both messages were refused, and more than one
\* message only when a worker stopped between sending and acknowledging.
THEOREM CommandsAnsweredOnce == Spec => []AnsweredOnce
<1>1. Init => BotIsRight
  BY BotInitially DEF BotIsRight
<1>2. BotIsRight => AnsweredOnce
  BY DEF BotIsRight, BotInv, BotInit, AnswerOf, AnsweredOnce
<1>3. QED  BY <1>1, <1>2, BotStep, PTL DEF Spec
-----------------------------------------------------------------------------
(* The inbox.                                                                *)

ThreadRow == [user : Guest, venue : Place, stay : Stay \cup {NoStay}, last : Nat]
MessageRow == [thread : Nat, side : {"user", "venue"}, sent : Nat, unread : BOOLEAN]
TieRow == [from : Guest, to : Guest, status : {"pending", "accepted", "blocked"}]

ThreadKey(t) == <<"thread", threads[t].user, threads[t].venue>>
TieKey(t) == <<"pair", {ties[t].from, ties[t].to}>>

\* A request that is about to open a thread for whom there is one already knows
\* of the other.
AboutThread(c) ==
    LET r == calls[c].read
        key == <<"thread", r.user, r.venue>>
    IN  /\ calls[c].op = "thread" =>
            /\ r \in ThreadRow /\ r.last = 0 /\ key \in calls[c].keys
            /\ (\E t \in DOMAIN threads : ThreadKey(t) = key) => key \in raced
        /\ calls[c].op = "stay" => r.thread \in DOMAIN threads /\ r.stay \in Stay

\* So does one whose message is not the latest any more.
AboutMessage(c) ==
    LET r == calls[c].read IN
        calls[c].op = "send" =>
            /\ r.thread \in DOMAIN threads /\ r.side \in {"user", "venue"}
            /\ r.sent \in Nat /\ r.sent <= begun
            /\ <<"messages", r.thread>> \in calls[c].keys
            /\ \A m \in DOMAIN messages :
                messages[m].thread = r.thread /\ messages[m].sent > r.sent =>
                    <<"messages", r.thread>> \in raced

AboutTie(c) ==
    LET r == calls[c].read
        key == <<"pair", {r.from, r.to}>>
    IN  calls[c].op = "befriend" =>
            /\ r.from \in Guest /\ r.to \in Guest /\ key \in calls[c].keys
            /\ (\E t \in DOMAIN ties : TieKey(t) = key) => key \in raced

About(c) == AboutThread(c) /\ AboutMessage(c) /\ AboutTie(c)

RowsOfInbox ==
    /\ threads \in Seq(ThreadRow) /\ messages \in Seq(MessageRow) /\ ties \in Seq(TieRow)
    /\ begun \in Nat
    /\ \A m \in DOMAIN messages : messages[m].thread \in DOMAIN threads /\ messages[m].sent <= begun

ForkedThreads ==
    \A t, u \in DOMAIN threads : t # u /\ ThreadKey(t) = ThreadKey(u) => ThreadKey(t) \in raced

ForkedTies ==
    \A t, u \in DOMAIN ties : t # u /\ TieKey(t) = TieKey(u) =>
        TieKey(t) \in raced /\ ties[t].from = ties[u].to

\* The thread shows the time of its latest message.
InTime(t) ==
    <<"messages", t>> \notin raced =>
        /\ \A m \in DOMAIN messages : messages[m].thread = t => messages[m].sent <= threads[t].last
        /\ \/ threads[t].last = 0
           \/ \E m \in DOMAIN messages : messages[m].thread = t /\ messages[m].sent = threads[t].last

InboxInv ==
    /\ RequestsInv /\ RowsOfInbox
    /\ \A c \in Client : About(c)
    /\ ForkedThreads /\ ForkedTies
    /\ \A t \in DOMAIN threads : InTime(t)

InboxIsRight == IF area = "inbox" THEN InboxInv ELSE InboxInit

LEMMA InboxInitially == Init => InboxInv /\ InboxInit
<1> SUFFICES ASSUME Init PROVE InboxInv
  BY DEF Init
<1>1. RequestsInv /\ begun \in Nat /\ \A c \in Client : calls[c].op = "idle"
  BY RequestsInitially DEF Init, RequestsInit, Idle
<1>2. threads = <<>> /\ messages = <<>> /\ ties = <<>>
  BY DEF Init, InboxInit
<1>3. RowsOfInbox
  BY <1>1, <1>2 DEF RowsOfInbox
<1>4. DOMAIN threads = {} /\ DOMAIN ties = {}
  BY <1>2
<1>5. QED  BY <1>1, <1>3, <1>4 DEF InboxInv, About, AboutThread, AboutMessage, AboutTie,
                                 ForkedThreads, ForkedTies

\* What the rows are.
LEMMA InboxRows ==
  ASSUME RowsOfInbox
  PROVE  /\ \A m \in DOMAIN messages : messages[m] \in MessageRow /\ messages[m].sent \in Nat
         /\ \A t \in DOMAIN threads : threads[t] \in ThreadRow /\ threads[t].last \in Nat
         /\ \A t \in DOMAIN ties : ties[t] \in TieRow
<1>1. /\ \A m \in DOMAIN messages : messages[m] \in MessageRow
      /\ \A t \in DOMAIN threads : threads[t] \in ThreadRow
      /\ \A t \in DOMAIN ties : ties[t] \in TieRow
  BY ElementOfSeq DEF RowsOfInbox
<1>2. QED  BY <1>1 DEF MessageRow, ThreadRow

\* What a request is about stays so when another writes: of what it is about,
\* nothing is new, or the two are known to have met.
LEMMA AboutStays ==
  ASSUME InboxInv, NEW d \in Client, calls'[d] = calls[d], raced \subseteq raced',
         begun' \in Nat, begun <= begun', DOMAIN threads \subseteq DOMAIN threads',
         \A t \in DOMAIN threads' : ThreadKey(t)' \in calls[d].keys =>
             ThreadKey(t)' \in raced' \/ \E s \in DOMAIN threads : ThreadKey(s) = ThreadKey(t)',
         \A t \in DOMAIN ties' : TieKey(t)' \in calls[d].keys =>
             TieKey(t)' \in raced' \/ \E s \in DOMAIN ties : TieKey(s) = TieKey(t)',
         \A m \in DOMAIN messages' : <<"messages", messages'[m].thread>> \in calls[d].keys =>
             \/ <<"messages", messages'[m].thread>> \in raced'
             \/ \E n \in DOMAIN messages : messages[n].thread = messages'[m].thread
                                           /\ messages[n].sent = messages'[m].sent
  PROVE  About(d)'
<1>1. AboutThread(d) /\ AboutMessage(d) /\ AboutTie(d)
  BY DEF InboxInv, About
<1>2. AboutThread(d)'
  BY <1>1 DEF AboutThread
<1>3. AboutMessage(d)'
  <2>1. CASE calls[d].op = "send"
    <3> DEFINE r == calls[d].read
    <3>1. r.sent \in Nat /\ r.sent <= begun /\ begun \in Nat
      BY <1>1, <2>1 DEF AboutMessage, InboxInv, RowsOfInbox
    <3>2. r.sent <= begun'
      BY <3>1
    <3>3. QED  BY <1>1, <2>1, <3>1, <3>2 DEF AboutMessage
  <2>2. QED  BY <2>1 DEF AboutMessage
<1>4. AboutTie(d)'
  BY <1>1 DEF AboutTie
<1>5. QED  BY <1>2, <1>3, <1>4 DEF About

\* The rows are as they were, and more is known of who met.
LEMMA RowsStay ==
  ASSUME InboxInv, UNCHANGED <<threads, messages, ties>>, raced \subseteq raced',
         begun' \in Nat, begun <= begun'
  PROVE  /\ RowsOfInbox' /\ ForkedThreads' /\ ForkedTies'
         /\ \A t \in DOMAIN threads' : InTime(t)'
<1>1. RowsOfInbox /\ ForkedThreads /\ ForkedTies /\ \A t \in DOMAIN threads : InTime(t)
  BY DEF InboxInv
<1>2. RowsOfInbox'
  <2>1. ASSUME NEW m \in DOMAIN messages  PROVE messages[m].sent <= begun'
    <3>1. messages[m].sent \in Nat /\ messages[m].sent <= begun /\ begun \in Nat
      BY <1>1, <2>1, InboxRows DEF RowsOfInbox
    <3>2. QED  BY <3>1
  <2>2. QED  BY <1>1, <2>1 DEF RowsOfInbox
<1>3. ForkedThreads'
  BY <1>1 DEF ForkedThreads, ThreadKey
<1>4. ForkedTies'
  BY <1>1 DEF ForkedTies, TieKey
<1>5. \A t \in DOMAIN threads' : InTime(t)'
  BY <1>1 DEF InTime
<1>6. QED  BY <1>2, <1>3, <1>4, <1>5

\* A request begins, or is answered by what it reads.
LEMMA InboxAsked ==
  ASSUME InboxInv, NEW c \in Client, NEW STATE op, NEW STATE keys, NEW STATE read,
         Begin(c, op, keys, read), UNCHANGED inbox, About(c)'
  PROVE  InboxInv'
<1>1. RequestsInv /\ begun \in Nat
  BY DEF InboxInv, RowsOfInbox
<1>2. /\ RequestsInv' /\ raced \subseteq raced'
      /\ \A d \in Client \ {c} : calls'[d] = calls[d]
  BY <1>1, BeginRequest
<1>3. begun' \in Nat /\ begun <= begun' /\ UNCHANGED <<threads, messages, ties>>
  BY <1>1 DEF Begin, inbox
<1>4. \A d \in Client \ {c} : About(d)'
  BY <1>2, <1>3, AboutStays DEF ThreadKey, TieKey
<1>5. QED  BY <1>2, <1>3, <1>4, RowsStay DEF InboxInv

LEMMA InboxAnswered ==
  ASSUME InboxInv, NEW c \in Client, NEW STATE answer,
         AnswerAtOnce(c, answer), UNCHANGED inbox
  PROVE  InboxInv'
<1>1. RequestsInv /\ begun \in Nat
  BY DEF InboxInv, RowsOfInbox
<1>2. /\ RequestsInv' /\ raced' = raced
      /\ calls'[c] = [op |-> "idle", keys |-> {}, answer |-> answer]
      /\ \A d \in Client \ {c} : calls'[d] = calls[d]
  BY <1>1, AnswerRequest
<1>3. begun' \in Nat /\ begun <= begun' /\ UNCHANGED <<threads, messages, ties>>
  BY <1>1 DEF AnswerAtOnce, inbox
<1>4. \A d \in Client \ {c} : About(d)'
  BY <1>2, <1>3, AboutStays DEF ThreadKey, TieKey
<1>5. About(c)'
  <2>1. calls'[c].op = "idle"
    BY <1>2
  <2>2. QED  BY <2>1 DEF About, AboutThread, AboutMessage, AboutTie
<1>6. QED  BY <1>2, <1>3, <1>4, <1>5, RowsStay DEF InboxInv

\* A request that writes is answered, and about nothing any more.
LEMMA InboxWritten ==
  ASSUME InboxInv, NEW c \in Client, NEW STATE answer,
         Answer(c, answer) \/ AnswerAtOnce(c, answer)
  PROVE  /\ RequestsInv' /\ raced' = raced /\ About(c)'
         /\ \A d \in Client \ {c} : calls'[d] = calls[d]
         /\ begun' \in Nat /\ begun <= begun'
<1>1. RequestsInv /\ begun \in Nat
  BY DEF InboxInv, RowsOfInbox
<1>2. /\ RequestsInv' /\ raced' = raced
      /\ calls'[c] = [op |-> "idle", keys |-> {}, answer |-> answer]
      /\ \A d \in Client \ {c} : calls'[d] = calls[d]
  BY <1>1, AnswerRequest
<1>3. begun' \in Nat /\ begun <= begun'
  BY <1>1 DEF AnswerAtOnce, Answer
<1>4. calls'[c].op = "idle"
  BY <1>2
<1>5. About(c)'
  BY <1>4 DEF About, AboutThread, AboutMessage, AboutTie
<1>6. QED  BY <1>2, <1>3, <1>5

\* A row is added at the end.
LEMMA Added ==
  ASSUME NEW S, NEW rows \in Seq(S), NEW row \in S, NEW more, more = Append(rows, row)
  PROVE  /\ more \in Seq(S) /\ Len(rows) \in Nat
         /\ DOMAIN more = DOMAIN rows \cup {Len(rows) + 1}
         /\ Len(rows) + 1 \notin DOMAIN rows
         /\ \A i \in DOMAIN rows : more[i] = rows[i]
         /\ more[Len(rows) + 1] = row
  BY AppendProperties

\* The conversation is created.
LEMMA InsertThreadKeeps ==
  ASSUME InboxInv, NEW c \in Client, InsertThread(c)
  PROVE  InboxInv'
<1>a. PICK row : row = calls[c].read
  OBVIOUS
<1>b. PICK n : n = Len(threads) + 1
  OBVIOUS
<1>c. PICK key : key = <<"thread", row.user, row.venue>>
  OBVIOUS
<1>1. /\ RequestsInv' /\ raced' = raced /\ About(c)'
      /\ \A d \in Client \ {c} : calls'[d] = calls[d]
      /\ begun' \in Nat /\ begun <= begun'
  BY InboxWritten DEF InsertThread
<1>2. /\ row \in ThreadRow /\ row.last = 0 /\ key \in calls[c].keys
      /\ (\E t \in DOMAIN threads : ThreadKey(t) = key) => key \in raced
  BY <1>a, <1>c DEF InsertThread, InboxInv, About, AboutThread
<1>3. RowsOfInbox /\ ForkedThreads /\ ForkedTies /\ \A t \in DOMAIN threads : InTime(t)
  BY DEF InboxInv
<1>4. messages' = messages /\ ties' = ties /\ threads' = Append(threads, row)
  BY <1>a DEF InsertThread
<1>5. /\ threads' \in Seq(ThreadRow) /\ DOMAIN threads' = DOMAIN threads \cup {n}
      /\ n \notin DOMAIN threads
      /\ \A t \in DOMAIN threads : threads'[t] = threads[t]
      /\ threads'[n] = row
  BY <1>b, <1>2, <1>3, <1>4, Added DEF RowsOfInbox
<1>6. RowsOfInbox'
  <2>1. ASSUME NEW m \in DOMAIN messages  PROVE messages[m].sent <= begun'
    <3>1. messages[m].sent \in Nat /\ messages[m].sent <= begun /\ begun \in Nat
      BY <1>3, <2>1, InboxRows DEF RowsOfInbox
    <3>2. QED  BY <1>1, <3>1
  <2>2. QED  BY <1>1, <1>3, <1>4, <1>5, <2>1 DEF RowsOfInbox
<1>7. ThreadKey(n)' = key /\ \A t \in DOMAIN threads : ThreadKey(t)' = ThreadKey(t)
  BY <1>c, <1>5 DEF ThreadKey
<1>8. ForkedThreads'
  BY <1>1, <1>2, <1>3, <1>5, <1>7 DEF ForkedThreads
<1>9. ForkedTies'
  <2>1. \A t \in DOMAIN ties : TieKey(t)' = TieKey(t)
    BY <1>4 DEF TieKey
  <2>2. QED  BY <1>1, <1>3, <1>4, <2>1 DEF ForkedTies
<1>10. \A t \in DOMAIN threads' : InTime(t)'
  <2>1. \A t \in DOMAIN threads : InTime(t)'
    BY <1>1, <1>3, <1>4, <1>5 DEF InTime
  <2>2. \A m \in DOMAIN messages : messages[m].thread # n
    BY <1>3, <1>5 DEF RowsOfInbox
  <2>3. threads'[n].last = 0
    BY <1>2, <1>5
  <2>4. InTime(n)'
    BY <1>4, <2>2, <2>3 DEF InTime
  <2>5. QED  BY <1>5, <2>1, <2>4
<1>11. ASSUME NEW d \in Client \ {c}  PROVE About(d)'
  <2>1. key \in calls[d].keys => key \in raced
    BY <1>2 DEF InboxInv, RequestsInv
  <2>2. \A t \in DOMAIN ties : TieKey(t)' = TieKey(t)
    BY <1>4 DEF TieKey
  <2>3. QED  BY <1>1, <1>4, <1>5, <1>7, <2>1, <2>2, AboutStays
<1>12. QED  BY <1>1, <1>6, <1>8, <1>9, <1>10, <1>11 DEF InboxInv

\* The booking is attached: who the conversation is between does not change.
LEMMA AttachStayKeeps ==
  ASSUME InboxInv, NEW c \in Client, AttachStay(c)
  PROVE  InboxInv'
<1> DEFINE n == calls[c].read.thread
           stay == calls[c].read.stay
           row == [threads[n] EXCEPT !.stay = stay]
<1>1. /\ RequestsInv' /\ raced' = raced /\ About(c)'
      /\ \A d \in Client \ {c} : calls'[d] = calls[d]
      /\ begun' \in Nat /\ begun <= begun'
  BY InboxWritten DEF AttachStay
<1>2. n \in DOMAIN threads /\ stay \in Stay
  BY DEF AttachStay, InboxInv, About, AboutThread
<1>3. RowsOfInbox /\ ForkedThreads /\ ForkedTies /\ \A t \in DOMAIN threads : InTime(t)
  BY DEF InboxInv
<1>4. messages' = messages /\ ties' = ties /\ threads' = [threads EXCEPT ![n] = row]
  BY DEF AttachStay
<1> HIDE DEF n, stay
<1>5. threads[n] \in ThreadRow
  BY <1>2, <1>3, InboxRows
<1>6. /\ row \in ThreadRow /\ row.user = threads[n].user /\ row.venue = threads[n].venue
      /\ row.last = threads[n].last
  BY <1>2, <1>5 DEF ThreadRow
<1> HIDE DEF row
<1>7. /\ threads' \in Seq(ThreadRow) /\ DOMAIN threads' = DOMAIN threads
      /\ \A t \in DOMAIN threads : threads'[t].user = threads[t].user
           /\ threads'[t].venue = threads[t].venue /\ threads'[t].last = threads[t].last
  <2>1. threads \in Seq(ThreadRow)
    BY <1>3 DEF RowsOfInbox
  <2>2. QED  BY <1>2, <1>4, <1>6, <2>1
<1>8. RowsOfInbox'
  <2>1. ASSUME NEW m \in DOMAIN messages  PROVE messages[m].sent <= begun'
    <3>1. messages[m].sent \in Nat /\ messages[m].sent <= begun /\ begun \in Nat
      BY <1>3, <2>1, InboxRows DEF RowsOfInbox
    <3>2. QED  BY <1>1, <3>1
  <2>2. QED  BY <1>1, <1>3, <1>4, <1>7, <2>1 DEF RowsOfInbox
<1>9. \A t \in DOMAIN threads : ThreadKey(t)' = ThreadKey(t)
  BY <1>7 DEF ThreadKey
<1>10. ForkedThreads'
  BY <1>1, <1>3, <1>7, <1>9 DEF ForkedThreads
<1>11. ForkedTies' /\ \A t \in DOMAIN ties : TieKey(t)' = TieKey(t)
  BY <1>1, <1>3, <1>4 DEF ForkedTies, TieKey
<1>12. \A t \in DOMAIN threads' : InTime(t)'
  BY <1>1, <1>3, <1>4, <1>7 DEF InTime
<1>13. \A d \in Client \ {c} : About(d)'
  BY <1>1, <1>4, <1>7, <1>9, <1>11, AboutStays
<1>14. QED  BY <1>1, <1>8, <1>10, <1>11, <1>12, <1>13 DEF InboxInv

\* The friendship is asked for; that the other way round may be there.
LEMMA InsertTieKeeps ==
  ASSUME InboxInv, NEW c \in Client, InsertTie(c)
  PROVE  InboxInv'
<1>a. PICK r : r = calls[c].read
  OBVIOUS
<1>b. PICK n : n = Len(ties) + 1
  OBVIOUS
<1>c. PICK key : key = <<"pair", {r.from, r.to}>>
  OBVIOUS
<1>1. /\ RequestsInv' /\ raced' = raced /\ About(c)'
      /\ \A d \in Client \ {c} : calls'[d] = calls[d]
      /\ begun' \in Nat /\ begun <= begun'
  BY InboxWritten DEF InsertTie
<1>2. /\ r.from \in Guest /\ r.to \in Guest /\ key \in calls[c].keys
      /\ (\E t \in DOMAIN ties : TieKey(t) = key) => key \in raced
  BY <1>a, <1>c DEF InsertTie, InboxInv, About, AboutTie
<1>3. RowsOfInbox /\ ForkedThreads /\ ForkedTies /\ \A t \in DOMAIN threads : InTime(t)
  BY DEF InboxInv
<1>4. messages' = messages /\ threads' = threads
  BY DEF InsertTie
<1>5. \A t \in DOMAIN threads : ThreadKey(t)' = ThreadKey(t)
  BY <1>4 DEF ThreadKey
<1>6. CASE ties' = ties
  <2>1. InboxInv'
    <3>1. \A d \in Client \ {c} : About(d)'
      <4>1. \A t \in DOMAIN ties : TieKey(t)' = TieKey(t)
        BY <1>6 DEF TieKey
      <4>2. QED  BY <1>1, <1>4, <1>5, <1>6, <4>1, AboutStays
    <3>2. QED  BY <1>1, <1>4, <1>6, <3>1, RowsStay DEF InboxInv
  <2>2. QED  BY <2>1
<1>7. CASE ties' # ties
  <2>a. PICK row : row = [from |-> r.from, to |-> r.to, status |-> "pending"]
    OBVIOUS
  <2>1. /\ ties' = Append(ties, row)
        /\ \A t \in DOMAIN ties : ~(ties[t].from = r.from /\ ties[t].to = r.to)
    BY <1>7, <1>a, <2>a DEF InsertTie, SameRequest
  <2>2. row \in TieRow /\ row.from = r.from /\ row.to = r.to
    BY <2>a, <1>2 DEF TieRow
  <2>3. /\ ties' \in Seq(TieRow) /\ DOMAIN ties' = DOMAIN ties \cup {n}
        /\ n \notin DOMAIN ties
        /\ \A t \in DOMAIN ties : ties'[t] = ties[t]
        /\ ties'[n] = row
    BY <1>b, <1>3, <2>1, <2>2, Added DEF RowsOfInbox
  <2>4. TieKey(n)' = key /\ \A t \in DOMAIN ties : TieKey(t)' = TieKey(t)
    BY <1>c, <2>2, <2>3 DEF TieKey
  <2>5. RowsOfInbox'
    <3>1. ASSUME NEW m \in DOMAIN messages  PROVE messages[m].sent <= begun'
      <4>1. messages[m].sent \in Nat /\ messages[m].sent <= begun /\ begun \in Nat
        BY <1>3, <3>1, InboxRows DEF RowsOfInbox
      <4>2. QED  BY <1>1, <4>1
    <3>2. QED  BY <1>1, <1>3, <1>4, <2>3, <3>1 DEF RowsOfInbox
  <2>6. ForkedThreads'
    BY <1>1, <1>3, <1>4, <1>5 DEF ForkedThreads
  <2>7. ForkedTies'
    <3>1. ASSUME NEW t \in DOMAIN ties, TieKey(t) = key
          PROVE  key \in raced /\ ties[t].from = r.to /\ ties[t].to = r.from
      <4>1. {ties[t].from, ties[t].to} = {r.from, r.to}
        BY <1>c, <3>1 DEF TieKey
      <4>2. QED  BY <1>2, <2>1, <3>1, <4>1
    <3>2. ASSUME NEW t \in DOMAIN ties', NEW u \in DOMAIN ties', t # u, TieKey(t)' = TieKey(u)'
          PROVE  TieKey(t)' \in raced' /\ ties'[t].from = ties'[u].to
      <4>1. CASE t = n
        BY <1>1, <2>2, <2>3, <2>4, <3>1, <3>2, <4>1
      <4>2. CASE u = n
        BY <1>1, <2>2, <2>3, <2>4, <3>1, <3>2, <4>2
      <4>3. CASE t # n /\ u # n
        BY <1>1, <1>3, <2>3, <2>4, <3>2, <4>3 DEF ForkedTies
      <4>4. QED  BY <4>1, <4>2, <4>3
    <3>3. QED  BY <3>2 DEF ForkedTies
  <2>8. \A t \in DOMAIN threads' : InTime(t)'
    BY <1>1, <1>3, <1>4 DEF InTime
  <2>9. ASSUME NEW d \in Client \ {c}  PROVE About(d)'
    <3>1. key \in calls[d].keys => key \in raced
      BY <1>2 DEF InboxInv, RequestsInv
    <3>2. QED  BY <1>1, <1>4, <1>5, <2>3, <2>4, <3>1, AboutStays
  <2>10. QED  BY <1>1, <2>5, <2>6, <2>7, <2>8, <2>9 DEF InboxInv
<1>8. QED  BY <1>6, <1>7

\* The message is there, and the conversation shows its time.
LEMMA DeliverKeeps ==
  ASSUME InboxInv, NEW c \in Client, Deliver(c)
  PROVE  InboxInv'
<1>a. PICK r : r = calls[c].read
  OBVIOUS
<1>b. PICK n : n = Len(messages) + 1
  OBVIOUS
<1>c. PICK row : row = [thread |-> r.thread, side |-> r.side, sent |-> r.sent, unread |-> TRUE]
  OBVIOUS
<1>d. PICK k : k = r.thread
  OBVIOUS
<1>1. /\ RequestsInv' /\ raced' = raced /\ About(c)'
      /\ \A d \in Client \ {c} : calls'[d] = calls[d]
      /\ begun' \in Nat /\ begun <= begun' /\ begun' = begun
  BY InboxWritten DEF Deliver, Answer
<1>2. /\ k \in DOMAIN threads /\ r.side \in {"user", "venue"}
      /\ r.sent \in Nat /\ r.sent <= begun /\ <<"messages", k>> \in calls[c].keys
      /\ \A m \in DOMAIN messages :
            messages[m].thread = k /\ messages[m].sent > r.sent => <<"messages", k>> \in raced
  BY <1>a, <1>d DEF Deliver, InboxInv, About, AboutMessage
<1>3. RowsOfInbox /\ ForkedThreads /\ ForkedTies /\ \A t \in DOMAIN threads : InTime(t)
  BY DEF InboxInv
<1>e. PICK shown : shown = [threads[k] EXCEPT !.last = r.sent]
  OBVIOUS
<1>4. /\ messages' = Append(messages, row) /\ ties' = ties
      /\ threads' = [threads EXCEPT ![k] = shown]
  BY <1>a, <1>c, <1>d, <1>e DEF Deliver, Stamp
<1>5. threads[k] \in ThreadRow /\ DOMAIN threads = 1 .. Len(threads) /\ Len(threads) \in Nat
  BY <1>2, <1>3, InboxRows DEF RowsOfInbox
<1>6. /\ shown \in ThreadRow /\ shown.user = threads[k].user /\ shown.venue = threads[k].venue
      /\ shown.last = r.sent
  BY <1>e, <1>2, <1>5 DEF ThreadRow
<1>7. row \in MessageRow /\ row.thread = k /\ row.sent = r.sent
  BY <1>c, <1>d, <1>2, <1>5 DEF MessageRow
<1>8. /\ threads' \in Seq(ThreadRow) /\ DOMAIN threads' = DOMAIN threads
      /\ threads'[k] = shown
      /\ \A t \in DOMAIN threads : t # k => threads'[t] = threads[t]
  <2>1. threads \in Seq(ThreadRow)
    BY <1>3 DEF RowsOfInbox
  <2>2. QED  BY <1>2, <1>4, <1>6, <2>1
<1>9. /\ messages' \in Seq(MessageRow) /\ DOMAIN messages' = DOMAIN messages \cup {n}
      /\ n \notin DOMAIN messages
      /\ \A m \in DOMAIN messages : messages'[m] = messages[m]
      /\ messages'[n] = row
  BY <1>b, <1>3, <1>4, <1>7, Added DEF RowsOfInbox
<1>10. RowsOfInbox'
  <2>1. \A m \in DOMAIN messages' : messages'[m].thread \in DOMAIN threads'
                                    /\ messages'[m].sent <= begun'
    BY <1>1, <1>2, <1>3, <1>7, <1>8, <1>9 DEF RowsOfInbox
  <2>2. QED  BY <1>1, <1>3, <1>4, <1>8, <1>9, <2>1 DEF RowsOfInbox
<1>11. \A t \in DOMAIN threads : ThreadKey(t)' = ThreadKey(t)
  BY <1>6, <1>8 DEF ThreadKey
<1>12. \A t \in DOMAIN ties : TieKey(t)' = TieKey(t)
  BY <1>4 DEF TieKey
<1>13. ForkedThreads' /\ ForkedTies'
  BY <1>1, <1>3, <1>4, <1>8, <1>11, <1>12 DEF ForkedThreads, ForkedTies
<1>14. ASSUME NEW t \in DOMAIN threads'  PROVE InTime(t)'
  <2>1. CASE t # k
    BY <1>1, <1>3, <1>7, <1>8, <1>9, <2>1 DEF InTime
  <2>2. CASE t = k
    <3>1. threads'[k].last = r.sent /\ messages'[n].thread = k /\ messages'[n].sent = r.sent
      BY <1>6, <1>7, <1>8, <1>9
    <3>2. ASSUME <<"messages", k>> \notin raced, NEW m \in DOMAIN messages', messages'[m].thread = k
          PROVE  messages'[m].sent <= r.sent
      <4>1. CASE m = n
        BY <1>2, <3>1, <4>1
      <4>2. CASE m \in DOMAIN messages
        <5>1. messages[m].sent \in Nat /\ messages'[m] = messages[m]
          BY <1>3, <1>9, <4>2, InboxRows
        <5>2. ~(messages[m].sent > r.sent)
          BY <1>2, <3>2, <4>2, <5>1
        <5>3. QED  BY <1>2, <5>1, <5>2
      <4>3. QED  BY <1>9, <3>2, <4>1, <4>2
    <3>3. QED  BY <1>1, <1>9, <2>2, <3>1, <3>2 DEF InTime
  <2>3. QED  BY <2>1, <2>2
<1>15. ASSUME NEW d \in Client \ {c}  PROVE About(d)'
  <2>1. <<"messages", k>> \in calls[d].keys => <<"messages", k>> \in raced
    BY <1>2 DEF InboxInv, RequestsInv
  <2>2. \A m \in DOMAIN messages' : <<"messages", messages'[m].thread>> \in calls[d].keys =>
             \/ <<"messages", messages'[m].thread>> \in raced'
             \/ \E i \in DOMAIN messages : messages[i].thread = messages'[m].thread
                                           /\ messages[i].sent = messages'[m].sent
    BY <1>1, <1>7, <1>9, <2>1
  <2>3. QED  BY <1>1, <1>4, <1>8, <1>11, <1>12, <2>2, AboutStays
<1>16. QED  BY <1>1, <1>10, <1>13, <1>14, <1>15 DEF InboxInv

\* Reading a thread takes the mark off messages, and nothing else.
LEMMA MarkReadKeeps ==
  ASSUME InboxInv, NEW c \in Client, NEW k \in DOMAIN threads, NEW side, MarkRead(c, k, side)
  PROVE  InboxInv'
<1>1. /\ RequestsInv' /\ raced' = raced /\ About(c)'
      /\ \A d \in Client \ {c} : calls'[d] = calls[d]
      /\ begun' \in Nat /\ begun <= begun'
  BY InboxWritten DEF MarkRead
<1>2. RowsOfInbox /\ ForkedThreads /\ ForkedTies /\ \A t \in DOMAIN threads : InTime(t)
  BY DEF InboxInv
<1>3. /\ threads' = threads /\ ties' = ties
      /\ messages' = [m \in DOMAIN messages |->
             IF messages[m].thread = k /\ messages[m].side # side
             THEN [messages[m] EXCEPT !.unread = FALSE] ELSE messages[m]]
  BY DEF MarkRead
<1>4. ASSUME NEW m \in DOMAIN messages
      PROVE  /\ messages'[m] \in MessageRow
             /\ messages'[m].thread = messages[m].thread /\ messages'[m].sent = messages[m].sent
  <2>1. messages[m] \in MessageRow
    BY <1>2, InboxRows
  <2>2. /\ [messages[m] EXCEPT !.unread = FALSE] \in MessageRow
        /\ [messages[m] EXCEPT !.unread = FALSE].thread = messages[m].thread
        /\ [messages[m] EXCEPT !.unread = FALSE].sent = messages[m].sent
    BY <2>1 DEF MessageRow
  <2>3. QED  BY <1>3, <2>1, <2>2
<1>5. messages' \in Seq(MessageRow) /\ DOMAIN messages' = DOMAIN messages
  <2>1. DOMAIN messages = 1 .. Len(messages) /\ Len(messages) \in Nat
    BY <1>2 DEF RowsOfInbox
  <2>2. /\ messages' = [m \in 1 .. Len(messages) |-> messages'[m]]
        /\ \A m \in 1 .. Len(messages) : messages'[m] \in MessageRow
    BY <1>3, <1>4, <2>1
  <2>3. QED  BY <2>1, <2>2
<1>6. RowsOfInbox'
  <2>1. \A m \in DOMAIN messages' : messages'[m].thread \in DOMAIN threads'
                                    /\ messages'[m].sent <= begun'
    <3>1. ASSUME NEW m \in DOMAIN messages  PROVE messages[m].sent <= begun'
      <4>1. messages[m].sent \in Nat /\ messages[m].sent <= begun /\ begun \in Nat
        BY <1>2, <3>1, InboxRows DEF RowsOfInbox
      <4>2. QED  BY <1>1, <4>1
    <3>2. QED  BY <1>2, <1>3, <1>4, <1>5, <3>1 DEF RowsOfInbox
  <2>2. QED  BY <1>1, <1>2, <1>3, <1>5, <2>1 DEF RowsOfInbox
<1>7. /\ \A t \in DOMAIN threads : ThreadKey(t)' = ThreadKey(t)
      /\ \A t \in DOMAIN ties : TieKey(t)' = TieKey(t)
  BY <1>3 DEF ThreadKey, TieKey
<1>8. ForkedThreads' /\ ForkedTies'
  BY <1>1, <1>2, <1>3, <1>7 DEF ForkedThreads, ForkedTies
<1>9. \A t \in DOMAIN threads' : InTime(t)'
  BY <1>1, <1>2, <1>3, <1>4, <1>5 DEF InTime
<1>10. \A d \in Client \ {c} : About(d)'
  BY <1>1, <1>3, <1>4, <1>5, <1>7, AboutStays
<1>11. QED  BY <1>1, <1>6, <1>8, <1>9, <1>10 DEF InboxInv

\* The answer to a request for friendship changes neither of the two.
LEMMA RespondKeeps ==
  ASSUME InboxInv, NEW c \in Client, NEW k \in DOMAIN ties, NEW accept \in BOOLEAN,
         Respond(c, k, accept)
  PROVE  InboxInv'
<1>a. PICK row : row = [ties[k] EXCEPT !.status = IF accept THEN "accepted" ELSE "blocked"]
  OBVIOUS
<1>1. /\ RequestsInv' /\ raced' = raced /\ About(c)'
      /\ \A d \in Client \ {c} : calls'[d] = calls[d]
      /\ begun' \in Nat /\ begun <= begun'
  BY InboxWritten DEF Respond
<1>2. RowsOfInbox /\ ForkedThreads /\ ForkedTies /\ \A t \in DOMAIN threads : InTime(t)
  BY DEF InboxInv
<1>3. threads' = threads /\ messages' = messages /\ ties' = [ties EXCEPT ![k] = row]
  BY <1>a DEF Respond
<1>4. ties[k] \in TieRow
  BY <1>2, InboxRows
<1>5. row \in TieRow /\ row.from = ties[k].from /\ row.to = ties[k].to
  BY <1>a, <1>4 DEF TieRow
<1>6. /\ ties' \in Seq(TieRow) /\ DOMAIN ties' = DOMAIN ties
      /\ \A t \in DOMAIN ties : ties'[t].from = ties[t].from /\ ties'[t].to = ties[t].to
  <2>1. ties \in Seq(TieRow)
    BY <1>2 DEF RowsOfInbox
  <2>2. QED  BY <1>3, <1>5, <2>1
<1>7. RowsOfInbox'
  <2>1. ASSUME NEW m \in DOMAIN messages  PROVE messages[m].sent <= begun'
    <3>1. messages[m].sent \in Nat /\ messages[m].sent <= begun /\ begun \in Nat
      BY <1>2, <2>1, InboxRows DEF RowsOfInbox
    <3>2. QED  BY <1>1, <3>1
  <2>2. QED  BY <1>1, <1>2, <1>3, <1>6, <2>1 DEF RowsOfInbox
<1>8. /\ \A t \in DOMAIN threads : ThreadKey(t)' = ThreadKey(t)
      /\ \A t \in DOMAIN ties : TieKey(t)' = TieKey(t)
  BY <1>3, <1>6 DEF ThreadKey, TieKey
<1>9. ForkedThreads' /\ ForkedTies'
  BY <1>1, <1>2, <1>3, <1>6, <1>8 DEF ForkedThreads, ForkedTies
<1>10. \A t \in DOMAIN threads' : InTime(t)'
  BY <1>1, <1>2, <1>3 DEF InTime
<1>11. \A d \in Client \ {c} : About(d)'
  BY <1>1, <1>3, <1>6, <1>8, AboutStays
<1>12. QED  BY <1>1, <1>7, <1>9, <1>10, <1>11 DEF InboxInv

\* A favourite is no row that the invariant is about.
LEMMA ToggledKeeps ==
  ASSUME InboxInv, NEW c \in Client, Toggled(c)
  PROVE  InboxInv'
<1>1. PICK answer \in {Served, Refused("invalid", calls[c].read.of)} : Answer(c, answer)
  BY DEF Toggled
<1>2. /\ RequestsInv' /\ raced' = raced /\ About(c)'
      /\ \A d \in Client \ {c} : calls'[d] = calls[d]
      /\ begun' \in Nat /\ begun <= begun'
  BY <1>1, InboxWritten
<1>3. UNCHANGED <<threads, messages, ties>>
  BY DEF Toggled
<1>4. \A d \in Client \ {c} : About(d)'
  BY <1>2, <1>3, AboutStays DEF ThreadKey, TieKey
<1>5. QED  BY <1>2, <1>3, <1>4, RowsStay DEF InboxInv

\* A request for the conversation begins when there is none.
LEMMA OpenThreadKeeps ==
  ASSUME InboxInv, NEW c \in Client, NEW u \in Guest, NEW v \in Place,
         NEW stay \in Stay \cup {NoStay}, OpenThread(c, u, v, stay)
  PROVE  InboxInv'
<1>b. PICK keys : keys = {<<"thread", u, v>>}
  OBVIOUS
<1>1. UNCHANGED inbox /\ RequestsInv
  BY DEF OpenThread, InboxInv
<1>2. CASE \E answer : AnswerAtOnce(c, answer)
  BY <1>1, <1>2, InboxAnswered
<1>3. CASE \E given \in ThreadRow : /\ given.user = u /\ given.venue = v /\ given.last = 0
                                    /\ Begin(c, "thread", keys, given) /\ ThreadsOf(u, v) = {}
  <2>1. PICK given \in ThreadRow : /\ given.user = u /\ given.venue = v /\ given.last = 0
                                   /\ Begin(c, "thread", keys, given) /\ ThreadsOf(u, v) = {}
    BY <1>3
  <2>2. calls'[c] = [op |-> "thread", keys |-> keys, read |-> given]
    BY <1>1, <2>1, BeginRequest
  <2>3. calls'[c].op = "thread" /\ calls'[c].keys = keys /\ calls'[c].read = given
    BY <2>2
  <2>4. \A t \in DOMAIN threads : ThreadKey(t)' # <<"thread", u, v>>
    BY <1>1, <2>1 DEF ThreadsOf, ThreadKey, inbox
  <2>5. About(c)'
    BY <1>b, <1>1, <2>1, <2>3, <2>4 DEF About, AboutThread, AboutMessage, AboutTie, inbox
  <2>6. QED  BY <1>1, <2>1, <2>5, InboxAsked
<1>4. CASE \E t \in DOMAIN threads : stay # NoStay
              /\ Begin(c, "stay", keys, [thread |-> t, stay |-> stay])
  <2>1. PICK t \in DOMAIN threads : stay # NoStay
              /\ Begin(c, "stay", keys, [thread |-> t, stay |-> stay])
    BY <1>4
  <2>a. PICK given : given = [thread |-> t, stay |-> stay]
    OBVIOUS
  <2>2. Begin(c, "stay", keys, given) /\ given.thread = t /\ given.stay = stay
    BY <2>1, <2>a
  <2>3. calls'[c] = [op |-> "stay", keys |-> keys, read |-> given]
    BY <1>1, <2>2, BeginRequest
  <2>4. calls'[c].op = "stay" /\ calls'[c].keys = keys /\ calls'[c].read = given
    BY <2>3
  <2>5. About(c)'
    BY <1>1, <2>1, <2>2, <2>4 DEF About, AboutThread, AboutMessage, AboutTie, inbox
  <2>6. QED  BY <1>1, <2>2, <2>5, InboxAsked
<1>5. [user |-> u, venue |-> v, stay |-> stay, last |-> 0] \in ThreadRow
  BY DEF ThreadRow
<1>6. (\E answer : AnswerAtOnce(c, answer))
      \/ (ThreadsOf(u, v) = {}
          /\ Begin(c, "thread", keys, [user |-> u, venue |-> v, stay |-> stay, last |-> 0]))
      \/ \E t \in DOMAIN threads : stay # NoStay
              /\ Begin(c, "stay", keys, [thread |-> t, stay |-> stay])
  BY <1>b DEF OpenThread, ThreadsOf
<1>7. QED  BY <1>2, <1>3, <1>4, <1>5, <1>6

LEMMA BefriendKeeps ==
  ASSUME InboxInv, NEW c \in Client, NEW u \in Guest, NEW w \in Guest \ {u}, Befriend(c, u, w)
  PROVE  InboxInv'
<1>a. PICK given : given = [from |-> u, to |-> w]
  OBVIOUS
<1>b. PICK keys : keys = {<<"pair", {u, w}>>}
  OBVIOUS
<1>1. UNCHANGED inbox /\ RequestsInv
  BY DEF Befriend, InboxInv
<1>2. CASE \E answer : AnswerAtOnce(c, answer)
  BY <1>1, <1>2, InboxAnswered
<1>3. CASE TiesOf({u, w}) = {} /\ Begin(c, "befriend", keys, given)
  <2>1. calls'[c] = [op |-> "befriend", keys |-> keys, read |-> given]
    BY <1>1, <1>3, BeginRequest
  <2>2. calls'[c].op = "befriend" /\ calls'[c].keys = keys /\ calls'[c].read = given
    BY <2>1
  <2>3. given.from = u /\ given.to = w
    BY <1>a
  <2>4. \A t \in DOMAIN ties : TieKey(t)' # <<"pair", {u, w}>>
    BY <1>1, <1>3 DEF TiesOf, TieKey, inbox
  <2>5. About(c)'
    BY <1>b, <1>1, <2>2, <2>3, <2>4 DEF About, AboutThread, AboutMessage, AboutTie, inbox
  <2>6. QED  BY <1>1, <1>3, <2>5, InboxAsked
<1>4. QED  BY <1>a, <1>b, <1>2, <1>3 DEF Befriend

\* A message is later than all there are.
LEMMA SendKeeps ==
  ASSUME InboxInv, NEW c \in Client, NEW k \in DOMAIN threads, NEW side \in {"user", "venue"},
         Send(c, k, side)
  PROVE  InboxInv'
<1>a. PICK now : now = begun + 1
  OBVIOUS
<1>b. PICK given : given = [thread |-> k, side |-> side, sent |-> now]
  OBVIOUS
<1>c. PICK keys : keys = {<<"messages", k>>}
  OBVIOUS
<1>1. /\ UNCHANGED inbox /\ RequestsInv /\ RowsOfInbox /\ Begin(c, "send", keys, given)
  BY <1>a, <1>b, <1>c DEF Send, InboxInv
<1>2. calls'[c] = [op |-> "send", keys |-> keys, read |-> given]
  BY <1>1, BeginRequest
<1>3. calls'[c].op = "send" /\ calls'[c].keys = keys /\ calls'[c].read = given
  BY <1>2
<1>4. given.thread = k /\ given.side = side /\ given.sent = now
  BY <1>b
<1>5. begun' = now /\ now \in Nat
  BY <1>a, <1>1 DEF Begin, RowsOfInbox
<1>6. ASSUME NEW m \in DOMAIN messages  PROVE ~(messages'[m].sent > now)
  <2>1. messages[m].sent \in Nat /\ messages[m].sent <= begun /\ begun \in Nat
    BY <1>1, InboxRows DEF RowsOfInbox
  <2>2. QED  BY <1>a, <1>1, <2>1 DEF inbox
<1>7. About(c)'
  BY <1>c, <1>1, <1>3, <1>4, <1>5, <1>6 DEF About, AboutThread, AboutMessage, AboutTie, inbox
<1>8. QED  BY <1>1, <1>7, InboxAsked

LEMMA ToggleKeeps ==
  ASSUME InboxInv, NEW c \in Client, NEW u, NEW v, Toggle(c, u, v)
  PROVE  InboxInv'
<1>1. PICK keys, given : Begin(c, "toggle", keys, given) /\ UNCHANGED inbox
  BY DEF Toggle
<1>2. calls'[c] = [op |-> "toggle", keys |-> keys, read |-> given]
  BY <1>1, BeginRequest DEF InboxInv
<1>3. calls'[c].op = "toggle"
  BY <1>2
<1>4. About(c)'
  BY <1>3 DEF About, AboutThread, AboutMessage, AboutTie
<1>5. QED  BY <1>1, <1>4, InboxAsked

LEMMA InboxAsItWas ==
  ASSUME InboxInv, UNCHANGED <<requests, threads, messages, ties>>
  PROVE  InboxInv'
<1>1. begun' \in Nat /\ begun <= begun' /\ raced' = raced /\ calls' = calls
      /\ UNCHANGED <<threads, messages, ties>>
  BY DEF InboxInv, RowsOfInbox, requests
<1>2. RequestsInv'
  BY <1>1 DEF InboxInv, RequestsInv
<1>3. \A d \in Client : About(d)'
  BY <1>1, AboutStays DEF ThreadKey, TieKey
<1>4. QED  BY <1>1, <1>2, <1>3, RowsStay DEF InboxInv

LEMMA InboxStep ==
  ASSUME InboxIsRight, [Next]_vars
  PROVE  InboxIsRight'
<1>1. CASE UNCHANGED vars
  <2>1. area' = area /\ UNCHANGED <<requests, threads, messages, ties>> /\ UNCHANGED inbox
    BY <1>1 DEF vars, inbox
  <2>2. QED  BY <2>1, InboxAsItWas DEF InboxIsRight, InboxInit, inbox
<1>2. CASE Next /\ area = "inbox"
  <2>1. InboxInv /\ area' = area /\ InboxNext
    BY <1>2, StepOfArea DEF InboxIsRight
  <2>2. PICK c \in Client :
          \/ \E u \in Guest, v \in Place : \/ Toggle(c, u, v)
                                           \/ \E stay \in Stay \cup {NoStay} : OpenThread(c, u, v, stay)
          \/ \E t \in DOMAIN threads, side \in {"user", "venue"} : Send(c, t, side) \/ MarkRead(c, t, side)
          \/ \E u \in Guest : \E w \in Guest \ {u} : Befriend(c, u, w)
          \/ \E t \in DOMAIN ties, accept \in BOOLEAN : Respond(c, t, accept)
          \/ InsertThread(c) \/ AttachStay(c) \/ Deliver(c) \/ Toggled(c) \/ InsertTie(c)
    BY <2>1 DEF InboxNext
  <2>3. InboxInv'
    <3>1. CASE \E u \in Guest, v \in Place : \/ Toggle(c, u, v)
                                             \/ \E stay \in Stay \cup {NoStay} : OpenThread(c, u, v, stay)
      BY <2>1, <3>1, ToggleKeeps, OpenThreadKeeps
    <3>2. CASE \E t \in DOMAIN threads, side \in {"user", "venue"} : Send(c, t, side) \/ MarkRead(c, t, side)
      BY <2>1, <3>2, SendKeeps, MarkReadKeeps
    <3>3. CASE \E u \in Guest : \E w \in Guest \ {u} : Befriend(c, u, w)
      BY <2>1, <3>3, BefriendKeeps
    <3>4. CASE \E t \in DOMAIN ties, accept \in BOOLEAN : Respond(c, t, accept)
      BY <2>1, <3>4, RespondKeeps
    <3>5. CASE InsertThread(c) \/ AttachStay(c) \/ Deliver(c) \/ Toggled(c) \/ InsertTie(c)
      BY <2>1, <3>5, InsertThreadKeeps, AttachStayKeeps, DeliverKeeps, ToggledKeeps, InsertTieKeeps
    <3>6. QED  BY <2>2, <3>1, <3>2, <3>3, <3>4, <3>5
  <2>4. QED  BY <1>2, <2>1, <2>3 DEF InboxIsRight
<1>3. CASE Next /\ area # "inbox"
  <2>1. InboxInit /\ area' = area /\ UNCHANGED inbox
    BY <1>3, StepOfArea DEF InboxIsRight
  <2>2. QED  BY <1>3, <2>1 DEF InboxIsRight, InboxInit, inbox
<1>4. QED  BY <1>1, <1>2, <1>3

LEMMA InboxFollows ==
  ASSUME InboxIsRight
  PROVE  ForkedOnlyByARace /\ InboxKeepsUp
<1>1. CASE area = "inbox"
  <2>1. InboxInv
    BY <1>1 DEF InboxIsRight
  <2>2. ForkedOnlyByARace
    BY <2>1 DEF InboxInv, ForkedThreads, ForkedTies, ThreadKey, TieKey, ForkedOnlyByARace
  <2>3. ASSUME NEW t \in DOMAIN threads, <<"messages", t>> \notin raced,
               NEW times, times = {messages[m].sent : m \in {k \in DOMAIN messages : messages[k].thread = t}}
        PROVE  (\A n \in times : n <= threads[t].last) /\ threads[t].last \in times \cup {0}
    BY <2>1, <2>3 DEF InboxInv, InTime
  <2>4. InboxKeepsUp
    BY <2>3 DEF InboxKeepsUp
  <2>5. QED  BY <2>2, <2>4
<1>2. CASE area # "inbox"
  <2>1. DOMAIN threads = {} /\ DOMAIN ties = {}
    BY <1>2 DEF InboxIsRight, InboxInit
  <2>2. QED  BY <2>1 DEF ForkedOnlyByARace, InboxKeepsUp
<1>3. QED  BY <1>1, <1>2

\* Two conversations of one user and venue are there only when two requests for
\* it overlapped (ConversationRepository.get_or_create has no constraint behind it), and
\* two friendships of two people only when each asked the other at the same time
\* (FriendshipService.request: the unique pair is ordered).
THEOREM ForkedThreadsRaced == Spec => []ForkedOnlyByARace
<1>1. Init => InboxIsRight
  BY InboxInitially DEF InboxIsRight
<1>2. QED  BY <1>1, InboxStep, InboxFollows, PTL DEF Spec

\* A conversation shows the time of its latest message, so that the inbox cannot
\* lag behind it, unless two messages of the conversation were being sent at the
\* same time (ConversationService.send takes the time before it writes).
THEOREM ConversationsKeepUp == Spec => []InboxKeepsUp
<1>1. Init => InboxIsRight
  BY InboxInitially DEF InboxIsRight
<1>2. QED  BY <1>1, InboxStep, InboxFollows, PTL DEF Spec
-----------------------------------------------------------------------------
(* Reviews.                                                                   *)

ReviewRow == [visit : DOMAIN Visits, mark : Marks, published : BOOLEAN, words : BOOLEAN]

ReviewsTyped ==
    /\ reviews \in Seq(ReviewRow)
    /\ scores = [v \in Reviewed |-> scores[v]]
    /\ \A r, s \in DOMAIN reviews : reviews[r].visit = reviews[s].visit => r = s

RatingsTrue == \A v \in Reviewed : <<"score", v>> \notin raced => scores[v] = Score(Published(v))

WordsGone ==
    \A r \in DOMAIN reviews :
        AuthorOf(r) \in departed /\ <<"guest", AuthorOf(r)>> \notin raced => ~reviews[r].words

\* What a request in flight has read, which holds as long as no other one is
\* about the same guest or the same rating.
AboutReview(c) ==
    LET x == calls[c].read IN
        /\ calls[c].op = "review" =>
            /\ x \in ReviewRow /\ ~x.published
            /\ <<"guest", Visits[x.visit].guest>> \in calls[c].keys
            /\ Visits[x.visit].guest \in departed => <<"guest", Visits[x.visit].guest>> \in raced
        /\ calls[c].op = "publish" =>
            /\ x.review \in DOMAIN reviews
            /\ <<"score", BranchOf(x.review)>> \in calls[c].keys
            /\ <<"score", BranchOf(x.review)>> \notin raced => x.score = Score(Counted(x.review))
        /\ calls[c].op = "depart" =>
            /\ <<"guest", x.guest>> \in calls[c].keys /\ x.guest \in GuestsOfVisits
            /\ <<"guest", x.guest>> \notin raced =>
                  \A r \in DOMAIN reviews : AuthorOf(r) = x.guest => r \in x.mine

ReviewsInv ==
    /\ RequestsInv /\ ReviewsTyped /\ RatingsTrue /\ WordsGone
    /\ departed \subseteq GuestsOfVisits
    /\ \A c \in Client : AboutReview(c)

\* The rows that the traffic of another area leaves alone.
ReviewsAtRest ==
    /\ ReviewsTyped /\ departed = {}
    /\ \A v \in Reviewed : scores[v] = Score(Published(v))

ReviewsAreRight == IF area = "reviews" THEN ReviewsInv ELSE ReviewsAtRest

\* A score is a matter of the marks alone.
LEMMA ScoreOfMarks ==
  ASSUME NEW rs, \A r \in rs : reviews'[r].mark = reviews[r].mark
  PROVE  Score(rs)' = Score(rs)
<1>1. Stars(rs)' = Stars(rs)
  BY DEF Stars
<1>2. QED  BY <1>1 DEF Score

LEMMA ReviewsInitially == Init => ReviewsInv /\ ReviewsAtRest
<1> SUFFICES ASSUME Init PROVE ReviewsInv /\ ReviewsAtRest
  OBVIOUS
<1>1. PICK m, a, z : /\ m \in Marks /\ a \in DOMAIN Visits /\ z \in DOMAIN Visits /\ a # z
                     /\ reviews = <<Pending(a, m), Pending(z, m)>>
  <2> DEFINE m == CHOOSE m \in Marks : TRUE
             a == CHOOSE b \in DOMAIN Visits : Visits[b].completed
             z == CHOOSE b \in DOMAIN Visits \ {a} : Visits[b].completed
  <2>1. m \in Marks
    BY ReviewsAssumption
  <2>2. a \in DOMAIN Visits
    BY ReviewsAssumption
  <2>3. \E b \in DOMAIN Visits \ {a} : Visits[b].completed
    <3> HIDE DEF a
    <3> QED  BY ReviewsAssumption
  <2>4. z \in DOMAIN Visits \ {a}
    <3> HIDE DEF a
    <3> QED  BY <2>3
  <2>5. reviews = <<Pending(a, m), Pending(z, m)>>
    BY DEF Init, ReviewsInit
  <2> HIDE DEF a, z, m
  <2>6. QED  BY <2>1, <2>2, <2>4, <2>5
<1>2. Pending(a, m) \in ReviewRow /\ Pending(z, m) \in ReviewRow
  BY <1>1 DEF Pending, ReviewRow
<1>3. /\ Pending(a, m).visit = a /\ Pending(z, m).visit = z
      /\ ~Pending(a, m).published /\ ~Pending(z, m).published
  BY DEF Pending
<1>4. reviews \in Seq(ReviewRow) /\ DOMAIN reviews = {1, 2}
      /\ reviews[1] = Pending(a, m) /\ reviews[2] = Pending(z, m)
  BY <1>1, <1>2
<1>5. \A r \in DOMAIN reviews : ~reviews[r].published
  BY <1>3, <1>4
<1>6. \A r, s \in DOMAIN reviews : reviews[r].visit = reviews[s].visit => r = s
  BY <1>1, <1>3, <1>4
<1>7. scores = [v \in Reviewed |-> [sum |-> 0, count |-> 0]] /\ departed = {}
  BY DEF Init, ReviewsInit
<1>8. \A v \in Reviewed : scores[v] = Score(Published(v))
  <2>1. \A v : Published(v) = {}
    BY <1>5 DEF Published
  <2>2. Score({}) = [sum |-> 0, count |-> 0]
    <3>1. Stars({}) = {}
      BY DEF Stars
    <3>2. QED  BY <3>1, FS_EmptySet DEF Score
  <2>3. QED  BY <1>7, <2>1, <2>2
<1>9. RequestsInv /\ \A c \in Client : calls[c].op = "idle"
  BY RequestsInitially DEF Init, RequestsInit, Idle
<1>10. QED
  BY <1>4, <1>6, <1>7, <1>8, <1>9
  DEF ReviewsInv, ReviewsTyped, ReviewsAtRest, RatingsTrue, WordsGone, AboutReview

\* The reviews there are after a step of c: none changes its visit or its mark,
\* and c is about what else changes.
ReviewsGrow(c) ==
    /\ DOMAIN reviews \subseteq DOMAIN reviews'
    /\ \A r \in DOMAIN reviews :
        /\ reviews'[r].visit = reviews[r].visit /\ reviews'[r].mark = reviews[r].mark
        /\ reviews'[r].published # reviews[r].published => <<"score", BranchOf(r)>> \in calls[c].keys
    /\ \A r \in DOMAIN reviews' \ DOMAIN reviews :
        /\ ~reviews'[r].published
        /\ <<"guest", Visits[reviews'[r].visit].guest>> \in calls[c].keys
    /\ \A u \in departed' \ departed : <<"guest", u>> \in calls[c].keys

\* What is counted at a branch that no step of another publishes at.
LEMMA CountStays ==
  ASSUME ReviewsInv, NEW c \in Client, ReviewsGrow(c), NEW v, <<"score", v>> \notin calls[c].keys
  PROVE  Published(v)' = Published(v)
  BY DEF ReviewsGrow, Published, BranchOf

LEMMA ScoreStays ==
  ASSUME ReviewsInv, NEW c \in Client, ReviewsGrow(c), NEW rs, rs \subseteq DOMAIN reviews
  PROVE  Score(rs)' = Score(rs)
  BY ScoreOfMarks DEF ReviewsGrow

LEMMA OthersReviewOn ==
  ASSUME ReviewsInv, RequestsInv', raced \subseteq raced', NEW c \in Client, ReviewsGrow(c),
         NEW d \in Client \ {c}, calls'[d] = calls[d]
  PROVE  AboutReview(d)'
<1>1. AboutReview(d) /\ calls[d].keys \cap calls[c].keys \subseteq raced
  BY DEF ReviewsInv, RequestsInv
<1>2. PICK x : x = calls[d].read
  OBVIOUS
<1>3. CASE calls[d].op = "review"
  <2>1. /\ x \in ReviewRow /\ ~x.published /\ <<"guest", Visits[x.visit].guest>> \in calls[d].keys
        /\ Visits[x.visit].guest \in departed => <<"guest", Visits[x.visit].guest>> \in raced
    BY <1>1, <1>2, <1>3 DEF AboutReview
  <2>2. Visits[x.visit].guest \in departed' => <<"guest", Visits[x.visit].guest>> \in raced'
    BY <1>1, <2>1 DEF ReviewsGrow
  <2>3. QED  BY <1>2, <1>3, <2>1, <2>2 DEF AboutReview
<1>4. CASE calls[d].op = "publish"
  <2>1. PICK r : r = x.review
    OBVIOUS
  <2>2. PICK v : v = BranchOf(r)
    OBVIOUS
  <2>3. /\ r \in DOMAIN reviews /\ <<"score", v>> \in calls[d].keys
        /\ <<"score", v>> \notin raced => x.score = Score(Counted(r))
    BY <1>1, <1>2, <1>4, <2>1, <2>2 DEF AboutReview
  <2>4. r \in DOMAIN reviews' /\ BranchOf(r)' = v
    BY <2>2, <2>3 DEF ReviewsGrow, BranchOf
  <2>5. ASSUME <<"score", v>> \notin raced'  PROVE x.score = Score(Counted(r))'
    <3>1. <<"score", v>> \notin raced /\ <<"score", v>> \notin calls[c].keys
      BY <1>1, <2>3, <2>5
    <3>2. PICK rs : rs = Published(v) \cup {r}
      OBVIOUS
    <3>3. Counted(r) = rs /\ Counted(r)' = rs
      BY <2>2, <2>4, <3>1, <3>2, CountStays DEF Counted
    <3>4. rs \subseteq DOMAIN reviews
      BY <2>3, <3>2 DEF Published
    <3>5. Score(rs)' = Score(rs)
      BY <3>4, ScoreStays
    <3>6. Score(Counted(r))' = Score(rs)'
      BY <3>3 DEF Score, Stars
    <3>7. QED  BY <2>3, <3>1, <3>3, <3>5, <3>6
  <2>6. QED  BY <1>2, <1>4, <2>1, <2>3, <2>4, <2>5 DEF AboutReview
<1>5. CASE calls[d].op = "depart"
  <2>1. /\ <<"guest", x.guest>> \in calls[d].keys /\ x.guest \in GuestsOfVisits
        /\ <<"guest", x.guest>> \notin raced =>
              \A r \in DOMAIN reviews : AuthorOf(r) = x.guest => r \in x.mine
    BY <1>1, <1>2, <1>5 DEF AboutReview
  <2>2. ASSUME <<"guest", x.guest>> \notin raced', NEW r \in DOMAIN reviews', AuthorOf(r)' = x.guest
        PROVE  r \in x.mine
    <3>1. <<"guest", x.guest>> \notin raced /\ <<"guest", x.guest>> \notin calls[c].keys
      BY <1>1, <2>1, <2>2
    <3>2. r \in DOMAIN reviews
      BY <2>2, <3>1 DEF ReviewsGrow, AuthorOf
    <3>3. AuthorOf(r) = x.guest
      BY <2>2, <3>2 DEF ReviewsGrow, AuthorOf
    <3>4. QED  BY <2>1, <3>1, <3>2, <3>3
  <2>3. QED  BY <1>2, <1>5, <2>1, <2>2 DEF AboutReview
<1>6. CASE calls[d].op \notin {"review", "publish", "depart"}
  BY <1>6 DEF AboutReview
<1>7. QED  BY <1>3, <1>4, <1>5, <1>6

\* A request that begins, or is answered at once, reads only.
LEMMA ReviewsRead ==
  ASSUME ReviewsInv, RequestsInv', UNCHANGED opinions, raced \subseteq raced',
         NEW c \in Client, AboutReview(c)', \A d \in Client \ {c} : calls'[d] = calls[d]
  PROVE  ReviewsInv'
<1>1. reviews' = reviews /\ scores' = scores /\ departed' = departed
  BY DEF opinions
<1>2. ReviewsGrow(c)
  BY <1>1 DEF ReviewsGrow
<1>3. \A d \in Client \ {c} : AboutReview(d)'
  BY <1>2, OthersReviewOn
<1>4. ReviewsTyped' /\ WordsGone'
  BY <1>1 DEF ReviewsInv, ReviewsTyped, WordsGone, AuthorOf
<1>5. RatingsTrue'
  <2>1. SUFFICES ASSUME NEW v \in Reviewed, <<"score", v>> \notin raced
                 PROVE  scores[v] = Score(Published(v))'
    BY <1>1 DEF RatingsTrue
  <2>2. Score(Published(v))' = Score(Published(v))
    BY <1>1 DEF Score, Stars, Published, BranchOf
  <2>3. QED  BY <2>1, <2>2 DEF ReviewsInv, RatingsTrue
<1>6. QED  BY <1>1, <1>3, <1>4, <1>5 DEF ReviewsInv

LEMMA AnsweredReviewing ==
  ASSUME ReviewsInv, NEW c \in Client, NEW STATE answer,
         Answer(c, answer) \/ AnswerAtOnce(c, answer)
  PROVE  /\ RequestsInv' /\ raced' = raced /\ AboutReview(c)'
         /\ \A d \in Client \ {c} : calls'[d] = calls[d]
<1>1. /\ RequestsInv' /\ raced' = raced
      /\ calls'[c] = [op |-> "idle", keys |-> {}, answer |-> answer]
      /\ \A d \in Client \ {c} : calls'[d] = calls[d]
  BY AnswerRequest DEF ReviewsInv
<1>2. AboutReview(c)'
  BY <1>1 DEF AboutReview
<1>3. QED  BY <1>1, <1>2

LEMMA ReviewBegins ==
  ASSUME ReviewsInv, NEW c \in Client, NEW u \in GuestsOfVisits, NEW b \in DOMAIN Visits,
         NEW m \in Marks, Review(c, u, b, m)
  PROVE  ReviewsInv'
<1>1. UNCHANGED opinions /\ u \notin departed
  BY DEF Review
<1>2. \/ \E answer : AnswerAtOnce(c, answer)
      \/ Visits[b].guest = u /\ Begin(c, "review", {<<"guest", u>>}, Pending(b, m))
  BY DEF Review
<1>3. ASSUME NEW answer, AnswerAtOnce(c, answer)  PROVE ReviewsInv'
  BY <1>1, <1>3, AnsweredReviewing, ReviewsRead
<1>4. CASE Visits[b].guest = u /\ Begin(c, "review", {<<"guest", u>>}, Pending(b, m))
  <2>1. PICK new : new = Pending(b, m)
    OBVIOUS
  <2>2. new = [visit |-> b, mark |-> m, published |-> FALSE, words |-> TRUE]
    BY <2>1 DEF Pending
  <2>3. new \in ReviewRow /\ new.visit = b /\ ~new.published
    BY <2>2 DEF ReviewRow
  <2>4. PICK keys : keys = {<<"guest", u>>}
    OBVIOUS
  <2>5. Begin(c, "review", keys, new) /\ RequestsInv
    BY <1>4, <2>1, <2>4 DEF ReviewsInv
  <2>6. /\ RequestsInv' /\ raced \subseteq raced'
        /\ calls'[c] = [op |-> "review", keys |-> keys, read |-> new]
        /\ \A d \in Client \ {c} : calls'[d] = calls[d]
    BY <2>5, BeginRequest
  <2>7. AboutReview(c)'
    BY <1>1, <1>4, <2>3, <2>4, <2>6 DEF AboutReview, opinions
  <2>8. QED  BY <1>1, <2>6, <2>7, ReviewsRead
<1>5. QED  BY <1>2, <1>3, <1>4

LEMMA PublishBegins ==
  ASSUME ReviewsInv, NEW c \in Client, NEW r \in DOMAIN reviews, Publish(c, r)
  PROVE  ReviewsInv'
<1>1. PICK v, score, keys : v = BranchOf(r) /\ score = Score(Counted(r)) /\ keys = {<<"score", v>>}
  OBVIOUS
<1>2. PICK read : read = [review |-> r, score |-> score]
  OBVIOUS
<1>3. Begin(c, "publish", keys, read) /\ UNCHANGED opinions /\ RequestsInv
  BY <1>1, <1>2 DEF Publish, ReviewsInv
<1>4. /\ RequestsInv' /\ raced \subseteq raced'
      /\ calls'[c] = [op |-> "publish", keys |-> keys, read |-> read]
      /\ \A d \in Client \ {c} : calls'[d] = calls[d]
  BY <1>3, BeginRequest
<1>5. BranchOf(r)' = v /\ Score(Counted(r))' = score /\ r \in DOMAIN reviews'
  BY <1>1, <1>3 DEF BranchOf, Score, Stars, Counted, Published, opinions
<1>6. AboutReview(c)'
  BY <1>1, <1>2, <1>4, <1>5 DEF AboutReview
<1>7. QED  BY <1>3, <1>4, <1>6, ReviewsRead

LEMMA DepartureBegins ==
  ASSUME ReviewsInv, NEW c \in Client, NEW u \in GuestsOfVisits, Depart(c, u)
  PROVE  ReviewsInv'
<1>1. PICK read : read = [guest |-> u, mine |-> {r \in DOMAIN reviews : AuthorOf(r) = u}]
  OBVIOUS
<1>2. Begin(c, "depart", {<<"guest", u>>}, read) /\ UNCHANGED opinions /\ RequestsInv
  BY <1>1 DEF Depart, ReviewsInv
<1>3. /\ RequestsInv' /\ raced \subseteq raced'
      /\ calls'[c] = [op |-> "depart", keys |-> {<<"guest", u>>}, read |-> read]
      /\ \A d \in Client \ {c} : calls'[d] = calls[d]
  BY <1>2, BeginRequest
<1>4. AboutReview(c)'
  BY <1>1, <1>2, <1>3 DEF AboutReview, AuthorOf, opinions
<1>5. QED  BY <1>2, <1>3, <1>4, ReviewsRead

\* The review is added.
LEMMA InsertReviewKeeps ==
  ASSUME ReviewsInv, NEW c \in Client, InsertReview(c)
  PROVE  ReviewsInv'
<1>1. PICK new : new = calls[c].read
  OBVIOUS
<1>2. /\ new \in ReviewRow /\ ~new.published /\ <<"guest", Visits[new.visit].guest>> \in calls[c].keys
      /\ Visits[new.visit].guest \in departed => <<"guest", Visits[new.visit].guest>> \in raced
  BY <1>1 DEF InsertReview, ReviewsInv, AboutReview
<1>3. PICK answer : Answer(c, answer)
  BY DEF InsertReview
<1>4. /\ RequestsInv' /\ raced' = raced /\ AboutReview(c)'
      /\ \A d \in Client \ {c} : calls'[d] = calls[d]
  BY <1>3, AnsweredReviewing
<1>5. scores' = scores /\ departed' = departed
  BY DEF InsertReview
<1>6. CASE reviews' = reviews
  BY <1>4, <1>5, <1>6, ReviewsRead DEF opinions
<1>7. CASE ReviewsOf(new.visit) = {} /\ reviews' = Append(reviews, new)
  <2>1. PICK n : n = Len(reviews) + 1
    OBVIOUS
  <2>2. /\ reviews' \in Seq(ReviewRow) /\ DOMAIN reviews' = DOMAIN reviews \cup {n}
        /\ n \notin DOMAIN reviews
        /\ \A r \in DOMAIN reviews : reviews'[r] = reviews[r]
        /\ reviews'[n] = new
    BY <1>2, <1>7, <2>1, Added DEF ReviewsInv, ReviewsTyped
  <2>3. ReviewsGrow(c)
    BY <1>2, <1>5, <2>2 DEF ReviewsGrow
  <2>4. ReviewsTyped'
    BY <1>5, <1>7, <2>2 DEF ReviewsInv, ReviewsTyped, ReviewsOf
  <2>5. RatingsTrue'
    <3>1. SUFFICES ASSUME NEW v \in Reviewed, <<"score", v>> \notin raced
                   PROVE  scores[v] = Score(Published(v))'
      BY <1>4, <1>5 DEF RatingsTrue
    <3>2. PICK rs : rs = Published(v)
      OBVIOUS
    <3>3. Published(v)' = rs /\ rs \subseteq DOMAIN reviews
      BY <1>2, <2>2, <3>2 DEF Published, BranchOf
    <3>4. Score(rs)' = Score(rs)
      BY <2>3, <3>3, ScoreStays
    <3>5. Score(Published(v))' = Score(rs)'
      BY <3>3 DEF Score, Stars
    <3>6. QED  BY <3>1, <3>2, <3>4, <3>5 DEF ReviewsInv, RatingsTrue
  <2>6. WordsGone'
    BY <1>2, <1>4, <1>5, <2>2 DEF ReviewsInv, WordsGone, AuthorOf
  <2>7. \A d \in Client \ {c} : AboutReview(d)'
    BY <1>4, <2>3, OthersReviewOn
  <2>8. QED  BY <1>4, <1>5, <2>4, <2>5, <2>6, <2>7 DEF ReviewsInv
<1>8. QED  BY <1>1, <1>6, <1>7 DEF InsertReview

\* The review is published, and the rating written that was read for it.
LEMMA WriteScoreKeeps ==
  ASSUME ReviewsInv, NEW c \in Client, WriteScore(c)
  PROVE  ReviewsInv'
<1>1. PICK x : x = calls[c].read
  OBVIOUS
<1>2. PICK r, score : r = x.review /\ score = x.score
  OBVIOUS
<1>3. PICK b : b = BranchOf(r)
  OBVIOUS
<1>4. /\ r \in DOMAIN reviews /\ <<"score", b>> \in calls[c].keys
      /\ <<"score", b>> \notin raced => score = Score(Counted(r))
  BY <1>1, <1>2, <1>3 DEF WriteScore, ReviewsInv, AboutReview
<1>5. /\ RequestsInv' /\ raced' = raced /\ AboutReview(c)'
      /\ \A d \in Client \ {c} : calls'[d] = calls[d]
  BY AnsweredReviewing DEF WriteScore
<1>6. /\ reviews' = [reviews EXCEPT ![r].published = TRUE]
      /\ scores' = [scores EXCEPT ![b] = score] /\ departed' = departed
  BY <1>1, <1>2, <1>3 DEF WriteScore
<1>7. reviews \in Seq(ReviewRow) /\ reviews[r] \in ReviewRow
  BY <1>4 DEF ReviewsInv, ReviewsTyped
<1>8. PICK row : row = [reviews[r] EXCEPT !.published = TRUE]
  OBVIOUS
<1>9. /\ row \in ReviewRow /\ row.visit = reviews[r].visit /\ row.mark = reviews[r].mark
      /\ row.words = reviews[r].words /\ row.published
  BY <1>7, <1>8 DEF ReviewRow
<1>10. reviews' = [reviews EXCEPT ![r] = row]
  BY <1>6, <1>8
<1>11. /\ reviews' \in Seq(ReviewRow) /\ DOMAIN reviews' = DOMAIN reviews /\ reviews'[r] = row
       /\ \A s \in DOMAIN reviews \ {r} : reviews'[s] = reviews[s]
  BY <1>4, <1>7, <1>9, <1>10
<1>12. \A s \in DOMAIN reviews : /\ reviews'[s].visit = reviews[s].visit
                                 /\ reviews'[s].mark = reviews[s].mark
                                 /\ reviews'[s].words = reviews[s].words
  BY <1>9, <1>11
<1>13. ReviewsGrow(c)
  BY <1>3, <1>4, <1>6, <1>11, <1>12 DEF ReviewsGrow
<1>14. b \in Reviewed
  BY <1>3, <1>7 DEF BranchOf, Reviewed, ReviewRow
<1>15. /\ scores' = [v \in Reviewed |-> scores'[v]] /\ scores'[b] = score
       /\ \A v \in Reviewed \ {b} : scores'[v] = scores[v]
  BY <1>6, <1>14 DEF ReviewsInv, ReviewsTyped
<1>16. ReviewsTyped'
  BY <1>11, <1>12, <1>15 DEF ReviewsInv, ReviewsTyped
<1>17. RatingsTrue'
  <2>1. SUFFICES ASSUME NEW v \in Reviewed, <<"score", v>> \notin raced
                 PROVE  scores'[v] = Score(Published(v))'
    BY <1>5 DEF RatingsTrue
  <2>2. PICK rs : rs = Published(v)'
    OBVIOUS
  <2>3. rs \subseteq DOMAIN reviews
    BY <1>11, <2>2 DEF Published
  <2>4. Score(rs)' = Score(rs)
    BY <1>13, <2>3, ScoreStays
  <2>5. Score(Published(v))' = Score(rs)'
    BY <2>2 DEF Score, Stars
  <2>6. scores'[v] = Score(rs)
    <3>1. CASE v = b
      <4>1. rs = Counted(r)
        BY <1>3, <1>4, <1>9, <1>11, <1>12, <2>2, <3>1 DEF Counted, Published, BranchOf
      <4>2. QED  BY <1>4, <1>15, <2>1, <3>1, <4>1
    <3>2. CASE v # b
      <4>1. rs = Published(v)
        BY <1>3, <1>9, <1>11, <1>12, <2>2, <3>2 DEF Published, BranchOf
      <4>2. QED  BY <1>15, <2>1, <3>2, <4>1 DEF ReviewsInv, RatingsTrue
    <3>3. QED  BY <3>1, <3>2
  <2>7. QED  BY <2>4, <2>5, <2>6
<1>18. WordsGone'
  BY <1>5, <1>6, <1>11, <1>12 DEF ReviewsInv, WordsGone, AuthorOf
<1>19. \A d \in Client \ {c} : AboutReview(d)'
  BY <1>5, <1>13, OthersReviewOn
<1>20. QED  BY <1>5, <1>6, <1>16, <1>17, <1>18, <1>19 DEF ReviewsInv

\* The account is gone, and the words of its reviews are.
LEMMA AnonymiseKeeps ==
  ASSUME ReviewsInv, NEW c \in Client, Anonymise(c)
  PROVE  ReviewsInv'
<1>1. PICK x : x = calls[c].read
  OBVIOUS
<1>2. PICK u, mine : u = x.guest /\ mine = x.mine
  OBVIOUS
<1>3. /\ <<"guest", u>> \in calls[c].keys /\ u \in GuestsOfVisits
      /\ <<"guest", u>> \notin raced => \A r \in DOMAIN reviews : AuthorOf(r) = u => r \in mine
  BY <1>1, <1>2 DEF Anonymise, ReviewsInv, AboutReview
<1>4. /\ RequestsInv' /\ raced' = raced /\ AboutReview(c)'
      /\ \A d \in Client \ {c} : calls'[d] = calls[d]
  BY AnsweredReviewing DEF Anonymise
<1>5. /\ reviews' = [r \in DOMAIN reviews |-> IF r \in mine THEN [reviews[r] EXCEPT !.words = FALSE]
                                              ELSE reviews[r]]
      /\ departed' = departed \cup {u} /\ scores' = scores
  BY <1>1, <1>2 DEF Anonymise
<1>6. reviews \in Seq(ReviewRow) /\ \A r \in DOMAIN reviews : reviews[r] \in ReviewRow
  BY DEF ReviewsInv, ReviewsTyped
<1>7. ASSUME NEW row \in ReviewRow
      PROVE  /\ [row EXCEPT !.words = FALSE] \in ReviewRow
             /\ [row EXCEPT !.words = FALSE].visit = row.visit
             /\ [row EXCEPT !.words = FALSE].mark = row.mark
             /\ [row EXCEPT !.words = FALSE].published = row.published
             /\ ~[row EXCEPT !.words = FALSE].words
  BY <1>7 DEF ReviewRow
<1>8. DOMAIN reviews' = DOMAIN reviews
      /\ \A r \in DOMAIN reviews :
          /\ reviews'[r] \in ReviewRow
          /\ reviews'[r].visit = reviews[r].visit /\ reviews'[r].mark = reviews[r].mark
          /\ reviews'[r].published = reviews[r].published
          /\ r \in mine => ~reviews'[r].words
          /\ r \notin mine => reviews'[r].words = reviews[r].words
  BY <1>5, <1>6, <1>7
<1>9. reviews' \in Seq(ReviewRow)
  <2>1. Len(reviews) \in Nat /\ DOMAIN reviews = 1..Len(reviews)
    BY <1>6
  <2>2. reviews' = [r \in 1..Len(reviews) |-> reviews'[r]]
    BY <1>5, <1>8, <2>1
  <2>3. QED  BY <1>8, <2>1, <2>2
<1>10. ReviewsGrow(c)
  BY <1>3, <1>5, <1>8 DEF ReviewsGrow
<1>11. ReviewsTyped'
  BY <1>5, <1>8, <1>9 DEF ReviewsInv, ReviewsTyped
<1>12. RatingsTrue'
  <2>1. SUFFICES ASSUME NEW v \in Reviewed, <<"score", v>> \notin raced
                 PROVE  scores[v] = Score(Published(v))'
    BY <1>4, <1>5 DEF RatingsTrue
  <2>2. PICK rs : rs = Published(v)
    OBVIOUS
  <2>3. Published(v)' = rs /\ rs \subseteq DOMAIN reviews
    BY <1>8, <2>2 DEF Published, BranchOf
  <2>4. Score(rs)' = Score(rs)
    BY <1>10, <2>3, ScoreStays
  <2>5. Score(Published(v))' = Score(rs)'
    BY <2>3 DEF Score, Stars
  <2>6. QED  BY <2>1, <2>2, <2>4, <2>5 DEF ReviewsInv, RatingsTrue
<1>13. WordsGone'
  BY <1>3, <1>4, <1>5, <1>8 DEF ReviewsInv, WordsGone, AuthorOf
<1>14. \A d \in Client \ {c} : AboutReview(d)'
  BY <1>4, <1>10, OthersReviewOn
<1>15. QED  BY <1>3, <1>4, <1>5, <1>11, <1>12, <1>13, <1>14 DEF ReviewsInv

LEMMA ReviewsStay ==
  ASSUME ReviewsAtRest, UNCHANGED opinions
  PROVE  ReviewsAtRest'
<1>1. reviews' = reviews /\ scores' = scores /\ departed' = departed
  BY DEF opinions
<1>2. ReviewsTyped'
  BY <1>1 DEF ReviewsAtRest, ReviewsTyped
<1>3. \A v : Score(Published(v))' = Score(Published(v))
  BY <1>1 DEF Score, Stars, Published, BranchOf
<1>4. QED  BY <1>1, <1>2, <1>3 DEF ReviewsAtRest

LEMMA ReviewsAsTheyWere ==
  ASSUME ReviewsInv, UNCHANGED requests, UNCHANGED opinions
  PROVE  ReviewsInv'
<1>1. calls' = calls /\ raced' = raced /\ reviews' = reviews /\ scores' = scores /\ departed' = departed
  BY DEF requests, opinions
<1>2. RequestsInv' /\ ReviewsTyped' /\ WordsGone'
  BY <1>1 DEF ReviewsInv, RequestsInv, ReviewsTyped, WordsGone, AuthorOf
<1>3. \A r : Score(Counted(r))' = Score(Counted(r)) /\ BranchOf(r)' = BranchOf(r)
  BY <1>1 DEF Score, Stars, Counted, Published, BranchOf
<1>4. \A v : Score(Published(v))' = Score(Published(v))
  BY <1>1 DEF Score, Stars, Published, BranchOf
<1>5. RatingsTrue'
  BY <1>1, <1>4 DEF ReviewsInv, RatingsTrue
<1>6. \A d \in Client : AboutReview(d)'
  BY <1>1, <1>3 DEF ReviewsInv, AboutReview, AuthorOf
<1>7. QED  BY <1>1, <1>2, <1>5, <1>6 DEF ReviewsInv

LEMMA ReviewsStep ==
  ASSUME ReviewsAreRight, [Next]_vars
  PROVE  ReviewsAreRight'
<1>1. CASE UNCHANGED vars
  BY <1>1, ReviewsStay, ReviewsAsTheyWere DEF vars, ReviewsAreRight
<1>2. CASE Next /\ area = "reviews"
  <2>1. ReviewsInv /\ area' = area /\ ReviewsNext
    BY <1>2, StepOfArea DEF ReviewsAreRight
  <2>2. PICK c \in Client :
          \/ \E u \in GuestsOfVisits, b \in DOMAIN Visits, m \in Marks : Review(c, u, b, m)
          \/ \E r \in DOMAIN reviews : Publish(c, r)
          \/ \E u \in GuestsOfVisits : Depart(c, u)
          \/ InsertReview(c) \/ WriteScore(c) \/ Anonymise(c)
    BY <2>1 DEF ReviewsNext
  <2>3. ReviewsInv'
    BY <2>1, <2>2, ReviewBegins, PublishBegins, DepartureBegins,
       InsertReviewKeeps, WriteScoreKeeps, AnonymiseKeeps
  <2>4. QED  BY <1>2, <2>1, <2>3 DEF ReviewsAreRight
<1>3. CASE Next /\ area # "reviews"
  BY <1>3, StepOfArea, ReviewsStay DEF ReviewsAreRight
<1>4. QED  BY <1>1, <1>2, <1>3

LEMMA ReviewsFollow == ReviewsAreRight => RatingIsOfItsReviews
<1> SUFFICES ASSUME ReviewsAreRight PROVE RatingIsOfItsReviews
  OBVIOUS
<1>1. ReviewsTyped /\ RatingsTrue /\ WordsGone
  BY DEF ReviewsAreRight, ReviewsInv, ReviewsAtRest, RatingsTrue, WordsGone
<1>2. ASSUME NEW b \in DOMAIN Visits  PROVE Cardinality(ReviewsOf(b)) <= 1
  <2>1. CASE ReviewsOf(b) = {}
    BY <2>1, FS_EmptySet
  <2>2. CASE ReviewsOf(b) # {}
    <3>1. PICK r : r \in ReviewsOf(b)
      BY <2>2
    <3>2. \A s \in ReviewsOf(b) : s = r
      BY <1>1, <3>1 DEF ReviewsTyped, ReviewsOf
    <3>3. ReviewsOf(b) = {r}
      BY <3>1, <3>2
    <3>4. Cardinality({r}) = 1
      BY FS_Singleton
    <3>5. QED  BY <3>3, <3>4
  <2>3. QED  BY <2>1, <2>2
<1>3. QED  BY <1>1, <1>2 DEF RatingIsOfItsReviews, RatingsTrue, WordsGone

\* Whatever guests review, moderators publish and accounts are deleted, in any
\* order: the rating of a branch is the sum and the number of its published
\* reviews unless two publications there overlapped, no visit is reviewed twice,
\* and a deleted account leaves no words unless they came while it was deleted.
THEOREM RatingsAreOfTheirReviews == Spec => []RatingIsOfItsReviews
<1>1. Init => ReviewsAreRight
  BY ReviewsInitially DEF ReviewsAreRight
<1>2. QED  BY <1>1, ReviewsStep, ReviewsFollow, PTL DEF Spec
-----------------------------------------------------------------------------
(* Places picked lately.                                                      *)

\* Of rows that were used at different times no more than keep are the newest
\* keep: the oldest of them has all the others after it.
LEMMA NewestAreFew ==
  ASSUME NEW rows, IsFiniteSet(rows), NEW keep \in Nat, \A p \in rows : p.used \in Nat,
         \A p, q \in rows : p.used = q.used => p = q
  PROVE  Cardinality(NewestOf(rows, keep)) <= keep
<1> DEFINE N == NewestOf(rows, keep)
           upTo(p) == {q \in rows : q.used <= p.used}
           R == StrictSubsetOrdering(rows)
           U == {upTo(p) : p \in N}
<1>1. N \subseteq rows
  BY DEF NewestOf
<1>2. CASE N = {}
  BY <1>2, FS_EmptySet
<1>3. CASE N # {}
  <2>1. IsWellFoundedOn(R, FiniteSubsetsOf(rows))
    BY FS_StrictSubsetOrderingWellFounded
  <2>2. U \subseteq FiniteSubsetsOf(rows) /\ U # {}
    <3>1. ASSUME NEW p \in N  PROVE upTo(p) \in FiniteSubsetsOf(rows)
      BY FS_Subset DEF FiniteSubsetsOf
    <3>2. QED  BY <1>3, <3>1
  <2>3. PICK s \in U : \A t \in U : <<t, s>> \notin R
    <3> HIDE DEF R, U
    <3> QED  BY <2>1, <2>2, WFMin
  <2>4. PICK p \in N : s = upTo(p)
    BY <2>3
  <2>5. \A q \in N : q.used >= p.used
    <3>1. SUFFICES ASSUME NEW q \in N, q.used < p.used  PROVE FALSE
      BY <1>1
    <3>2. upTo(q) \subseteq upTo(p) /\ p \in upTo(p) /\ p \notin upTo(q) /\ upTo(p) \subseteq rows
      BY <1>1, <3>1
    <3>3. <<upTo(q), upTo(p)>> \in R
      <4> HIDE DEF upTo
      <4> QED  BY <3>2 DEF StrictSubsetOrdering
    <3>4. QED  BY <2>3, <2>4, <3>1, <3>3
  <2>6. PICK after : after = {q \in rows : q.used > p.used}
    OBVIOUS
  <2>7. N \ {p} \subseteq after /\ after \subseteq rows
    BY <1>1, <2>5, <2>6
  <2>8. Cardinality(after) < keep
    BY <2>6 DEF NewestOf
  <2>9. /\ IsFiniteSet(after) /\ IsFiniteSet(N) /\ Cardinality(after) \in Nat /\ Cardinality(N) \in Nat
        /\ Cardinality(N \ {p}) <= Cardinality(after)
        /\ Cardinality(N \ {p}) = Cardinality(N) - 1
    <3> HIDE DEF N
    <3>1. IsFiniteSet(after) /\ IsFiniteSet(N)
      BY <1>1, <2>7, FS_Subset
    <3>2. Cardinality(N \ {p}) <= Cardinality(after)
      BY <2>7, <3>1, FS_Subset
    <3>3. QED  BY <3>1, <3>2, FS_CardinalityType, FS_RemoveElement
  <2>10. QED  BY <2>8, <2>9
<1>4. QED  BY <1>2, <1>3

\* Each row of a list has been picked at a time of its own, in a district of its
\* own, and there is room for it.
Listed(u) ==
    /\ Cardinality(recent[u]) <= RECENT_CAP
    /\ \A p, q \in recent[u] : p.district = q.district => p = q
    /\ \A p, q \in recent[u] : p.used = q.used => p = q

\* What a request in flight has read of a list, which holds as long as no other
\* one is about the same list.
AboutPlace(c) ==
    LET x == calls[c].read IN
        calls[c].op \in {"remember", "trim"} =>
            /\ calls[c] = [op |-> calls[c].op, keys |-> calls[c].keys, read |-> calls[c].read]
            /\ x = [user |-> x.user, old |-> x.old, drop |-> x.drop, new |-> x.new]
            /\ x.user \in Traveller /\ <<"recent", x.user>> \in calls[c].keys
            /\ x.new.used \in Nat /\ x.new.used <= begun
            /\ <<"recent", x.user>> \notin raced =>
                /\ \A p \in recent[x.user] :
                    p.used < x.new.used /\ (p.district = x.new.district => p.id = x.new.id)
                /\ calls[c].op = "trim" => x.drop = Drop(recent[x.user], x.new)

PlacesInv ==
    /\ RequestsInv /\ begun \in Nat
    /\ recent = [u \in Traveller |-> recent[u]]
    /\ \A u \in Traveller : IsFiniteSet(recent[u]) /\ \A p \in recent[u] : p.used \in Nat /\ p.used <= begun
    /\ \A u \in Traveller : <<"recent", u>> \notin raced => Listed(u)
    /\ \A c \in Client : AboutPlace(c)

NothingPicked == recent = [u \in Traveller |-> {}]

PlacesAreRight == IF area = "places" THEN PlacesInv ELSE NothingPicked

LEMMA PlacesInitially == Init => PlacesInv /\ NothingPicked
<1> SUFFICES ASSUME Init PROVE PlacesInv /\ NothingPicked
  OBVIOUS
<1>1. NothingPicked /\ begun \in Nat /\ RequestsInv /\ \A c \in Client : calls[c].op = "idle"
  BY RequestsInitially DEF Init, PlacesInit, RequestsInit, Idle, NothingPicked
<1>2. \A u \in Traveller : recent[u] = {}
  BY <1>1 DEF NothingPicked
<1>3. \A u \in Traveller : Listed(u) /\ IsFiniteSet(recent[u])
  BY <1>2, FS_EmptySet, PlacesAssumption DEF Listed
<1>4. QED  BY <1>1, <1>2, <1>3 DEF PlacesInv, NothingPicked, AboutPlace

\* Whoever is about another list is not disturbed.
LEMMA OthersPickOn ==
  ASSUME PlacesInv, RequestsInv', raced \subseteq raced', begun' \in Nat, begun <= begun', NEW c \in Client,
         \A u \in Traveller : <<"recent", u>> \notin calls[c].keys => recent'[u] = recent[u],
         NEW d \in Client \ {c}, calls'[d] = calls[d]
  PROVE  AboutPlace(d)'
<1>1. AboutPlace(d) /\ calls[d].keys \cap calls[c].keys \subseteq raced /\ begun \in Nat
  BY DEF PlacesInv, RequestsInv
<1>2. SUFFICES ASSUME calls[d].op \in {"remember", "trim"}  PROVE AboutPlace(d)'
  BY DEF AboutPlace
<1>3. PICK x, u, new : x = calls[d].read /\ u = x.user /\ new = x.new
  OBVIOUS
<1>4. /\ calls[d] = [op |-> calls[d].op, keys |-> calls[d].keys, read |-> x]
      /\ x = [user |-> u, old |-> x.old, drop |-> x.drop, new |-> new]
      /\ u \in Traveller /\ <<"recent", u>> \in calls[d].keys
      /\ new.used \in Nat /\ new.used <= begun
      /\ <<"recent", u>> \notin raced =>
          /\ \A p \in recent[u] : p.used < new.used /\ (p.district = new.district => p.id = new.id)
          /\ calls[d].op = "trim" => x.drop = Drop(recent[u], new)
  BY <1>1, <1>2, <1>3 DEF AboutPlace
<1>5. ASSUME <<"recent", u>> \notin raced'
      PROVE  <<"recent", u>> \notin raced /\ recent'[u] = recent[u]
  BY <1>1, <1>4, <1>5
<1>6. new.used <= begun'
  BY <1>1, <1>4
<1>7. recent'[u] = recent[u] => Drop(recent[u], new)' = Drop(recent[u], new)
  BY DEF Drop, NewestOf
<1>8. /\ calls'[d].op = calls[d].op /\ calls'[d].keys = calls[d].keys /\ calls'[d].read = x
      /\ calls'[d] = [op |-> calls'[d].op, keys |-> calls'[d].keys, read |-> calls'[d].read]
      /\ x = [user |-> x.user, old |-> x.old, drop |-> x.drop, new |-> x.new]
  BY <1>3, <1>4
<1>9. QED  BY <1>3, <1>4, <1>5, <1>6, <1>7, <1>8 DEF AboutPlace

\* A step that writes none of the lists.
LEMMA ListsStay ==
  ASSUME PlacesInv, RequestsInv', raced \subseteq raced', begun' \in Nat, begun <= begun',
         recent' = recent, NEW c \in Client, AboutPlace(c)', \A d \in Client \ {c} : calls'[d] = calls[d]
  PROVE  PlacesInv'
<1>1. \A d \in Client \ {c} : AboutPlace(d)'
  BY OthersPickOn
<1>2. \A u \in Traveller : \A p \in recent[u] : p.used \in Nat /\ p.used <= begun'
  BY DEF PlacesInv
<1>3. \A u \in Traveller : Listed(u)' <=> Listed(u)
  BY DEF Listed
<1>4. QED  BY <1>1, <1>2, <1>3 DEF PlacesInv

LEMMA AnsweredPlace ==
  ASSUME PlacesInv, NEW c \in Client, NEW STATE answer,
         Answer(c, answer) \/ AnswerAtOnce(c, answer)
  PROVE  /\ RequestsInv' /\ raced' = raced /\ AboutPlace(c)' /\ begun' \in Nat /\ begun <= begun'
         /\ \A d \in Client \ {c} : calls'[d] = calls[d]
<1>1. /\ RequestsInv' /\ raced' = raced
      /\ calls'[c] = [op |-> "idle", keys |-> {}, answer |-> answer]
      /\ \A d \in Client \ {c} : calls'[d] = calls[d]
  BY AnswerRequest DEF PlacesInv
<1>2. begun' \in Nat /\ begun <= begun'
  BY DEF PlacesInv, Answer, AnswerAtOnce
<1>3. AboutPlace(c)'
  BY <1>1 DEF AboutPlace
<1>4. QED  BY <1>1, <1>2, <1>3

\* A request about regions or districts begins.
LEMMA AskedOfPlaces ==
  ASSUME PlacesInv, NEW c \in Client, NEW STATE op, NEW STATE keys, NEW STATE read,
         op \notin {"remember", "trim"}, Begin(c, op, keys, read), UNCHANGED places
  PROVE  PlacesInv'
<1>1. /\ RequestsInv' /\ raced \subseteq raced'
      /\ calls'[c] = [op |-> op, keys |-> keys, read |-> read]
      /\ \A d \in Client \ {c} : calls'[d] = calls[d]
  BY BeginRequest DEF PlacesInv
<1>2. begun' \in Nat /\ begun <= begun' /\ recent' = recent
  BY DEF PlacesInv, Begin, places
<1>3. AboutPlace(c)'
  BY <1>1 DEF AboutPlace
<1>4. QED  BY <1>1, <1>2, <1>3, ListsStay

LEMMA RememberKeeps ==
  ASSUME PlacesInv, NEW c \in Client, NEW u \in Traveller, NEW d \in District, Remember(c, u, d)
  PROVE  PlacesInv'
<1>1. PICK rows : rows = {p \in recent[u] : p.district = d}
  OBVIOUS
<1>2. PICK id : id = IF rows = {} THEN begun + 1 ELSE (CHOOSE p \in rows : TRUE).id
  OBVIOUS
<1>3. PICK new : new = [district |-> d, used |-> begun + 1, id |-> id]
  OBVIOUS
<1>4. PICK read : read = [user |-> u, old |-> rows, drop |-> {}, new |-> new]
  OBVIOUS
<1>5. PICK keys : keys = {<<"recent", u>>, <<"district", d>>}
  OBVIOUS
<1>6. UNCHANGED places
      /\ ((\E answer : AnswerAtOnce(c, answer)) \/ Begin(c, "remember", keys, read))
  BY <1>1, <1>2, <1>3, <1>4, <1>5 DEF Remember
<1>7. ASSUME NEW answer, AnswerAtOnce(c, answer)  PROVE PlacesInv'
  BY <1>6, <1>7, AnsweredPlace, ListsStay DEF places
<1>8. CASE Begin(c, "remember", keys, read)
  <2>1. /\ RequestsInv' /\ raced \subseteq raced'
        /\ calls'[c] = [op |-> "remember", keys |-> keys, read |-> read]
        /\ \A e \in Client \ {c} : calls'[e] = calls[e]
    BY <1>8, BeginRequest DEF PlacesInv
  <2>2. begun \in Nat /\ begun' = begun + 1 /\ recent' = recent
    BY <1>6, <1>8 DEF PlacesInv, Begin, places
  <2>3. new.used = begun + 1 /\ new.district = d /\ new.id = id
    BY <1>3
  <2>4. \A p \in recent[u] : p.used < new.used
    BY <2>2, <2>3 DEF PlacesInv
  <2>5. ASSUME <<"recent", u>> \notin raced, NEW p \in recent[u], p.district = d  PROVE p.id = id
    <3>1. p \in rows /\ \A q \in rows : q = p
      BY <1>1, <2>5 DEF PlacesInv, Listed
    <3>2. (CHOOSE q \in rows : TRUE) = p
      BY <3>1
    <3>3. QED  BY <1>2, <3>1, <3>2
  <2>6. read.user = u /\ read.new = new /\ read = [user |-> read.user, old |-> read.old, drop |-> read.drop, new |-> read.new]
    BY <1>4
  <2>7. AboutPlace(c)'
    BY <1>5, <2>1, <2>2, <2>3, <2>4, <2>5, <2>6 DEF AboutPlace
  <2>8. QED  BY <2>1, <2>2, <2>7, ListsStay
<1>9. QED  BY <1>6, <1>7, <1>8

\* The row is written, and what the trim will delete is known.
LEMMA WriteAndTrimKeeps ==
  ASSUME PlacesInv, NEW c \in Client, WriteAndTrim(c)
  PROVE  PlacesInv'
<1>1. PICK x, u, new, drop : x = calls[c].read /\ u = x.user /\ new = x.new /\ drop = Drop(recent[u], new)
  OBVIOUS
<1>2. PICK read : read = [x EXCEPT !.drop = drop]
  OBVIOUS
<1>3. recent' = recent /\ ((\E answer : Answer(c, answer)) \/ Proceed(c, "trim", read))
  BY <1>1, <1>2 DEF WriteAndTrim, places
<1>4. ASSUME NEW answer, Answer(c, answer)  PROVE PlacesInv'
  BY <1>3, <1>4, AnsweredPlace, ListsStay
<1>5. CASE Proceed(c, "trim", read)
  <2>1. /\ calls[c] = [op |-> calls[c].op, keys |-> calls[c].keys, read |-> calls[c].read]
        /\ x = [user |-> u, old |-> x.old, drop |-> x.drop, new |-> new]
        /\ u \in Traveller /\ <<"recent", u>> \in calls[c].keys
        /\ new.used \in Nat /\ new.used <= begun
        /\ <<"recent", u>> \notin raced =>
            \A p \in recent[u] : p.used < new.used /\ (p.district = new.district => p.id = new.id)
    BY <1>1 DEF WriteAndTrim, PlacesInv, AboutPlace
  <2>2. PICK keys : keys = calls[c].keys
    OBVIOUS
  <2>3. /\ RequestsInv' /\ raced' = raced
        /\ calls'[c] = [op |-> "trim", keys |-> keys, read |-> read]
        /\ \A d \in Client \ {c} : calls'[d] = calls[d]
    BY <1>5, <2>1, <2>2, ProceedRequest DEF PlacesInv
  <2>4. begun' = begun /\ begun \in Nat
    BY <1>5 DEF Proceed, PlacesInv
  <2>5. read = [user |-> u, old |-> x.old, drop |-> drop, new |-> new]
    BY <1>2, <2>1
  <2>6. read.user = u /\ read.new = new /\ read.drop = drop
        /\ read = [user |-> read.user, old |-> read.old, drop |-> read.drop, new |-> read.new]
    BY <2>5
  <2>7. Drop(recent[u], new)' = drop
    BY <1>1, <1>3 DEF Drop, NewestOf
  <2>8. AboutPlace(c)'
    <3>1. /\ calls'[c].op = "trim" /\ calls'[c].keys = keys /\ calls'[c].read = read
          /\ calls'[c] = [op |-> calls'[c].op, keys |-> calls'[c].keys, read |-> calls'[c].read]
      BY <2>3
    <3>2. QED  BY <1>1, <1>3, <2>1, <2>2, <2>3, <2>4, <2>6, <2>7, <3>1 DEF AboutPlace
  <2>9. QED  BY <1>3, <2>3, <2>4, <2>8, ListsStay
<1>6. QED  BY <1>3, <1>4, <1>5

\* The list is what it was without the old row and what is trimmed, and the new row.
LEMMA CommitPlaceKeeps ==
  ASSUME PlacesInv, NEW c \in Client, CommitPlace(c)
  PROVE  PlacesInv'
<1>1. PICK x, u, new, drop, was : /\ x = calls[c].read /\ u = x.user /\ new = x.new /\ drop = x.drop
                                  /\ was = recent[u]
  OBVIOUS
<1>2. PICK list : list = {p \in was : p.id # new.id /\ p.id \notin drop} \cup {p \in {new} : p.id \notin drop}
  OBVIOUS
<1>3. PICK seen : seen = {p \in was : p.id # new.id} \cup {new}
  OBVIOUS
<1>4. /\ u \in Traveller /\ <<"recent", u>> \in calls[c].keys
      /\ new.used \in Nat /\ new.used <= begun
      /\ <<"recent", u>> \notin raced =>
          /\ \A p \in was : p.used < new.used /\ (p.district = new.district => p.id = new.id)
          /\ drop = Drop(was, new)
  BY <1>1 DEF CommitPlace, PlacesInv, AboutPlace
<1>5. /\ RequestsInv' /\ raced' = raced /\ AboutPlace(c)'
      /\ \A d \in Client \ {c} : calls'[d] = calls[d]
  BY AnsweredPlace DEF CommitPlace
<1>6. recent' = [recent EXCEPT ![u] = list] /\ begun' = begun /\ begun \in Nat
  BY <1>1, <1>2 DEF CommitPlace, Answer, PlacesInv
<1>7. /\ recent' = [w \in Traveller |-> recent'[w]] /\ recent'[u] = list
      /\ \A w \in Traveller \ {u} : recent'[w] = recent[w]
  BY <1>4, <1>6 DEF PlacesInv
<1>8. IsFiniteSet(was) /\ \A p \in was : p.used \in Nat /\ p.used <= begun
  BY <1>1, <1>4 DEF PlacesInv
<1>9. IsFiniteSet(seen) /\ IsFiniteSet(list) /\ list \subseteq seen
      /\ \A p \in seen : p.used \in Nat /\ p.used <= begun
  <2>1. PICK kept : kept = {p \in was : p.id # new.id}
    OBVIOUS
  <2>2. IsFiniteSet(kept) /\ seen = kept \cup {new}
    BY <1>3, <1>8, <2>1, FS_Subset
  <2>3. IsFiniteSet(seen)
    BY <2>2, FS_AddElement
  <2>4. list \subseteq seen
    BY <1>2, <1>3
  <2>5. QED  BY <1>3, <1>4, <1>8, <2>3, <2>4, FS_Subset
<1>10. ASSUME <<"recent", u>> \notin raced
       PROVE  /\ Cardinality(list) <= RECENT_CAP
              /\ \A p, q \in list : p.district = q.district => p = q
              /\ \A p, q \in list : p.used = q.used => p = q
  <2>1. /\ \A p, q \in was : p.district = q.district => p = q
        /\ \A p, q \in was : p.used = q.used => p = q
    BY <1>1, <1>4, <1>10 DEF PlacesInv, Listed
  <2>2. \A p \in was : p.used # new.used /\ (p.district = new.district => p.id = new.id)
    BY <1>4, <1>8, <1>10
  <2>3. /\ \A p, q \in seen : p.district = q.district => p = q
        /\ \A p, q \in seen : p.used = q.used => p = q
    BY <1>3, <2>1, <2>2
  <2>4. Cardinality(NewestOf(seen, RECENT_CAP)) <= RECENT_CAP
    BY <1>9, <2>3, NewestAreFew, PlacesAssumption
  <2>5. drop = {p.id : p \in seen \ NewestOf(seen, RECENT_CAP)}
    BY <1>3, <1>4, <1>10 DEF Drop
  <2>6. list \subseteq NewestOf(seen, RECENT_CAP) /\ NewestOf(seen, RECENT_CAP) \subseteq seen
    <3>1. NewestOf(seen, RECENT_CAP) \subseteq seen
      BY DEF NewestOf
    <3>2. \A p \in list : p \in seen /\ p.id \notin drop
      BY <1>2, <1>3
    <3>3. QED  BY <2>5, <3>1, <3>2
  <2>7. /\ Cardinality(list) <= Cardinality(NewestOf(seen, RECENT_CAP))
        /\ Cardinality(list) \in Nat /\ Cardinality(NewestOf(seen, RECENT_CAP)) \in Nat
    <3>1. IsFiniteSet(NewestOf(seen, RECENT_CAP))
      BY <1>9, <2>6, FS_Subset
    <3>2. QED  BY <1>9, <2>6, <3>1, FS_Subset, FS_CardinalityType
  <2>8. QED  BY <1>9, <2>3, <2>4, <2>7, PlacesAssumption
<1>11. \A w \in Traveller : <<"recent", w>> \notin raced' => Listed(w)'
  <2>1. <<"recent", u>> \notin raced' => Listed(u)'
    BY <1>5, <1>7, <1>10 DEF Listed
  <2>2. \A w \in Traveller \ {u} : Listed(w)' <=> Listed(w)
    BY <1>7 DEF Listed
  <2>3. QED  BY <1>5, <2>1, <2>2 DEF PlacesInv
<1>12. \A w \in Traveller : IsFiniteSet(recent'[w]) /\ \A p \in recent'[w] : p.used \in Nat /\ p.used <= begun'
  BY <1>6, <1>7, <1>9 DEF PlacesInv
<1>13. \A d \in Client \ {c} : AboutPlace(d)'
  <2>1. \A w \in Traveller : <<"recent", w>> \notin calls[c].keys => recent'[w] = recent[w]
    BY <1>4, <1>7
  <2>2. QED  BY <1>5, <1>6, <2>1, OthersPickOn
<1>14. QED  BY <1>5, <1>6, <1>7, <1>11, <1>12, <1>13 DEF PlacesInv

LEMMA ListsAsTheyWere ==
  ASSUME PlacesInv, UNCHANGED requests, UNCHANGED places
  PROVE  PlacesInv'
<1>1. calls' = calls /\ raced' = raced /\ begun' = begun /\ recent' = recent
  BY DEF requests, places
<1>2. RequestsInv' /\ \A u \in Traveller : Listed(u)' <=> Listed(u)
  BY <1>1 DEF PlacesInv, RequestsInv, Listed
<1>3. ASSUME NEW d \in Client  PROVE AboutPlace(d)'
  <2>1. AboutPlace(d) /\ calls'[d] = calls[d]
    BY <1>1 DEF PlacesInv
  <2>2. Drop(recent[calls[d].read.user], calls[d].read.new)' =
            Drop(recent[calls[d].read.user], calls[d].read.new)
    BY <1>1 DEF Drop, NewestOf
  <2>3. QED  BY <1>1, <2>1, <2>2 DEF AboutPlace
<1>4. QED  BY <1>1, <1>2, <1>3 DEF PlacesInv

LEMMA RegionsLeaveLists ==
  ASSUME PlacesInv, NEW c \in Client,
         \/ \E d \in District, r \in Region : PutDistrict(c, d, r)
         \/ \E d \in District : DeleteDistrict(c, d)
         \/ \E r \in Region : CreateRegion(c, r) \/ DeleteRegion(c, r)
         \/ InsertRegion(c) \/ WriteDistrict(c) \/ DropRegion(c) \/ DropDistrict(c)
  PROVE  PlacesInv'
<1>1. \/ UNCHANGED places /\ \E answer : AnswerAtOnce(c, answer)
      \/ UNCHANGED places /\ \E op \in {"put", "drop_district", "region", "drop_region"} :
                                \E keys, read : Begin(c, op, keys, read)
      \/ recent' = recent /\ \E answer : Answer(c, answer)
  <2>1. CASE \E d \in District, r \in Region : PutDistrict(c, d, r)
    BY <2>1 DEF PutDistrict
  <2>2. CASE \E d \in District : DeleteDistrict(c, d)
    BY <2>2 DEF DeleteDistrict
  <2>3. CASE \E r \in Region : CreateRegion(c, r) \/ DeleteRegion(c, r)
    BY <2>3 DEF CreateRegion, DeleteRegion
  <2>4. CASE InsertRegion(c) \/ WriteDistrict(c) \/ DropRegion(c) \/ DropDistrict(c)
    BY <2>4 DEF InsertRegion, WriteDistrict, DropRegion, DropDistrict
  <2>5. QED  BY <2>1, <2>2, <2>3, <2>4
<1>2. ASSUME NEW answer, recent' = recent, AnswerAtOnce(c, answer) \/ Answer(c, answer)  PROVE PlacesInv'
  BY <1>2, AnsweredPlace, ListsStay
<1>3. ASSUME UNCHANGED places, NEW op \in {"put", "drop_district", "region", "drop_region"},
             NEW keys, NEW read, Begin(c, op, keys, read)
      PROVE  PlacesInv'
  BY <1>3, AskedOfPlaces
<1>4. UNCHANGED places => recent' = recent
  BY DEF places
<1>5. QED  BY <1>1, <1>2, <1>3, <1>4

LEMMA PlacesStep ==
  ASSUME PlacesAreRight, [Next]_vars
  PROVE  PlacesAreRight'
<1>1. CASE UNCHANGED vars
  BY <1>1, ListsAsTheyWere DEF vars, PlacesAreRight, places, NothingPicked
<1>2. CASE Next /\ area = "places"
  <2>1. PlacesInv /\ area' = area /\ PlacesNext
    BY <1>2, StepOfArea DEF PlacesAreRight
  <2>2. PICK c \in Client :
          \/ \E d \in District, u \in Traveller : Remember(c, u, d)
          \/ \E d \in District, r \in Region : PutDistrict(c, d, r)
          \/ \E d \in District : DeleteDistrict(c, d)
          \/ \E r \in Region : CreateRegion(c, r) \/ DeleteRegion(c, r)
          \/ InsertRegion(c) \/ WriteDistrict(c) \/ DropRegion(c) \/ DropDistrict(c)
          \/ WriteAndTrim(c) \/ CommitPlace(c)
    BY <2>1 DEF PlacesNext
  <2>3. PlacesInv'
    BY <2>1, <2>2, RememberKeeps, WriteAndTrimKeeps, CommitPlaceKeeps, RegionsLeaveLists
  <2>4. QED  BY <1>2, <2>1, <2>3 DEF PlacesAreRight
<1>3. CASE Next /\ area # "places"
  BY <1>3, StepOfArea DEF PlacesAreRight, places, NothingPicked
<1>4. QED  BY <1>1, <1>2, <1>3

LEMMA PlacesFollow == PlacesAreRight => RecentPlacesCapped
<1>1. NothingPicked => \A u \in Traveller : Listed(u)
  BY FS_EmptySet, PlacesAssumption DEF NothingPicked, Listed
<1>2. QED  BY <1>1 DEF PlacesAreRight, PlacesInv, Listed, RecentPlacesCapped

\* Whatever places anybody picks, in any order, while regions and districts come
\* and go: a list is no longer than the cap and names no district twice, unless
\* two requests of the same person overlapped.
THEOREM RecentPlacesStayCapped == Spec => []RecentPlacesCapped
<1>1. Init => PlacesAreRight
  BY PlacesInitially DEF PlacesAreRight
<1>2. QED  BY <1>1, PlacesStep, PlacesFollow, PTL DEF Spec
-----------------------------------------------------------------------------
(* Every area is typed.                                                      *)

\* What a request about regions and districts writes, it writes of those; a
\* district that is being picked is there.
AimsAtPlaces(c) ==
    LET x == calls[c].read IN
        /\ calls[c].op = "put" => x.district \in District /\ x.region \in Region
        /\ calls[c].op \in {"region", "drop_region"} => x \in Region
        /\ calls[c].op = "drop_district" => x \in District
        /\ calls[c].op \in {"remember", "trim"} => x.new.district \in District
        /\ calls[c].op = "trim" => There(x.new.district)

MapTyped ==
    /\ regions = [r \in Region |-> regions[r]]
    /\ districts = [d \in District |-> districts[d]]
    /\ recent = [u \in Traveller |-> recent[u]]
    /\ \A r \in Region : regions[r] \in {"there", Nowhere, Gone}
    /\ \A d \in District : There(d) => Live(districts[d])
    /\ \A u \in Traveller : \A p \in recent[u] : p.district \in District /\ There(p.district)

PlacesTyped == MapTyped /\ (area = "places" => \A c \in Client : AimsAtPlaces(c))

LEMMA PickingTyped ==
  ASSUME CallsTyped, MapTyped, \A c \in Client : AimsAtPlaces(c), NEW c \in Client,
         \/ \E u \in Traveller, d \in District : Remember(c, u, d)
         \/ WriteAndTrim(c) \/ CommitPlace(c)
  PROVE  MapTyped' /\ \A d \in Client : AimsAtPlaces(d)'
<1>1. CASE \E u \in Traveller, d \in District : Remember(c, u, d)
  <2>1. PICK u \in Traveller, d \in District : Remember(c, u, d)
    BY <1>1
  <2>2. PICK id, used, old : UNCHANGED places /\
            \/ \E answer : AnswerAtOnce(c, answer)
            \/ Begin(c, "remember", {<<"recent", u>>, <<"district", d>>},
                     [user |-> u, old |-> old, drop |-> {}, new |-> [district |-> d, used |-> used, id |-> id]])
    BY <2>1 DEF Remember
  <2>3. \/ calls'[c].op = "idle"
        \/ /\ calls'[c].op = "remember"
           /\ calls'[c].read = [user |-> u, old |-> old, drop |-> {},
                                new |-> [district |-> d, used |-> used, id |-> id]]
    BY <2>2, CallsMove
  <2>4. \A e \in Client \ {c} : calls'[e] = calls[e]
    BY <2>2, CallsMove
  <2>5. QED  BY <2>2, <2>3, <2>4 DEF places, MapTyped, AimsAtPlaces, There, Live
<1>2. CASE WriteAndTrim(c)
  <2>1. PICK x, drop : x = calls[c].read /\ drop = Drop(recent[x.user], x.new)
    OBVIOUS
  <2>2. PICK read : read = [x EXCEPT !.drop = drop]
    OBVIOUS
  <2>3. UNCHANGED places /\ calls[c].op = "remember" /\
            \/ \E answer : Answer(c, answer)
            \/ There(x.new.district) /\ Proceed(c, "trim", read)
    BY <1>2, <2>1, <2>2 DEF WriteAndTrim
  <2>4. read.new = x.new
    BY <2>2
  <2>5. \/ calls'[c].op = "idle"
        \/ calls'[c].op = "trim" /\ calls'[c].read = read /\ There(x.new.district)
    BY <2>3, CallsMove
  <2>6. \A e \in Client \ {c} : calls'[e] = calls[e]
    BY <2>3, CallsMove
  <2>7. regions' = regions /\ districts' = districts /\ recent' = recent
    BY <2>3 DEF places
  <2>8. x.new.district \in District
    BY <2>1, <2>3 DEF AimsAtPlaces
  <2>9. AimsAtPlaces(c)'
    BY <2>4, <2>5, <2>7, <2>8 DEF AimsAtPlaces, There
  <2>10. \A d \in Client \ {c} : AimsAtPlaces(d)'
    BY <2>6, <2>7 DEF AimsAtPlaces, There
  <2>11. QED  BY <2>7, <2>9, <2>10 DEF MapTyped, There, Live
<1>3. CASE CommitPlace(c)
  <2>1. PICK new, u, drop : new = calls[c].read.new /\ u = calls[c].read.user /\ drop = calls[c].read.drop
    OBVIOUS
  <2>2. /\ new.district \in District /\ There(new.district)
        /\ UNCHANGED <<regions, districts>> /\ Answer(c, Served)
        /\ recent' = [recent EXCEPT ![u] = {p \in @ : p.id # new.id /\ p.id \notin drop} \cup
                                           {p \in {new} : p.id \notin drop}]
    BY <1>3, <2>1 DEF CommitPlace, AimsAtPlaces
  <2>3. calls'[c].op = "idle" /\ \A e \in Client \ {c} : calls'[e] = calls[e]
    BY <2>2, CallsMove
  <2>4. \A d \in Client : AimsAtPlaces(d)'
    BY <2>2, <2>3 DEF AimsAtPlaces, There
  <2>5. \A w \in Traveller : \A p \in recent'[w] : p = new \/ p \in recent[w]
    BY <2>2 DEF MapTyped
  <2>6. recent' = [w \in Traveller |-> recent'[w]]
    BY <2>2 DEF MapTyped
  <2>7. QED  BY <2>2, <2>4, <2>5, <2>6 DEF MapTyped, There, Live
<1>4. QED  BY <1>1, <1>2, <1>3

LEMMA AskingTyped ==
  ASSUME CallsTyped, MapTyped, \A c \in Client : AimsAtPlaces(c), NEW c \in Client,
         \/ \E d \in District, r \in Region : PutDistrict(c, d, r)
         \/ \E d \in District : DeleteDistrict(c, d)
         \/ \E r \in Region : CreateRegion(c, r) \/ DeleteRegion(c, r)
  PROVE  MapTyped' /\ \A d \in Client : AimsAtPlaces(d)'
<1>1. UNCHANGED places /\
      \/ \E answer : AnswerAtOnce(c, answer)
      \/ \E d \in District, r \in Region :
            \E keys : Begin(c, "put", keys, [district |-> d, region |-> r])
      \/ \E op \in {"region", "drop_region"} : \E r \in Region : \E keys : Begin(c, op, keys, r)
      \/ \E d \in District : \E keys : Begin(c, "drop_district", keys, d)
  <2>1. ASSUME NEW d \in District, NEW r \in Region, PutDistrict(c, d, r)
        PROVE  UNCHANGED places /\ \E keys : Begin(c, "put", keys, [district |-> d, region |-> r])
    BY <2>1 DEF PutDistrict
  <2>2. ASSUME NEW d \in District, DeleteDistrict(c, d)
        PROVE  UNCHANGED places /\
                  ((\E answer : AnswerAtOnce(c, answer)) \/ \E keys : Begin(c, "drop_district", keys, d))
    BY <2>2 DEF DeleteDistrict
  <2>3. ASSUME NEW r \in Region, CreateRegion(c, r) \/ DeleteRegion(c, r)
        PROVE  UNCHANGED places /\
                  \/ \E answer : AnswerAtOnce(c, answer)
                  \/ \E op \in {"region", "drop_region"} : \E keys : Begin(c, op, keys, r)
    BY <2>3 DEF CreateRegion, DeleteRegion
  <2>4. QED  BY <2>1, <2>2, <2>3
<1>2. \A e \in Client \ {c} : calls'[e] = calls[e]
  <2>1. \/ \E answer : AnswerAtOnce(c, answer)
        \/ \E op, keys, read : Begin(c, op, keys, read)
    BY <1>1
  <2>2. QED  BY <2>1, CallsMove
<1>3. \/ calls'[c].op = "idle"
      \/ \E d \in District, r \in Region :
            calls'[c].op = "put" /\ calls'[c].read = [district |-> d, region |-> r]
      \/ calls'[c].op \in {"region", "drop_region"} /\ calls'[c].read \in Region
      \/ calls'[c].op = "drop_district" /\ calls'[c].read \in District
  <2>1. ASSUME NEW answer, AnswerAtOnce(c, answer)  PROVE calls'[c].op = "idle"
    BY <2>1, CallsMove
  <2>2. ASSUME NEW op, NEW keys, NEW read, Begin(c, op, keys, read)
        PROVE  calls'[c].op = op /\ calls'[c].read = read
    BY <2>2, CallsMove
  <2>3. QED  BY <1>1, <2>1, <2>2
<1>4. regions' = regions /\ districts' = districts /\ recent' = recent
  BY <1>1 DEF places
<1>5. AimsAtPlaces(c)'
  <2>1. CASE calls'[c].op = "idle"
    BY <2>1 DEF AimsAtPlaces
  <2>2. ASSUME NEW d \in District, NEW r \in Region,
               calls'[c].op = "put" /\ calls'[c].read = [district |-> d, region |-> r]
        PROVE  AimsAtPlaces(c)'
    BY <2>2 DEF AimsAtPlaces
  <2>3. CASE calls'[c].op \in {"region", "drop_region"} /\ calls'[c].read \in Region
    BY <2>3 DEF AimsAtPlaces
  <2>4. CASE calls'[c].op = "drop_district" /\ calls'[c].read \in District
    BY <2>4 DEF AimsAtPlaces
  <2>5. QED  BY <1>3, <2>1, <2>2, <2>3, <2>4
<1>6. \A e \in Client \ {c} : AimsAtPlaces(e)'
  BY <1>2, <1>4 DEF AimsAtPlaces, There
<1>7. MapTyped'
  BY <1>4 DEF MapTyped, There, Live
<1>8. QED  BY <1>5, <1>6, <1>7

\* A region goes when no district is in it, a district when it is on no list, of
\* a request in flight neither.
LEMMA WritingTyped ==
  ASSUME CallsTyped, MapTyped, \A c \in Client : AimsAtPlaces(c), NEW c \in Client,
         InsertRegion(c) \/ WriteDistrict(c) \/ DropRegion(c) \/ DropDistrict(c)
  PROVE  MapTyped' /\ \A d \in Client : AimsAtPlaces(d)'
<1>1. recent' = recent /\ \E answer : Answer(c, answer)
  <2>1. CASE InsertRegion(c) \/ WriteDistrict(c)
    BY <2>1 DEF InsertRegion, WriteDistrict
  <2>2. CASE DropRegion(c) \/ DropDistrict(c)
    BY <2>2 DEF DropRegion, DropDistrict
  <2>3. QED  BY <2>1, <2>2
<1>2. calls'[c].op = "idle" /\ \A e \in Client \ {c} : calls'[e] = calls[e]
  BY <1>1, CallsMove
<1>3. /\ regions' = [r \in Region |-> regions'[r]] /\ districts' = [d \in District |-> districts'[d]]
      /\ \A r \in Region : regions'[r] \in {"there", Nowhere, Gone}
      /\ \A d \in District : districts'[d] \in Region => regions'[districts'[d]] = "there"
      /\ \A d \in District : districts[d] \in Region => districts'[d] \in Region \/ (DropDistrict(c) /\ d = calls[c].read)
  <2>1. CASE InsertRegion(c)
    BY <2>1, PlacesAssumption DEF InsertRegion, MapTyped, AimsAtPlaces, There, Live
  <2>2. CASE WriteDistrict(c)
    BY <2>2, PlacesAssumption DEF WriteDistrict, MapTyped, AimsAtPlaces, There, Live
  <2>3. CASE DropRegion(c)
    BY <2>3, PlacesAssumption DEF DropRegion, EmptyRegion, MapTyped, AimsAtPlaces, There, Live
  <2>4. CASE DropDistrict(c)
    BY <2>4, PlacesAssumption DEF DropDistrict, MapTyped, AimsAtPlaces, There, Live
  <2>5. QED  BY <2>1, <2>2, <2>3, <2>4
<1>4. \A u \in Traveller : \A p \in recent[u] : p.district \in District /\ districts'[p.district] \in Region
  <2>1. ASSUME NEW u \in Traveller, NEW p \in recent[u], DropDistrict(c), districts' # districts
        PROVE  p.district # calls[c].read
    BY <2>1 DEF DropDistrict, Picked
  <2>2. QED  BY <1>3, <2>1 DEF MapTyped, There
<1>5. \A e \in Client \ {c} : calls[e].op = "trim" => districts'[calls[e].read.new.district] \in Region
  <2>1. ASSUME NEW e \in Client, calls[e].op = "trim", DropDistrict(c)
        PROVE  calls[e].read.new.district # calls[c].read
    BY <2>1 DEF DropDistrict
  <2>2. QED  BY <1>3, <2>1 DEF AimsAtPlaces, There
<1>6. MapTyped'
  BY <1>1, <1>3, <1>4 DEF MapTyped, There, Live
<1>7. AimsAtPlaces(c)' /\ \A e \in Client \ {c} : AimsAtPlaces(e)'
  BY <1>2, <1>5 DEF AimsAtPlaces, There
<1>8. QED  BY <1>6, <1>7

\* Regions and districts are what the types say.
LEMMA MapStaysTyped == Spec => []PlacesTypeOK
<1>1. Init => PlacesTyped
  <2> SUFFICES ASSUME Init PROVE PlacesTyped
    OBVIOUS
  <2>1. MapTyped
    BY PlacesAssumption DEF Init, PlacesInit, MapTyped, There, Live
  <2>2. \A c \in Client : AimsAtPlaces(c)
    BY DEF Init, RequestsInit, Idle, AimsAtPlaces
  <2>3. QED  BY <2>1, <2>2 DEF PlacesTyped
<1>2. OneArea /\ PlacesTyped /\ [Next]_vars => PlacesTyped'
  <2> SUFFICES ASSUME OneArea, PlacesTyped, [Next]_vars PROVE PlacesTyped'
    OBVIOUS
  <2>1. ASSUME UNCHANGED places  PROVE MapTyped'
    BY <2>1 DEF places, PlacesTyped, MapTyped, There, Live
  <2>2. CASE UNCHANGED vars
    BY <2>1, <2>2 DEF vars, requests, places, PlacesTyped, AimsAtPlaces, There
  <2>3. CASE Next /\ area = "places"
    <3>1. area' = area /\ PlacesNext /\ CallsTyped /\ MapTyped /\ \A c \in Client : AimsAtPlaces(c)
      BY <2>3, StepOfArea DEF OneArea, PlacesTyped
    <3>2. MapTyped' /\ \A c \in Client : AimsAtPlaces(c)'
      BY <3>1, PickingTyped, AskingTyped, WritingTyped DEF PlacesNext
    <3>3. QED  BY <3>1, <3>2 DEF PlacesTyped
  <2>4. CASE Next /\ area # "places"
    BY <2>1, <2>4, StepOfArea DEF PlacesTyped
  <2>5. QED  BY <2>2, <2>3, <2>4
<1>3. PlacesTyped => PlacesTypeOK
  BY DEF PlacesTyped, MapTyped, PlacesTypeOK
<1> HIDE DEF OneArea, PlacesTyped
<1>4. QED  BY <1>1, <1>2, <1>3, CallsInvariant, PTL DEF Spec

\* The id that is kept is one that Telegram has given.
BannerTyped == valid \in Nat /\ banner \in 0..valid

LEMMA ChatsTyped == Spec => []BotTypeOK
<1>1. Init => BotIsRight /\ BannerTyped
  <2>1. Init => BannerTyped
    BY DEF Init, BotInit, NoBanner, BannerTyped
  <2>2. QED  BY <2>1, BotInitially DEF BotIsRight
<1>2. BannerTyped /\ [Next]_vars => BannerTyped'
  <2> SUFFICES ASSUME BannerTyped, [Next]_vars PROVE BannerTyped'
    OBVIOUS
  <2>1. CASE UNCHANGED chats
    BY <2>1 DEF chats, BannerTyped
  <2>2. CASE Next /\ area = "bot"
    <3>1. BotNext
      BY <2>2, StepOfArea
    <3>2. CASE Forget
      BY <3>2 DEF Forget, BannerTyped
    <3>3. CASE ~Forget
      <4>1. valid' = valid /\ banner' \in {banner, valid, NoBanner}
        BY <3>1, <3>3 DEF BotNext, Handle, PhotoSent, PhotoRefused, WordsSent, Raised, Acknowledge,
           Restart, chats
      <4>2. QED  BY <4>1 DEF BannerTyped, NoBanner
    <3>4. QED  BY <3>2, <3>3
  <2>3. CASE Next /\ area # "bot"
    BY <2>1, <2>3, StepOfArea
  <2>4. CASE UNCHANGED vars
    BY <2>1, <2>4 DEF vars
  <2>5. QED  BY <2>2, <2>3, <2>4
<1>3. BotIsRight /\ BannerTyped => BotTypeOK
  BY DEF BotIsRight, BotInv, BotInit, BannerTyped, BotTypeOK
<1> HIDE DEF BotIsRight, BannerTyped
<1>4. QED  BY <1>1, <1>2, <1>3, BotStep, PTL DEF Spec

\* What is saved, and what a request saves or not, is a place of a guest.
Saves(c) == calls[c].op = "toggle" => calls[c].read.of \in Guest \X Place

SavedTyped ==
    /\ saved \subseteq Guest \X Place
    /\ area = "inbox" => \A c \in Client : Saves(c)

LEMMA SavingTyped ==
  ASSUME CallsTyped, \A c \in Client : Saves(c), saved \subseteq Guest \X Place, InboxNext
  PROVE  saved' \subseteq Guest \X Place /\ \A c \in Client : Saves(c)'
<1>1. ASSUME NEW c \in Client, NEW op, NEW keys, NEW read, op # "toggle" \/ read.of \in Guest \X Place,
             Begin(c, op, keys, read), saved' = saved
      PROVE  saved' \subseteq Guest \X Place /\ \A d \in Client : Saves(d)'
  BY <1>1, CallsMove DEF Saves
<1>2. ASSUME NEW c \in Client, NEW answer, Answer(c, answer) \/ AnswerAtOnce(c, answer),
             saved' \subseteq Guest \X Place
      PROVE  saved' \subseteq Guest \X Place /\ \A d \in Client : Saves(d)'
  BY <1>2, CallsMove DEF Saves
<1>3. ASSUME NEW c \in Client, NEW u \in Guest, NEW v \in Place, Toggle(c, u, v)
      PROVE  saved' \subseteq Guest \X Place /\ \A d \in Client : Saves(d)'
  <2>1. PICK read : read = [of |-> <<u, v>>, exists |-> <<u, v>> \in saved]
    OBVIOUS
  <2>2. Begin(c, "toggle", {<<"saved", u, v>>}, read) /\ saved' = saved /\ read.of \in Guest \X Place
    BY <1>3, <2>1 DEF Toggle, inbox
  <2>3. QED  BY <1>1, <2>2
<1>4. ASSUME NEW c \in Client, Toggled(c)
      PROVE  saved' \subseteq Guest \X Place /\ \A d \in Client : Saves(d)'
  <2>1. calls[c].read.of \in Guest \X Place
    BY <1>4 DEF Toggled, Saves
  <2>2. saved' \subseteq Guest \X Place
    BY <1>4, <2>1 DEF Toggled
  <2>3. \E answer : Answer(c, answer)
    BY <1>4 DEF Toggled
  <2>4. QED  BY <1>2, <2>2, <2>3
<1>5. ASSUME NEW c \in Client, NEW u, NEW v, NEW stay, OpenThread(c, u, v, stay)
      PROVE  saved' \subseteq Guest \X Place /\ \A d \in Client : Saves(d)'
  <2>1. saved' = saved
    BY <1>5 DEF OpenThread, inbox
  <2>2. \/ \E keys, read : Begin(c, "thread", keys, read) \/ Begin(c, "stay", keys, read)
        \/ \E answer : AnswerAtOnce(c, answer)
    BY <1>5 DEF OpenThread
  <2>3. QED  BY <1>1, <1>2, <2>1, <2>2
<1>6. ASSUME NEW c \in Client, NEW x, NEW y, Send(c, x, y) \/ Befriend(c, x, y)
      PROVE  saved' \subseteq Guest \X Place /\ \A d \in Client : Saves(d)'
  <2>1. saved' = saved
    BY <1>6 DEF Send, Befriend, inbox
  <2>2. \/ \E keys, read : Begin(c, "send", keys, read) \/ Begin(c, "befriend", keys, read)
        \/ \E answer : AnswerAtOnce(c, answer)
    BY <1>6 DEF Send, Befriend
  <2>3. QED  BY <1>1, <1>2, <2>1, <2>2
<1>7. ASSUME NEW c \in Client, \/ InsertThread(c) \/ AttachStay(c) \/ Deliver(c) \/ InsertTie(c)
                               \/ \E x, y : MarkRead(c, x, y) \/ Respond(c, x, y)
      PROVE  saved' \subseteq Guest \X Place /\ \A d \in Client : Saves(d)'
  <2>1. saved' = saved
    BY <1>7 DEF InsertThread, AttachStay, Deliver, InsertTie, MarkRead, Respond
  <2>2. \E answer : Answer(c, answer) \/ AnswerAtOnce(c, answer)
    BY <1>7 DEF InsertThread, AttachStay, Deliver, InsertTie, MarkRead, Respond
  <2>3. QED  BY <1>2, <2>1, <2>2
<1>8. QED  BY <1>3, <1>4, <1>5, <1>6, <1>7 DEF InboxNext

LEMMA InboxStaysTyped == Spec => []InboxTypeOK
<1>1. Init => InboxIsRight /\ SavedTyped
  <2>1. Init => SavedTyped
    BY DEF Init, InboxInit, RequestsInit, Idle, SavedTyped, Saves
  <2>2. QED  BY <2>1, InboxInitially DEF InboxIsRight
<1>2. OneArea /\ SavedTyped /\ [Next]_vars => SavedTyped'
  <2> SUFFICES ASSUME OneArea, SavedTyped, [Next]_vars PROVE SavedTyped'
    OBVIOUS
  <2>1. CASE UNCHANGED vars
    BY <2>1 DEF vars, requests, inbox, SavedTyped, Saves
  <2>2. CASE Next /\ area = "inbox"
    <3>1. area' = area /\ InboxNext
      BY <2>2, StepOfArea
    <3>2. QED  BY <2>2, <3>1, SavingTyped DEF SavedTyped, OneArea
  <2>3. CASE Next /\ area # "inbox"
    BY <2>3, StepOfArea DEF SavedTyped, inbox
  <2>4. QED  BY <2>1, <2>2, <2>3
<1>3. InboxIsRight /\ SavedTyped => InboxTypeOK
  <2> SUFFICES ASSUME InboxIsRight, SavedTyped PROVE InboxTypeOK
    OBVIOUS
  <2>1. CASE InboxInit
    BY <2>1 DEF InboxInit, SavedTyped, InboxTypeOK
  <2>2. CASE InboxInv
    <3>1. /\ \A t \in DOMAIN threads : threads[t] \in ThreadRow
          /\ \A t \in DOMAIN ties : ties[t] \in TieRow
          /\ \A m \in DOMAIN messages : messages[m].thread \in DOMAIN threads
      BY <2>2, InboxRows DEF InboxInv, RowsOfInbox
    <3>2. /\ \A t \in DOMAIN threads : threads[t].stay \in Stay \cup {NoStay} /\ threads[t].last \in Nat
          /\ \A t \in DOMAIN ties : ties[t].status \in {"pending", "accepted", "blocked"}
      BY <3>1 DEF ThreadRow, TieRow
    <3>3. QED  BY <3>1, <3>2 DEF SavedTyped, InboxTypeOK
  <2>3. QED  BY <2>1, <2>2 DEF InboxIsRight
<1> HIDE DEF InboxIsRight, SavedTyped, OneArea
<1>4. QED  BY <1>1, <1>2, <1>3, CallsInvariant, InboxStep, PTL DEF Spec

\* The stars of some reviews are as many as their marks say, and the reviews no
\* more than there are.
LEMMA ScoresAreNumbers ==
  ASSUME ReviewsTyped, NEW rs, rs \subseteq DOMAIN reviews
  PROVE  Score(rs).sum \in Nat /\ Score(rs).count \in 0..Len(reviews)
<1>1. Len(reviews) \in Nat /\ DOMAIN reviews = 1..Len(reviews)
      /\ \A r \in DOMAIN reviews : reviews[r].mark \in Nat
  <2>1. reviews \in Seq(ReviewRow)
    BY DEF ReviewsTyped
  <2>2. \A r \in DOMAIN reviews : reviews[r] \in ReviewRow
    BY <2>1
  <2>3. \A row \in ReviewRow : row.mark \in Nat
    BY ReviewsAssumption DEF ReviewRow
  <2>4. QED  BY <2>1, <2>2, <2>3
<1>2. IsFiniteSet(rs) /\ Cardinality(rs) \in 0..Len(reviews)
  <2>1. IsFiniteSet(DOMAIN reviews) /\ Cardinality(DOMAIN reviews) = Len(reviews)
    BY <1>1, FS_Interval
  <2>2. IsFiniteSet(rs) /\ Cardinality(rs) <= Cardinality(DOMAIN reviews)
    BY <2>1, FS_Subset
  <2>3. QED  BY <1>1, <2>1, <2>2, FS_CardinalityType
<1>3. IsFiniteSet(Stars(rs))
  <2>1. PICK given : given = {{r} \X (1..reviews[r].mark) : r \in rs}
    OBVIOUS
  <2>2. PICK of : of = [r \in rs |-> {r} \X (1..reviews[r].mark)]
    OBVIOUS
  <2>3. of \in Surjection(rs, given)
    BY <2>1, <2>2 DEF Surjection
  <2>4. IsFiniteSet(given)
    BY <1>2, <2>3, FS_Surjection
  <2>5. ASSUME NEW r \in rs  PROVE IsFiniteSet({r} \X (1..reviews[r].mark))
    <3>1. PICK m \in Nat : m = reviews[r].mark
      BY <1>1
    <3>2. IsFiniteSet(1..m)
      <4>1. 1 \in Int /\ m \in Int
        BY <3>1
      <4>2. QED  BY <4>1, FS_Interval
    <3>3. QED  BY <3>1, <3>2, FS_Singleton, FS_Product
  <2>6. \A given1 \in given : IsFiniteSet(given1)
    BY <2>1, <2>5
  <2>7. IsFiniteSet(UNION given)
    BY <2>4, <2>6, FS_UNION
  <2>8. QED  BY <2>1, <2>7 DEF Stars
<1>4. QED  BY <1>2, <1>3, FS_CardinalityType DEF Score

\* A number of stars and one of reviews, of which there are n.
IsRating(score, n) == score.sum \in Nat /\ score.count \in 0..n

Rates(c) == calls[c].op = "publish" => IsRating(calls[c].read.score, Len(reviews))

ScoresTyped ==
    /\ \A v \in Reviewed : IsRating(scores[v], Len(reviews))
    /\ area = "reviews" => \A c \in Client : Rates(c)

LEMMA RatingTyped ==
  ASSUME CallsTyped, ReviewsInv, ReviewsTyped', \A c \in Client : Rates(c), ReviewsNext,
         \A v \in Reviewed : IsRating(scores[v], Len(reviews))
  PROVE  /\ \A v \in Reviewed : IsRating(scores'[v], Len(reviews'))
         /\ \A c \in Client : Rates(c)'
<1>1. Len(reviews) \in Nat /\ Len(reviews') \in Nat /\ reviews \in Seq(ReviewRow)
      /\ scores = [v \in Reviewed |-> scores[v]]
  BY DEF ReviewsInv, ReviewsTyped
<1>2. ASSUME NEW score, IsRating(score, Len(reviews)), Len(reviews) <= Len(reviews')
      PROVE  IsRating(score, Len(reviews'))
  BY <1>1, <1>2 DEF IsRating
<1>3. PICK c \in Client :
        \/ \E u \in GuestsOfVisits, b \in DOMAIN Visits, m \in Marks : Review(c, u, b, m)
        \/ \E r \in DOMAIN reviews : Publish(c, r)
        \/ \E u \in GuestsOfVisits : Depart(c, u)
        \/ InsertReview(c) \/ WriteScore(c) \/ Anonymise(c)
  BY DEF ReviewsNext
<1>4. Len(reviews) <= Len(reviews')
  <2>1. CASE InsertReview(c)
    BY <1>1, <2>1 DEF InsertReview
  <2>2. CASE WriteScore(c)
    BY <1>1, <2>2 DEF WriteScore
  <2>3. CASE Anonymise(c)
    <3>1. DOMAIN reviews' = DOMAIN reviews
      BY <2>3 DEF Anonymise
    <3>2. QED  BY <1>1, <3>1 DEF ReviewsTyped
  <2>4. CASE reviews' = reviews
    BY <1>1, <2>4
  <2>5. QED  BY <1>3, <2>1, <2>2, <2>3, <2>4 DEF Review, Publish, Depart, opinions
<1>5. \A d \in Client \ {c} : calls'[d] = calls[d]
  <2>1. ASSUME NEW u, NEW b, NEW m, Review(c, u, b, m)  PROVE \A d \in Client \ {c} : calls'[d] = calls[d]
    BY <2>1, CallsMove DEF Review
  <2>2. CASE \E r \in DOMAIN reviews : Publish(c, r)
    BY <2>2, CallsMove DEF Publish
  <2>3. CASE \E u \in GuestsOfVisits : Depart(c, u)
    BY <2>3, CallsMove DEF Depart
  <2>4. CASE InsertReview(c) \/ WriteScore(c) \/ Anonymise(c)
    BY <2>4, CallsMove DEF InsertReview, WriteScore, Anonymise
  <2>5. QED  BY <1>3, <2>1, <2>2, <2>3, <2>4
<1>6. \A d \in Client \ {c} : Rates(d)'
  BY <1>2, <1>4, <1>5 DEF Rates
<1>7. Rates(c)'
  <2>1. ASSUME NEW u, NEW b, NEW m, Review(c, u, b, m)  PROVE calls'[c].op # "publish"
    BY <2>1, CallsMove DEF Review
  <2>2. ASSUME NEW u, Depart(c, u)  PROVE calls'[c].op # "publish"
    BY <2>2, CallsMove DEF Depart
  <2>3. CASE InsertReview(c) \/ WriteScore(c) \/ Anonymise(c)
    BY <2>3, CallsMove DEF InsertReview, WriteScore, Anonymise, Rates
  <2>4. ASSUME NEW r \in DOMAIN reviews, Publish(c, r)  PROVE Rates(c)'
    <3>1. PICK score : score = Score(Counted(r))
      OBVIOUS
    <3>2. PICK read : read = [review |-> r, score |-> score]
      OBVIOUS
    <3>3. IsRating(score, Len(reviews))
      <4>1. Counted(r) \subseteq DOMAIN reviews
        BY <2>4 DEF Counted, Published
      <4>2. QED  BY <3>1, <4>1, ScoresAreNumbers DEF IsRating, ReviewsInv
    <3>4. Begin(c, "publish", {<<"score", BranchOf(r)>>}, read)
      BY <2>4, <3>1, <3>2 DEF Publish
    <3>5. calls'[c].read = read /\ read.score = score
      BY <3>2, <3>4, CallsMove
    <3>6. QED  BY <1>2, <1>4, <3>3, <3>5 DEF Rates
  <2>5. QED  BY <1>3, <2>1, <2>2, <2>3, <2>4 DEF Rates
<1>8. ASSUME NEW v \in Reviewed  PROVE IsRating(scores'[v], Len(reviews'))
  <2>1. CASE WriteScore(c)
    <3>1. IsRating(calls[c].read.score, Len(reviews))
      BY <2>1 DEF WriteScore, Rates
    <3>2. scores'[v] \in {scores[v], calls[c].read.score}
      BY <1>1, <2>1 DEF WriteScore
    <3>3. QED  BY <1>2, <1>4, <3>1, <3>2
  <2>2. CASE scores' = scores
    BY <1>2, <1>4, <2>2
  <2>3. QED  BY <1>3, <2>1, <2>2 DEF Review, Publish, Depart, InsertReview, Anonymise, opinions
<1>9. QED  BY <1>6, <1>7, <1>8

LEMMA OpinionsTyped == Spec => []ReviewsTypeOK
<1>1. Init => ReviewsAreRight /\ ScoresTyped
  <2> SUFFICES ASSUME Init PROVE ReviewsAreRight /\ ScoresTyped
    OBVIOUS
  <2>1. ReviewsInv
    BY ReviewsInitially
  <2>2. Len(reviews) \in Nat
    BY <2>1 DEF ReviewsInv, ReviewsTyped
  <2>3. \A v \in Reviewed : scores[v] = [sum |-> 0, count |-> 0]
    BY DEF Init, ReviewsInit
  <2>4. \A c \in Client : calls[c].op = "idle"
    BY DEF Init, RequestsInit, Idle
  <2>5. ScoresTyped
    BY <2>2, <2>3, <2>4 DEF ScoresTyped, IsRating, Rates
  <2>6. QED  BY <2>5, ReviewsInitially DEF ReviewsAreRight
<1>2. OneArea /\ ReviewsAreRight /\ ReviewsAreRight' /\ ScoresTyped /\ [Next]_vars => ScoresTyped'
  <2> SUFFICES ASSUME OneArea, ReviewsAreRight, ReviewsAreRight', ScoresTyped, [Next]_vars
               PROVE  ScoresTyped'
    OBVIOUS
  <2>1. CASE UNCHANGED vars
    BY <2>1 DEF vars, requests, opinions, ScoresTyped, Rates
  <2>2. CASE Next /\ area = "reviews"
    <3>1. area' = area /\ ReviewsNext /\ ReviewsInv /\ ReviewsTyped' /\ CallsTyped
      BY <2>2, StepOfArea DEF ReviewsAreRight, ReviewsInv, OneArea
    <3>2. QED  BY <2>2, <3>1, RatingTyped DEF ScoresTyped
  <2>3. CASE Next /\ area # "reviews"
    BY <2>3, StepOfArea DEF ScoresTyped, opinions
  <2>4. QED  BY <2>1, <2>2, <2>3
<1>3. ReviewsAreRight /\ ScoresTyped => ReviewsTypeOK
  <2> SUFFICES ASSUME ReviewsAreRight, ScoresTyped PROVE ReviewsTypeOK
    OBVIOUS
  <2>1. ReviewsTyped /\ departed \subseteq GuestsOfVisits
    BY DEF ReviewsAreRight, ReviewsInv, ReviewsAtRest
  <2>2. \A r \in DOMAIN reviews : reviews[r] \in ReviewRow
    BY <2>1 DEF ReviewsTyped
  <2>3. \A r \in DOMAIN reviews : reviews[r].visit \in DOMAIN Visits /\ reviews[r].mark \in Marks
    BY <2>2 DEF ReviewRow
  <2>4. QED  BY <2>1, <2>3 DEF ScoresTyped, IsRating, ReviewsTypeOK
<1> HIDE DEF ReviewsAreRight, ScoresTyped, OneArea
<1>4. QED  BY <1>1, <1>2, <1>3, CallsInvariant, ReviewsStep, PTL DEF Spec

\* Whatever requests arrive in whatever area, in any order: every row is of its
\* type and points at rows that are there, the counters count what there is, and
\* a request that has not been answered is about something.
THEOREM PlatformIsTyped == Spec => []PlatformTypeOK
<1>1. OneArea => /\ area \in Areas /\ begun \in 0..MaxCalls
                 /\ \A c \in Client : calls[c].op # "idle" => calls[c].keys # {}
  BY DEF OneArea, CallsTyped
<1>2. /\ OneArea
      /\ AccountsTypeOK /\ StaffTypeOK /\ BranchesTypeOK /\ ReviewsTypeOK
      /\ MenuTypeOK /\ InboxTypeOK /\ PlacesTypeOK /\ BotTypeOK
      => PlatformTypeOK
  BY <1>1 DEF PlatformTypeOK
<1>3. QED
  BY <1>2, CallsInvariant, AccountsTyped, StaffTyped, BranchesTyped, OpinionsTyped, MenuTyped,
     InboxStaysTyped, MapStaysTyped, ChatsTyped, PTL
=============================================================================
