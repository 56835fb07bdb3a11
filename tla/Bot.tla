--------------------------------- MODULE Bot ---------------------------------
(***************************************************************************)
(* The Telegram bot (modules/telegram): a command is answered with the     *)
(* banner, sent by the id Telegram gave it or uploaded, and with words     *)
(* alone when the banner is refused.  Every error is swallowed and every   *)
(* update acknowledged; a worker that stops acknowledges nothing, and      *)
(* Telegram delivers again.                                                *)
(***************************************************************************)
EXTENDS Requests

CONSTANT Update   \* the updates that carry a command

VARIABLES
    acked,    \* the updates Telegram has had a 200 for
    banner,   \* _banner_ids: the id kept for the next reply
    valid,    \* the id under which Telegram knows the picture
    replies,  \* replies[u]: the messages that reached the chat
    faults    \* faults[u]: what Telegram did to the calls made for u

chats == <<acked, banner, valid, replies, faults>>

NoBanner == 0

BotInit ==
    /\ acked = {}
    /\ banner = NoBanner
    /\ valid = 1
    /\ replies = [u \in Update |-> 0]
    /\ faults = [u \in Update |-> {}]

\* handle: a command, and the id that is cached now.
Handle(c, u) ==
    /\ u \notin acked
    /\ \A d \in Client : <<"update", u>> \notin calls[d].keys
    /\ Begin(c, "photo", {<<"update", u>>}, [update |-> u, cached |-> banner])
    /\ UNCHANGED chats

Reached(u) == replies' = [replies EXCEPT ![u] = @ + 1]
Met(u, fault) == faults' = [faults EXCEPT ![u] = @ \cup {fault}]
Done(c) == Proceed(c, "done", calls[c].read)

\* 200 for an upload or for an id that is still good.
PhotoSent(c) ==
    /\ calls[c].op = "photo"
    /\ LET r == calls[c].read IN
        /\ r.cached \in {NoBanner, valid}
        /\ Reached(r.update)
        /\ banner' = IF r.cached = NoBanner THEN valid ELSE banner
    /\ Done(c)
    /\ UNCHANGED <<acked, valid, faults>>

\* What follows a refused picture: the words.
\* Mutant: the refusal is taken for an answer.
NothingMore(c) == Done(c)
WordsNext(c) == Proceed(c, "words", calls[c].read)

\* Any other status: whatever is cached by now is dropped.
PhotoRefused(c) ==
    /\ calls[c].op = "photo"
    /\ banner' = NoBanner
    /\ Met(calls[c].read.update, "photo_refused")
    /\ WordsNext(c)
    /\ UNCHANGED <<acked, valid, replies>>

WordsSent(c, fine) ==
    /\ calls[c].op = "words"
    /\ LET u == calls[c].read.update IN
        IF fine THEN Reached(u) /\ UNCHANGED faults
        ELSE Met(u, "words_refused") /\ UNCHANGED replies
    /\ Done(c)
    /\ UNCHANGED <<acked, banner, valid>>

\* A call that raises, a timeout for one: nothing else is tried, and the message
\* may have arrived or not.
Raised(c, arrived) ==
    /\ calls[c].op \in {"photo", "words"}
    /\ LET u == calls[c].read.update IN
        /\ IF arrived THEN Reached(u) ELSE UNCHANGED replies
        /\ Met(u, "raised")
    /\ Done(c)
    /\ UNCHANGED <<acked, banner, valid>>

\* The webhook answers 200.
Acknowledge(c) ==
    /\ calls[c].op = "done"
    /\ acked' = acked \cup {calls[c].read.update}
    /\ Answer(c, Served)
    /\ UNCHANGED <<banner, valid, replies, faults>>

\* Telegram forgets the picture.
Forget ==
    /\ banner = valid
    /\ valid' = valid + 1
    /\ UNCHANGED <<requests, acked, banner, replies, faults>>

\* The worker stops with what it was doing and all it had cached.
Restart ==
    /\ \E c \in Client : calls[c].op # "idle"
    /\ calls' = [c \in Client |-> Idle]
    /\ banner' = NoBanner
    /\ faults' = [u \in Update |->
           IF \E c \in Client : <<"update", u>> \in calls[c].keys
           THEN faults[u] \cup {"restart"} ELSE faults[u]]
    /\ UNCHANGED <<begun, raced, acked, valid, replies>>

BotNext ==
    \/ \E c \in Client :
        \/ \E u \in Update : Handle(c, u)
        \/ PhotoSent(c) \/ PhotoRefused(c)
        \/ \E fine \in BOOLEAN : WordsSent(c, fine)
        \/ \E arrived \in BOOLEAN : Raised(c, arrived)
        \/ Acknowledge(c)
    \/ Forget \/ Restart
-----------------------------------------------------------------------------
BotTypeOK ==
    /\ acked \subseteq Update
    /\ banner \in 0..valid
    /\ \A u \in Update : replies[u] \in Nat

\* A command is answered once.  Nothing reaches the chat only when a call raised
\* or both were refused; more than one message only when a worker stopped
\* between sending and acknowledging.
AnsweredOnce ==
    \A u \in acked :
        /\ replies[u] = 0 => "raised" \in faults[u] \/ {"photo_refused", "words_refused"} \subseteq faults[u]
        /\ replies[u] > 1 => "restart" \in faults[u]
=============================================================================
