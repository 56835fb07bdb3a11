--------------------------- MODULE PlatformProofs ---------------------------
(* What the proofs about every area of the platform share: a behaviour is   *)
(* the traffic of one area, and what `raced' holds.  Then the machine-       *)
(* checked theorems about accounts and sessions, for any number of           *)
(* accounts, connections and requests.                                       *)
EXTENDS Platform, TLAPS

\* Two requests that are about the same thing are known to be.
RequestsInv ==
    /\ calls = [c \in Client |-> calls[c]]
    /\ \A c, d \in Client : c # d => calls[c].keys \cap calls[d].keys \subseteq raced

LEMMA RequestsInitially == RequestsInit => RequestsInv
  BY DEF RequestsInit, RequestsInv, Idle

\* A request that begins is known to overlap with all that are under way.
LEMMA BeginRequest ==
  ASSUME RequestsInv, NEW c \in Client, NEW STATE op, NEW STATE keys, NEW STATE read,
         Begin(c, op, keys, read)
  PROVE  /\ RequestsInv'
         /\ raced \subseteq raced'
         /\ calls'[c] = [op |-> op, keys |-> keys, read |-> read]
         /\ \A d \in Client \ {c} : calls'[d] = calls[d]
<1>1. /\ calls'[c] = [op |-> op, keys |-> keys, read |-> read]
      /\ \A d \in Client \ {c} : calls'[d] = calls[d]
      /\ calls' = [d \in Client |-> calls'[d]]
  BY DEF Begin, RequestsInv
<1>2. raced \subseteq raced'
  BY DEF Begin
<1>3. \A d \in Client : keys \cap calls[d].keys \subseteq raced'
  BY DEF Begin
<1>4. ASSUME NEW d \in Client, NEW e \in Client, d # e
      PROVE  calls'[d].keys \cap calls'[e].keys \subseteq raced'
  <2>1. CASE d = c
    BY <1>1, <1>3, <1>4, <2>1
  <2>2. CASE e = c
    BY <1>1, <1>3, <1>4, <2>2
  <2>3. CASE d # c /\ e # c
    BY <1>1, <1>2, <1>4, <2>3 DEF RequestsInv
  <2>4. QED  BY <2>1, <2>2, <2>3
<1>5. QED  BY <1>1, <1>2, <1>4 DEF RequestsInv

\* One that is answered is about nothing any more.
LEMMA AnswerRequest ==
  ASSUME RequestsInv, NEW c \in Client, NEW STATE answer,
         Answer(c, answer) \/ AnswerAtOnce(c, answer)
  PROVE  /\ RequestsInv'
         /\ raced' = raced
         /\ calls'[c] = [op |-> "idle", keys |-> {}, answer |-> answer]
         /\ \A d \in Client \ {c} : calls'[d] = calls[d]
<1>1. /\ calls' = [calls EXCEPT ![c] = [op |-> "idle", keys |-> {}, answer |-> answer]]
      /\ raced' = raced
  BY DEF Answer, AnswerAtOnce, Idle
<1>2. QED  BY <1>1 DEF RequestsInv

\* What a step of a request leaves where it was, apart from its own connection.
LEMMA ProceedRequest ==
  ASSUME RequestsInv, NEW c \in Client, NEW STATE op, NEW STATE keys, NEW STATE read,
         calls[c] = [op |-> calls[c].op, keys |-> calls[c].keys, read |-> calls[c].read],
         Proceed(c, op, read)
  PROVE  /\ RequestsInv' /\ raced' = raced
         /\ calls'[c] = [op |-> op, keys |-> calls[c].keys, read |-> read]
         /\ \A d \in Client \ {c} : calls'[d] = calls[d]
<1> DEFINE was == calls[c].op
           k == calls[c].keys
           r == calls[c].read
           named == [calls[c] EXCEPT !.op = op]
<1>1. calls = [d \in Client |-> calls[d]] /\ calls[c] = [op |-> was, keys |-> k, read |-> r]
  BY DEF RequestsInv
<1>2. calls' = [calls EXCEPT ![c] = [named EXCEPT !.read = read]] /\ raced' = raced
  BY <1>1 DEF Proceed
<1> HIDE DEF was, k, r
<1>3. named = [op |-> op, keys |-> k, read |-> r]
  BY <1>1
<1> HIDE DEF named
<1>4. [named EXCEPT !.read = read] = [op |-> op, keys |-> k, read |-> read]
  BY <1>3
<1>5. /\ calls'[c] = [op |-> op, keys |-> k, read |-> read]
      /\ \A d \in Client \ {c} : calls'[d] = calls[d]
      /\ calls' = [d \in Client |-> calls'[d]]
  BY <1>1, <1>2, <1>4
<1>6. RequestsInv'
  <2>1. calls'[c].keys = calls[c].keys
    BY <1>5 DEF k
  <2>2. \A d \in Client : calls'[d].keys = calls[d].keys
    BY <1>5, <2>1
  <2>3. QED  BY <1>2, <1>5, <2>2 DEF RequestsInv
<1>7. QED  BY <1>2, <1>5, <1>6 DEF k
-----------------------------------------------------------------------------
(* What the accounts answer, and nobody else.                                *)

\* What only the accounts answer.
AccountsSay == {"ended", "no_contact", "phone_taken", "telegram_taken"}

\* No request has been answered so.
NothingSaid ==
    /\ calls = [c \in Client |-> calls[c]]
    /\ \A c \in Client : calls[c].op = "idle" => calls[c].answer.what \notin AccountsSay

LEMMA StillNothingSaid ==
  ASSUME NothingSaid, NEW c \in Client, NEW STATE op, NEW STATE keys, NEW STATE read,
         NEW STATE answer,
         \/ op # "idle" /\ (Begin(c, op, keys, read) \/ Proceed(c, op, read))
         \/ /\ answer.what \notin AccountsSay
            /\ Answer(c, answer) \/ AnswerAtOnce(c, answer)
  PROVE  NothingSaid'
<1>1. CASE op # "idle" /\ Begin(c, op, keys, read)
  BY <1>1 DEF NothingSaid, Begin
<1>2. CASE op # "idle" /\ Proceed(c, op, read)
  BY <1>2 DEF NothingSaid, Proceed
<1>3. CASE answer.what \notin AccountsSay /\ (Answer(c, answer) \/ AnswerAtOnce(c, answer))
  BY <1>3 DEF NothingSaid, Answer, AnswerAtOnce, Idle
<1>4. QED  BY <1>1, <1>2, <1>3

LEMMA OthersSayNothing ==
  ASSUME NothingSaid,
         \/ StaffNext \/ BranchesNext \/ ReviewsNext \/ MenuNext \/ InboxNext \/ PlacesNext \/ BotNext
  PROVE  NothingSaid'
<1>1. Served.what \notin AccountsSay /\ \A x : \A why \in {"duplicate", "group_exists", "failed",
          "unfinished", "denied", "reviewed", "not_found", "invalid", "code_taken", "in_use"} :
            Refused(why, x).what \notin AccountsSay
  BY DEF Served, Refused, AccountsSay
<1>2. CASE StaffNext
  BY <1>1, <1>2, StillNothingSaid, ZenonT(60) DEF StaffNext, Invite, Accept, Redeem, SetActive, Expire, requests, NothingSaid
<1>3. CASE BranchesNext
  BY <1>1, <1>3, StillNothingSaid, ZenonT(60) DEF BranchesNext, Start, FoundChain, AddBranch, TakeStep, ApplyStep,
     ReplaceHours, ReadStep, CommitHours, Finish, GoLive, UpdateDetails, CreateTables, InsertTables
<1>4. CASE ReviewsNext
  BY <1>1, <1>4, StillNothingSaid, ZenonT(60) DEF ReviewsNext, Review, Publish, Depart, InsertReview, WriteScore,
     Anonymise
<1>5. CASE MenuNext
  <2>1. ASSUME NEW c \in Client, CreateItem(c)  PROVE NothingSaid'
    BY <1>1, <2>1, StillNothingSaid DEF CreateItem
  <2>2. ASSUME NEW c \in Client, CommitShelf(c) \/ ShelfDeadlock(c)  PROVE NothingSaid'
    BY <1>1, <2>2, StillNothingSaid DEF CommitShelf, ShelfDeadlock
  <2>3. ASSUME NEW c \in Client, NEW d, NEW ticks, SetBranchAvailability(c, d, ticks)
        PROVE  NothingSaid'
    BY <2>3, StillNothingSaid DEF SetBranchAvailability
  <2>4. ASSUME NEW c \in Client, NEW d, NEW v, ResolvePrice(c, d, v)  PROVE NothingSaid'
    <3>1. \A price : [what |-> "price", of |-> d, at |-> v, price |-> price].what \notin AccountsSay
      BY DEF AccountsSay
    <3>2. PICK answer : AnswerAtOnce(c, answer) /\ answer.what \notin AccountsSay
      BY <1>1, <2>4, <3>1 DEF ResolvePrice
    <3>3. QED  BY <3>2, StillNothingSaid
  <2>5. QED  BY <1>5, <2>1, <2>2, <2>3, <2>4 DEF MenuNext
<1>6. CASE InboxNext
  <2>1. ASSUME NEW c \in Client, NEW u \in Guest, NEW v \in Place, NEW stay, OpenThread(c, u, v, stay)
        PROVE  NothingSaid'
    BY <1>1, <2>1, StillNothingSaid DEF OpenThread
  <2>2. ASSUME NEW c \in Client, NEW u, NEW w, Befriend(c, u, w)  PROVE NothingSaid'
    BY <1>1, <2>2, StillNothingSaid DEF Befriend
  <2>3. ASSUME NEW c \in Client, Toggled(c) \/ InsertTie(c)  PROVE NothingSaid'
    BY <1>1, <2>3, StillNothingSaid DEF Toggled, InsertTie
  <2>4. ASSUME NEW c \in Client, InsertThread(c) \/ AttachStay(c) \/ Deliver(c)
        PROVE  NothingSaid'
    BY <1>1, <2>4, StillNothingSaid DEF InsertThread, AttachStay, Deliver
  <2>5. ASSUME NEW c \in Client, NEW t, NEW side, Send(c, t, side) \/ MarkRead(c, t, side)
        PROVE  NothingSaid'
    BY <1>1, <2>5, StillNothingSaid DEF Send, MarkRead
  <2>6. ASSUME NEW c \in Client, NEW u, NEW v, NEW accept, Toggle(c, u, v) \/ Respond(c, u, accept)
        PROVE  NothingSaid'
    BY <1>1, <2>6, StillNothingSaid DEF Toggle, Respond
  <2>7. QED  BY <1>6, <2>1, <2>2, <2>3, <2>4, <2>5, <2>6 DEF InboxNext
<1>7. CASE PlacesNext
  <2>1. ASSUME NEW c \in Client, NEW u, NEW d, Remember(c, u, d)  PROVE NothingSaid'
    BY <1>1, <2>1, StillNothingSaid DEF Remember
  <2>2. ASSUME NEW c \in Client, WriteAndTrim(c)  PROVE NothingSaid'
    BY <1>1, <2>2, StillNothingSaid DEF WriteAndTrim
  <2>3. ASSUME NEW c \in Client, CommitPlace(c) \/ InsertRegion(c) \/ WriteDistrict(c)
        PROVE  NothingSaid'
    BY <1>1, <2>3, StillNothingSaid DEF CommitPlace, InsertRegion, WriteDistrict
  <2>4. ASSUME NEW c \in Client, DropRegion(c) \/ DropDistrict(c)  PROVE NothingSaid'
    BY <1>1, <2>4, StillNothingSaid DEF DropRegion, DropDistrict
  <2>5. ASSUME NEW c \in Client, NEW x, \/ CreateRegion(c, x) \/ DeleteRegion(c, x)
                                       \/ DeleteDistrict(c, x)
        PROVE  NothingSaid'
    BY <1>1, <2>5, StillNothingSaid DEF CreateRegion, DeleteRegion, DeleteDistrict
  <2>6. ASSUME NEW c \in Client, NEW d, NEW r, PutDistrict(c, d, r)  PROVE NothingSaid'
    BY <1>1, <2>6, StillNothingSaid DEF PutDistrict
  <2>7. QED  BY <1>7, <2>1, <2>2, <2>3, <2>4, <2>5, <2>6 DEF PlacesNext
<1>8. CASE BotNext
  <2>1. CASE Restart
    BY <2>1 DEF Restart, Idle, NoAnswer, NothingSaid, AccountsSay
  <2>2. CASE Forget
    BY <2>2 DEF Forget, requests, NothingSaid
  <2>3. CASE ~Restart /\ ~Forget
    BY <1>1, <1>8, <2>3, StillNothingSaid DEF BotNext, Handle, PhotoSent, PhotoRefused, WordsSent,
       Raised, Acknowledge, Done, WordsNext
  <2>4. QED  BY <2>1, <2>2, <2>3
<1>9. QED  BY <1>2, <1>3, <1>4, <1>5, <1>6, <1>7, <1>8

\* An area is left alone by the traffic of the others.
LEMMA StepOfArea ==
  ASSUME Next
  PROVE  /\ area' = area
         /\ IF area = "accounts" THEN AccountsNext ELSE UNCHANGED accounts
         /\ IF area = "staff" THEN StaffNext ELSE UNCHANGED staff
         /\ IF area = "branches" THEN BranchesNext ELSE UNCHANGED venues
         /\ IF area = "reviews" THEN ReviewsNext ELSE UNCHANGED opinions
         /\ IF area = "menu" THEN MenuNext ELSE UNCHANGED menu
         /\ IF area = "inbox" THEN InboxNext ELSE UNCHANGED inbox
         /\ IF area = "places" THEN PlacesNext ELSE UNCHANGED places
         /\ IF area = "bot" THEN BotNext ELSE UNCHANGED chats
<1>1. ASSUME NEW a \in Areas, Others(a)
      PROVE  area = a /\ area' = area
             /\ (a # "accounts" => UNCHANGED accounts)
             /\ (a # "staff" => UNCHANGED staff)
             /\ (a # "branches" => UNCHANGED venues)
             /\ (a # "reviews" => UNCHANGED opinions)
             /\ (a # "menu" => UNCHANGED menu)
             /\ (a # "inbox" => UNCHANGED inbox)
             /\ (a # "places" => UNCHANGED places)
             /\ (a # "bot" => UNCHANGED chats)
  BY <1>1 DEF Others
<1>2. QED  BY <1>1 DEF Next, Areas
-----------------------------------------------------------------------------
(* What a request is, in whatever area: about something, until it is answered. *)

CallsTyped ==
    /\ begun \in 0..MaxCalls
    /\ calls = [c \in Client |-> calls[c]]
    /\ \A c \in Client : calls[c].op # "idle" =>
        /\ calls[c] = [op |-> calls[c].op, keys |-> calls[c].keys, read |-> calls[c].read]
        /\ calls[c].keys # {}

LEMMA CallsStayTyped ==
  ASSUME CallsTyped, NEW c \in Client, NEW STATE op, NEW STATE keys, NEW STATE read,
         NEW STATE answer,
         \/ op # "idle" /\ keys # {} /\ Begin(c, op, keys, read)
         \/ op # "idle" /\ calls[c].op # "idle" /\ Proceed(c, op, read)
         \/ Answer(c, answer) \/ AnswerAtOnce(c, answer)
  PROVE  CallsTyped'
<1>1. CASE op # "idle" /\ keys # {} /\ Begin(c, op, keys, read)
  <2>1. calls' = [calls EXCEPT ![c] = [op |-> op, keys |-> keys, read |-> read]]
    BY <1>1 DEF Begin
  <2>2. begun' \in 0..MaxCalls
    BY <1>1, RequestsAssumption DEF Begin, Waiting, CallsTyped
  <2>3. QED  BY <1>1, <2>1, <2>2 DEF CallsTyped
<1>2. CASE op # "idle" /\ calls[c].op # "idle" /\ Proceed(c, op, read)
  <2>1. PICK was, k, r : calls[c] = [op |-> was, keys |-> k, read |-> r] /\ k # {}
    BY <1>2 DEF CallsTyped
  <2>2. PICK named : named = [calls[c] EXCEPT !.op = op]
    OBVIOUS
  <2>3. calls' = [calls EXCEPT ![c] = [named EXCEPT !.read = read]] /\ begun' = begun
    BY <1>2, <2>2 DEF Proceed, CallsTyped
  <2>4. named = [op |-> op, keys |-> k, read |-> r]
    BY <2>1, <2>2
  <2>5. [named EXCEPT !.read = read] = [op |-> op, keys |-> k, read |-> read]
    BY <2>4
  <2>6. calls' = [calls EXCEPT ![c] = [op |-> op, keys |-> k, read |-> read]]
    BY <2>3, <2>5
  <2>7. PICK o : o = op /\ o # "idle"
    BY <1>2
  <2>8. /\ calls'[c] = [op |-> o, keys |-> k, read |-> read]
        /\ \A d \in Client \ {c} : calls'[d] = calls[d]
        /\ calls' = [d \in Client |-> calls'[d]]
    BY <2>6, <2>7 DEF CallsTyped
  <2>9. QED  BY <2>1, <2>3, <2>7, <2>8 DEF CallsTyped
<1>3. CASE Answer(c, answer) \/ AnswerAtOnce(c, answer)
  <2>1. calls' = [calls EXCEPT ![c] = [op |-> "idle", keys |-> {}, answer |-> answer]]
    BY <1>3 DEF Answer, AnswerAtOnce, Idle
  <2>2. begun' \in 0..MaxCalls
    BY <1>3, RequestsAssumption DEF Answer, AnswerAtOnce, Waiting, CallsTyped
  <2>3. QED  BY <2>1, <2>2 DEF CallsTyped
<1>4. QED  BY <1>1, <1>2, <1>3

LEMMA AccountsCall == ASSUME CallsTyped, AccountsNext PROVE CallsTyped'
<1>1. ASSUME NEW c \in Client, NEW x, \/ Register(c, x) \/ Login(c, x) \/ EndSessions(c, x)
                                      \/ DeleteAccount(c, x) \/ Logout(c, x)
      PROVE  CallsTyped'
  BY <1>1, CallsStayTyped DEF Register, Login, EndSessions, DeleteAccount, Logout
<1>2. ASSUME NEW c \in Client, NEW a, NEW p, AttachContact(c, a, p)  PROVE CallsTyped'
  BY <1>2, CallsStayTyped DEF AttachContact
<1>3. ASSUME NEW c \in Client, NEW t, TelegramLogin(c, t)  PROVE CallsTyped'
  BY <1>3, CallsStayTyped DEF TelegramLogin
<1>4. ASSUME NEW c \in Client, NEW t, Refresh(c, t)  PROVE CallsTyped'
  BY <1>4, CallsStayTyped DEF Refresh
<1>5. ASSUME NEW c \in Client, Create(c) \/ Enter(c) \/ Attach(c)  PROVE CallsTyped'
  BY <1>5, CallsStayTyped DEF Create, Enter, Attach
<1>6. ASSUME NEW c \in Client, RevokeSessions(c) \/ Delete(c) \/ Rotate(c) \/ EndReused(c) \/ Leave(c)
      PROVE  CallsTyped'
  BY <1>6, CallsStayTyped DEF RevokeSessions, Delete, Rotate, EndReused, Leave
<1>7. ASSUME NEW a, Block(a)  PROVE CallsTyped'
  BY <1>7 DEF Block, requests, CallsTyped
<1>8. QED  BY <1>1, <1>2, <1>3, <1>4, <1>5, <1>6, <1>7 DEF AccountsNext

LEMMA PartnersCall ==
  ASSUME CallsTyped, StaffNext \/ BranchesNext \/ MenuNext
  PROVE  CallsTyped'
<1>1. CASE StaffNext
  <2>1. ASSUME NEW c \in Client, NEW p, Accept(c, p)  PROVE CallsTyped'
    BY <2>1, CallsStayTyped DEF Accept
  <2>2. ASSUME NEW c \in Client, Redeem(c)  PROVE CallsTyped'
    BY <2>2, CallsStayTyped DEF Redeem
  <2>3. ASSUME NEW c \in Client, AnswerAtOnce(c, Served)  PROVE CallsTyped'
    BY <2>3, CallsStayTyped
  <2>4. ASSUME NEW i, Expire(i)  PROVE CallsTyped'
    BY <2>4 DEF Expire, requests, CallsTyped
  <2>5. QED  BY <1>1, <2>1, <2>2, <2>3, <2>4, ZenonT(60) DEF StaffNext, Invite, SetActive
<1>2. CASE BranchesNext
  <2>1. ASSUME NEW c \in Client, NEW u, Start(c, u) \/ Finish(c, u)  PROVE CallsTyped'
    BY <2>1, CallsStayTyped DEF Start, Finish
  <2>2. ASSUME NEW c \in Client, NEW u, NEW g, AddBranch(c, u, g) \/ UpdateDetails(c, u, g)
        PROVE  CallsTyped'
    BY <2>2, CallsStayTyped DEF AddBranch, UpdateDetails
  <2>3. ASSUME NEW c \in Client, NEW b, NEW x, TakeStep(c, b, x) \/ CreateTables(c, b, x)
        PROVE  CallsTyped'
    BY <2>3, CallsStayTyped DEF TakeStep, CreateTables
  <2>4. ASSUME NEW c \in Client, NEW b, NEW week, ReplaceHours(c, b, week)  PROVE CallsTyped'
    BY <2>4, CallsStayTyped DEF ReplaceHours
  <2>5. ASSUME NEW c \in Client, ReadStep(c)  PROVE CallsTyped'
    BY <2>5, CallsStayTyped DEF ReadStep
  <2>6. ASSUME NEW c \in Client, FoundChain(c) \/ ApplyStep(c) \/ CommitHours(c)  PROVE CallsTyped'
    BY <2>6, CallsStayTyped DEF FoundChain, ApplyStep, CommitHours
  <2>7. ASSUME NEW c \in Client, GoLive(c) \/ InsertTables(c)  PROVE CallsTyped'
    BY <2>7, CallsStayTyped DEF GoLive, InsertTables
  <2>8. QED  BY <1>2, <2>1, <2>2, <2>3, <2>4, <2>5, <2>6, <2>7 DEF BranchesNext
<1>3. CASE MenuNext
  <2>1. ASSUME NEW c \in Client, CreateItem(c) \/ CommitShelf(c) \/ ShelfDeadlock(c)
        PROVE  CallsTyped'
    BY <2>1, CallsStayTyped DEF CreateItem, CommitShelf, ShelfDeadlock
  <2>2. ASSUME NEW c \in Client, NEW d, NEW ticks, SetBranchAvailability(c, d, ticks)
        PROVE  CallsTyped'
    BY <2>2, CallsStayTyped DEF SetBranchAvailability
  <2>3. ASSUME NEW c \in Client, NEW d, NEW v, ResolvePrice(c, d, v)  PROVE CallsTyped'
    <3>1. PICK answer : AnswerAtOnce(c, answer)
      BY <2>3 DEF ResolvePrice
    <3>2. QED  BY <3>1, CallsStayTyped
  <2>4. QED  BY <1>3, <2>1, <2>2, <2>3 DEF MenuNext
<1>4. QED  BY <1>1, <1>2, <1>3

LEMMA GuestsCall ==
  ASSUME CallsTyped, ReviewsNext \/ InboxNext \/ PlacesNext \/ BotNext
  PROVE  CallsTyped'
<1>1. CASE ReviewsNext
  <2>1. ASSUME NEW c \in Client, NEW u, NEW b, NEW m, Review(c, u, b, m)  PROVE CallsTyped'
    BY <2>1, CallsStayTyped DEF Review
  <2>2. ASSUME NEW c \in Client, NEW x, Publish(c, x) \/ Depart(c, x)  PROVE CallsTyped'
    BY <2>2, CallsStayTyped DEF Publish, Depart
  <2>3. ASSUME NEW c \in Client, InsertReview(c) \/ WriteScore(c) \/ Anonymise(c)
        PROVE  CallsTyped'
    BY <2>3, CallsStayTyped DEF InsertReview, WriteScore, Anonymise
  <2>4. QED  BY <1>1, <2>1, <2>2, <2>3 DEF ReviewsNext
<1>2. CASE InboxNext
  <2>1. ASSUME NEW c \in Client, NEW u, NEW v, NEW stay, OpenThread(c, u, v, stay)  PROVE CallsTyped'
    BY <2>1, CallsStayTyped DEF OpenThread
  <2>2. ASSUME NEW c \in Client, NEW u, NEW w, Befriend(c, u, w)  PROVE CallsTyped'
    BY <2>2, CallsStayTyped DEF Befriend
  <2>3. ASSUME NEW c \in Client, Toggled(c) \/ InsertTie(c)  PROVE CallsTyped'
    BY <2>3, CallsStayTyped DEF Toggled, InsertTie
  <2>4. ASSUME NEW c \in Client, InsertThread(c) \/ AttachStay(c) \/ Deliver(c)  PROVE CallsTyped'
    BY <2>4, CallsStayTyped DEF InsertThread, AttachStay, Deliver
  <2>5. ASSUME NEW c \in Client, NEW x, NEW y, \/ Send(c, x, y) \/ MarkRead(c, x, y)
                                              \/ Toggle(c, x, y) \/ Respond(c, x, y)
        PROVE  CallsTyped'
    BY <2>5, CallsStayTyped DEF Send, MarkRead, Toggle, Respond
  <2>6. QED  BY <1>2, <2>1, <2>2, <2>3, <2>4, <2>5 DEF InboxNext
<1>3. CASE PlacesNext
  <2>1. ASSUME NEW c \in Client, NEW u, NEW d, Remember(c, u, d)  PROVE CallsTyped'
    BY <2>1, CallsStayTyped DEF Remember
  <2>2. ASSUME NEW c \in Client, WriteAndTrim(c)  PROVE CallsTyped'
    BY <2>2, CallsStayTyped DEF WriteAndTrim
  <2>3. ASSUME NEW c \in Client, CommitPlace(c) \/ InsertRegion(c) \/ WriteDistrict(c)
        PROVE  CallsTyped'
    BY <2>3, CallsStayTyped DEF CommitPlace, InsertRegion, WriteDistrict
  <2>4. ASSUME NEW c \in Client, DropRegion(c) \/ DropDistrict(c)  PROVE CallsTyped'
    BY <2>4, CallsStayTyped DEF DropRegion, DropDistrict
  <2>5. ASSUME NEW c \in Client, NEW x, CreateRegion(c, x) \/ DeleteRegion(c, x) \/ DeleteDistrict(c, x)
        PROVE  CallsTyped'
    BY <2>5, CallsStayTyped DEF CreateRegion, DeleteRegion, DeleteDistrict
  <2>6. ASSUME NEW c \in Client, NEW d, NEW r, PutDistrict(c, d, r)  PROVE CallsTyped'
    BY <2>6, CallsStayTyped DEF PutDistrict
  <2>7. QED  BY <1>3, <2>1, <2>2, <2>3, <2>4, <2>5, <2>6 DEF PlacesNext
<1>4. CASE BotNext
  <2>1. CASE Restart
    BY <2>1 DEF Restart, Idle, CallsTyped
  <2>2. CASE Forget
    BY <2>2 DEF Forget, requests, CallsTyped
  <2>3. ASSUME NEW c \in Client, NEW u, Handle(c, u) \/ Acknowledge(c)  PROVE CallsTyped'
    BY <2>3, CallsStayTyped DEF Handle, Acknowledge
  <2>4. ASSUME NEW c \in Client, NEW x, PhotoSent(c) \/ PhotoRefused(c) \/ WordsSent(c, x) \/ Raised(c, x)
        PROVE  CallsTyped'
    BY <2>4, CallsStayTyped DEF PhotoSent, PhotoRefused, WordsSent, Raised, Done, WordsNext
  <2>5. QED  BY <1>4, <2>1, <2>2, <2>3, <2>4 DEF BotNext
<1>5. QED  BY <1>1, <1>2, <1>3, <1>4

OneArea == CallsTyped /\ area \in Areas

LEMMA CallsInvariant == Spec => []OneArea
<1>1. Init => OneArea
  BY RequestsAssumption DEF Init, RequestsInit, Idle, CallsTyped, OneArea
<1>2. OneArea /\ [Next]_vars => OneArea'
  <2> SUFFICES ASSUME CallsTyped, area \in Areas, [Next]_vars  PROVE CallsTyped' /\ area' \in Areas
    BY DEF OneArea
  <2>1. CASE UNCHANGED vars
    BY <2>1 DEF vars, requests, CallsTyped
  <2>2. CASE Next
    <3>1. area' = area
      BY <2>2, StepOfArea
    <3>2. CallsTyped'
      BY <2>2, AccountsCall, PartnersCall, GuestsCall DEF Next
    <3>3. QED  BY <3>1, <3>2
  <2>3. QED  BY <2>1, <2>2
<1>3. QED  BY <1>1, <1>2, PTL DEF Spec

\* What a step leaves of a request: the shape of it is known, and that of no
\* other one changes.
LEMMA CallsMove ==
  ASSUME CallsTyped, NEW c \in Client, NEW STATE op, NEW STATE keys, NEW STATE read,
         NEW STATE answer
  PROVE  /\ Begin(c, op, keys, read) \/ (calls[c].op # "idle" /\ Proceed(c, op, read)) =>
                /\ calls'[c].op = op /\ calls'[c].read = read
                /\ \A d \in Client \ {c} : calls'[d] = calls[d]
         /\ Answer(c, answer) \/ AnswerAtOnce(c, answer) =>
                calls'[c].op = "idle" /\ \A d \in Client \ {c} : calls'[d] = calls[d]
<1>1. ASSUME Begin(c, op, keys, read)
      PROVE  /\ calls'[c].op = op /\ calls'[c].read = read
             /\ \A d \in Client \ {c} : calls'[d] = calls[d]
  <2>1. calls' = [calls EXCEPT ![c] = [op |-> op, keys |-> keys, read |-> read]]
    BY <1>1 DEF Begin
  <2>2. QED  BY <2>1 DEF CallsTyped
<1>2. ASSUME calls[c].op # "idle", Proceed(c, op, read)
      PROVE  /\ calls'[c].op = op /\ calls'[c].read = read
             /\ \A d \in Client \ {c} : calls'[d] = calls[d]
  <2>1. PICK was, k, r : calls[c] = [op |-> was, keys |-> k, read |-> r]
    BY <1>2 DEF CallsTyped
  <2>2. PICK named : named = [calls[c] EXCEPT !.op = op]
    OBVIOUS
  <2>3. calls' = [calls EXCEPT ![c] = [named EXCEPT !.read = read]]
    BY <1>2, <2>2 DEF Proceed, CallsTyped
  <2>4. named = [op |-> op, keys |-> k, read |-> r]
    BY <2>1, <2>2
  <2>5. [named EXCEPT !.read = read] = [op |-> op, keys |-> k, read |-> read]
    BY <2>4
  <2>6. calls' = [calls EXCEPT ![c] = [op |-> op, keys |-> k, read |-> read]]
    BY <2>3, <2>5
  <2>7. QED  BY <2>6 DEF CallsTyped
<1>3. Answer(c, answer) \/ AnswerAtOnce(c, answer) =>
          calls'[c].op = "idle" /\ \A d \in Client \ {c} : calls'[d] = calls[d]
  BY DEF Answer, AnswerAtOnce, Idle, CallsTyped
<1>4. QED  BY <1>1, <1>2, <1>3
-----------------------------------------------------------------------------
(* Accounts and their sessions.                                              *)

AccountRow == [status : {"none", "active", "blocked", "deleted"}, phone : Phone \cup {NoValue},
               telegram : Telegram \cup {NoValue}, login : {"issued", NoValue},
               email : {"tombstone", NoValue}]
TokenRow == [user : Account, live : BOOLEAN, from : Nat]

RowsTyped ==
    /\ users \in [Account -> AccountRow]
    /\ tokens \in Seq(TokenRow)

\* Token t has been exchanged.
Spent(t) == \E j \in DOMAIN tokens : tokens[j].from = t
EndedFor(u, upto) == \A i \in 1..upto : tokens[i].user = u => ~tokens[i].live
Deleted(a) == users[a].status = "deleted"

\* What is true of the tokens whenever no statement is running.
TokensKept ==
    /\ \A i \in DOMAIN tokens : tokens[i].from \in 0..(i - 1)
    /\ \A t \in DOMAIN tokens : Spent(t) => ~tokens[t].live
    /\ ExchangedOnce
    /\ \A i \in DOMAIN tokens :
        Deleted(tokens[i].user) /\ <<"user", tokens[i].user>> \notin raced => ~tokens[i].live

\* What a request in flight, or the answer to the last one, is about.
AboutSession(c) ==
    /\ calls[c].op = "register" =>
        /\ calls[c].read \in AccountRow
        /\ calls[c].read.status = "active"
    /\ calls[c].op = "sign_in" =>
        /\ calls[c].read \in Account
        /\ <<"user", calls[c].read>> \in calls[c].keys
        /\ Deleted(calls[c].read) => <<"user", calls[c].read>> \in raced
    /\ calls[c].op = "attach" => calls[c].read.user \in Account /\ calls[c].read.phone \in Phone
    /\ calls[c].op \in {"reuse", "end_sessions", "delete"} =>
        /\ calls[c].read.user \in Account /\ calls[c].read.upto \in 0..Len(tokens)
        /\ <<"user", calls[c].read.user>> \in calls[c].keys
    /\ calls[c].op = "rotate" =>
        /\ calls[c].read \in DOMAIN tokens
        /\ {<<"token", calls[c].read>>, <<"user", tokens[calls[c].read].user>>} \subseteq calls[c].keys
        /\ Spent(calls[c].read) => <<"token", calls[c].read>> \in raced
        /\ Deleted(tokens[calls[c].read].user) => <<"user", tokens[calls[c].read].user>> \in raced
    /\ calls[c].op = "logout" => calls[c].read.token \in DOMAIN tokens
    /\ calls[c].op = "idle" /\ calls[c].answer.what = "ended" =>
        /\ calls[c].answer.upto \in 0..Len(tokens)
        /\ EndedFor(calls[c].answer.of, calls[c].answer.upto)

AccountsInv == RequestsInv /\ RowsTyped /\ TokensKept /\ \A c \in Client : AboutSession(c)

\* A request that only reads before it writes.
LEMMA SessionsOnlyBegin ==
  ASSUME AccountsInv, UNCHANGED accounts, NEW c \in Client,
         NEW STATE op, NEW STATE keys, NEW STATE read, Begin(c, op, keys, read),
         AboutSession(c)'
  PROVE  AccountsInv'
<1>1. /\ RequestsInv' /\ raced \subseteq raced'
      /\ \A d \in Client \ {c} : calls'[d] = calls[d]
  BY BeginRequest DEF AccountsInv
<1>2. RowsTyped'
  BY DEF AccountsInv, RowsTyped, accounts
<1>3. TokensKept'
  BY <1>1 DEF AccountsInv, TokensKept, ExchangedOnce, Deleted, Spent, accounts
<1>4. ASSUME NEW d \in Client \ {c}  PROVE AboutSession(d)'
  BY <1>1, SMTT(30) DEF AccountsInv, AboutSession, Deleted, Spent, EndedFor, accounts
<1>5. QED  BY <1>1, <1>2, <1>3, <1>4 DEF AccountsInv

\* One that its first statement answers.
LEMMA OnlyAnswers ==
  ASSUME AccountsInv, UNCHANGED accounts, NEW c \in Client, NEW STATE answer,
         Answer(c, answer) \/ AnswerAtOnce(c, answer), answer.what # "ended"
  PROVE  AccountsInv'
<1>1. /\ RequestsInv' /\ raced' = raced
      /\ calls'[c] = [op |-> "idle", keys |-> {}, answer |-> answer]
      /\ \A d \in Client \ {c} : calls'[d] = calls[d]
  BY AnswerRequest DEF AccountsInv
<1>2. RowsTyped' /\ TokensKept'
  BY <1>1 DEF AccountsInv, RowsTyped, TokensKept, ExchangedOnce, Deleted, Spent, accounts
<1>3. AboutSession(c)'
  BY <1>1 DEF AboutSession
<1>4. ASSUME NEW d \in Client \ {c}  PROVE AboutSession(d)'
  BY <1>1 DEF AccountsInv, AboutSession, Deleted, Spent, EndedFor, accounts
<1>5. QED  BY <1>1, <1>2, <1>3, <1>4 DEF AccountsInv

LEMMA Refusals ==
  ASSUME NEW STATE x
  PROVE  /\ PhoneTaken(x).what # "ended" /\ TelegramTaken(x).what # "ended"
         /\ Refused("no_contact", x).what # "ended"
         /\ Served.what # "ended"
  BY DEF PhoneTaken, TelegramTaken, Refused, Served

\* What is known of the connection of a request that has just begun.
LEMMA SessionsBegun ==
  ASSUME AccountsInv, UNCHANGED accounts, NEW c \in Client,
         NEW STATE op, NEW STATE keys, NEW STATE read, Begin(c, op, keys, read)
  PROVE  /\ calls'[c] = [op |-> op, keys |-> keys, read |-> read]
         /\ users' = users /\ tokens' = tokens
         /\ raced \subseteq raced'
  BY BeginRequest DEF AccountsInv, accounts

LEMMA RowsOfToken ==
  ASSUME RowsTyped, NEW t \in DOMAIN tokens
  PROVE  /\ tokens[t].user \in Account /\ tokens[t].live \in BOOLEAN /\ tokens[t].from \in Nat
         /\ users[tokens[t].user] \in AccountRow
         /\ Len(tokens) \in Nat /\ t \in 1..Len(tokens)
<1>1. tokens[t] \in TokenRow
  BY DEF RowsTyped
<1>2. tokens[t].user \in Account /\ tokens[t].live \in BOOLEAN /\ tokens[t].from \in Nat
  BY <1>1 DEF TokenRow
<1>3. users[tokens[t].user] \in AccountRow
  BY <1>2 DEF RowsTyped
<1>4. Len(tokens) \in Nat /\ t \in 1..Len(tokens)
  BY DEF RowsTyped
<1>5. QED  BY <1>2, <1>3, <1>4

\* The requests that begin.
LEMMA BeginningsKeep ==
  ASSUME AccountsInv, NEW c \in Client,
         \/ \E p \in Phone : Register(c, p) \/ \E a \in Account : AttachContact(c, a, p)
         \/ \E t \in Telegram : TelegramLogin(c, t)
         \/ \E a \in Account : Login(c, a) \/ EndSessions(c, a) \/ DeleteAccount(c, a)
         \/ \E t \in DOMAIN tokens : Refresh(c, t) \/ Logout(c, t)
  PROVE  AccountsInv'
<1>n. ASSUME NEW p \in Phone \cup {NoValue}, NEW g \in Telegram \cup {NoValue}
      PROVE  /\ [NewUser EXCEPT !.phone = p] \in AccountRow
             /\ [NewUser EXCEPT !.telegram = g] \in AccountRow
             /\ [NewUser EXCEPT !.phone = p].status = "active"
             /\ [NewUser EXCEPT !.telegram = g].status = "active"
  BY DEF NewUser, Nobody, AccountRow
<1>l. Len(tokens) \in 0..Len(tokens)
  BY DEF AccountsInv, RowsTyped
<1>r. ASSUME NEW new \in AccountRow, new.status = "active", NEW STATE keys,
             Begin(c, "register", keys, new), UNCHANGED accounts
      PROVE  AccountsInv'
  <2>1. calls'[c] = [op |-> "register", keys |-> keys, read |-> new]
    BY <1>r, SessionsBegun
  <2>2. AboutSession(c)'
    BY <1>r, <2>1 DEF AboutSession
  <2>3. QED  BY <1>r, <2>2, SessionsOnlyBegin
<1>1. ASSUME NEW p \in Phone, Register(c, p)  PROVE AccountsInv'
  <2>1. CASE AnswerAtOnce(c, PhoneTaken(p)) /\ UNCHANGED accounts
    BY <2>1, OnlyAnswers, Refusals
  <2>2. CASE Begin(c, "register", {<<"phone", p>>}, [NewUser EXCEPT !.phone = p])
             /\ UNCHANGED accounts
    <3> DEFINE new == [NewUser EXCEPT !.phone = p]
    <3>1. new \in AccountRow /\ new.status = "active"
      BY <1>n
    <3> HIDE DEF new
    <3>2. Begin(c, "register", {<<"phone", p>>}, new) /\ UNCHANGED accounts
      BY <2>2 DEF new
    <3>3. QED  BY <3>1, <3>2, <1>r
  <2>3. QED  BY <1>1, <2>1, <2>2 DEF Register
<1>2. ASSUME NEW a \in Account, NEW p \in Phone, AttachContact(c, a, p)  PROVE AccountsInv'
  <2>1. CASE AnswerAtOnce(c, PhoneTaken(p)) /\ UNCHANGED accounts
    BY <2>1, OnlyAnswers, Refusals
  <2>2. CASE Begin(c, "attach", {<<"user", a>>, <<"phone", p>>}, [user |-> a, phone |-> p])
             /\ UNCHANGED accounts
    <3>1. calls'[c] = [op |-> "attach", keys |-> {<<"user", a>>, <<"phone", p>>},
                       read |-> [user |-> a, phone |-> p]]
      BY <2>2, SessionsBegun
    <3>2. AboutSession(c)'
      BY <3>1 DEF AboutSession
    <3>3. QED  BY <2>2, <3>2, SessionsOnlyBegin
  <2>3. QED  BY <1>2, <2>1, <2>2 DEF AttachContact
<1>3. ASSUME NEW g \in Telegram, TelegramLogin(c, g)  PROVE AccountsInv'
  <2>1. CASE Begin(c, "register", {<<"telegram", g>>}, [NewUser EXCEPT !.telegram = g])
             /\ UNCHANGED accounts
    <3> DEFINE new == [NewUser EXCEPT !.telegram = g]
    <3>1. new \in AccountRow /\ new.status = "active"
      BY <1>n
    <3> HIDE DEF new
    <3>2. Begin(c, "register", {<<"telegram", g>>}, new) /\ UNCHANGED accounts
      BY <2>1 DEF new
    <3>3. QED  BY <3>1, <3>2, <1>r
  <2>2. ASSUME NEW b \in Found("telegram", g), Begin(c, "sign_in", {<<"user", b>>}, b),
               UNCHANGED accounts
        PROVE  AccountsInv'
    <3>1. b \in Account /\ ~Deleted(b)
      BY <2>2 DEF Found, Living, Deleted
    <3>2. /\ calls'[c] = [op |-> "sign_in", keys |-> {<<"user", b>>}, read |-> b]
          /\ users' = users
      BY <2>2, SessionsBegun
    <3>3. AboutSession(c)'
      BY <3>1, <3>2 DEF AboutSession, Deleted
    <3>4. QED  BY <2>2, <3>3, SessionsOnlyBegin
  <2>3. QED  BY <1>3, <2>1, <2>2 DEF TelegramLogin
<1>4. ASSUME NEW a \in Account, Login(c, a)  PROVE AccountsInv'
  <2>1. /\ Begin(c, "sign_in", {<<"user", a>>}, a) /\ UNCHANGED accounts
        /\ ~Deleted(a)
    BY <1>4 DEF Login, Deleted
  <2>2. /\ calls'[c] = [op |-> "sign_in", keys |-> {<<"user", a>>}, read |-> a]
        /\ users' = users
    BY <2>1, SessionsBegun
  <2>3. AboutSession(c)'
    BY <2>1, <2>2 DEF AboutSession, Deleted
  <2>4. QED  BY <2>1, <2>3, SessionsOnlyBegin
<1>5. ASSUME NEW a \in Account, NEW op \in {"end_sessions", "delete", "reuse"}, NEW STATE keys,
             <<"user", a>> \in keys, UNCHANGED accounts,
             Begin(c, op, keys, [user |-> a, upto |-> Len(tokens)])
      PROVE  AccountsInv'
  <2>1. /\ calls'[c] = [op |-> op, keys |-> keys, read |-> [user |-> a, upto |-> Len(tokens)]]
        /\ tokens' = tokens
    BY <1>5, SessionsBegun
  <2>2. AboutSession(c)'
    BY <1>5, <2>1, <1>l DEF AboutSession
  <2>3. QED  BY <1>5, <2>2, SessionsOnlyBegin
<1>6. ASSUME NEW a \in Account, EndSessions(c, a) \/ DeleteAccount(c, a)  PROVE AccountsInv'
  BY <1>5, <1>6 DEF EndSessions, DeleteAccount
<1>7. ASSUME NEW t \in DOMAIN tokens, Refresh(c, t)  PROVE AccountsInv'
  <2> DEFINE keys == {<<"token", t>>, <<"user", tokens[t].user>>}
  <2>r. tokens[t].user \in Account /\ tokens[t].live \in BOOLEAN
    BY RowsOfToken DEF AccountsInv
  <2>1. CASE Begin(c, "reuse", keys, [user |-> tokens[t].user, upto |-> Len(tokens)])
             /\ UNCHANGED accounts
    BY <2>r, <2>1, <1>5
  <2>2. CASE /\ tokens[t].live /\ users[tokens[t].user].status = "active"
             /\ Begin(c, "rotate", keys, t) /\ UNCHANGED accounts
    <3>1. ~Spent(t) /\ ~Deleted(tokens[t].user)
      BY <2>2 DEF AccountsInv, TokensKept, Deleted
    <3>2. /\ calls'[c] = [op |-> "rotate", keys |-> keys, read |-> t]
          /\ users' = users /\ tokens' = tokens
      BY <2>2, SessionsBegun
    <3>3. AboutSession(c)'
      BY <3>1, <3>2 DEF AboutSession, Spent, Deleted
    <3>4. QED  BY <2>2, <3>3, SessionsOnlyBegin
  <2>3. QED  BY <1>7, <2>1, <2>2 DEF Refresh
<1>8. ASSUME NEW t \in DOMAIN tokens, Logout(c, t)  PROVE AccountsInv'
  <2> DEFINE keys == {<<"token", t>>, <<"user", tokens[t].user>>}
  <2>1. Begin(c, "logout", keys, [token |-> t, live |-> tokens[t].live]) /\ UNCHANGED accounts
    BY <1>8 DEF Logout
  <2>2. /\ calls'[c] = [op |-> "logout", keys |-> keys,
                        read |-> [token |-> t, live |-> tokens[t].live]]
        /\ tokens' = tokens
    BY <2>1, SessionsBegun
  <2>3. AboutSession(c)'
    BY <2>2 DEF AboutSession
  <2>4. QED  BY <2>1, <2>3, SessionsOnlyBegin
<1>9. QED  BY <1>1, <1>2, <1>3, <1>4, <1>6, <1>7, <1>8

\* What no request does to a token: take it away, give it to somebody else, or
\* make it live again.
TokensGrow ==
    /\ Len(tokens) <= Len(tokens')
    /\ \A i \in DOMAIN tokens : /\ tokens'[i].user = tokens[i].user
                                /\ tokens'[i].live => tokens[i].live
                                /\ tokens'[i].from = tokens[i].from

\* Who was not deleted or exchanged before is something c is about.
OnlyOwn(c) ==
    /\ \A a \in Account : Deleted(a)' => Deleted(a) \/ <<"user", a>> \in calls[c].keys
    /\ \A t \in DOMAIN tokens : Spent(t)' => Spent(t) \/ <<"token", t>> \in calls[c].keys

\* What the requests of other connections are about survives an answer.
LEMMA OtherSessionsStay ==
  ASSUME AccountsInv, NEW c \in Client, NEW STATE answer, Answer(c, answer),
         RowsTyped', TokensGrow, OnlyOwn(c),
         NEW d \in Client \ {c}
  PROVE  AboutSession(d)'
<1>1. raced' = raced /\ calls'[d] = calls[d]
  BY AnswerRequest DEF AccountsInv
<1>2. AboutSession(d) /\ calls[d].keys \cap calls[c].keys \subseteq raced
  BY DEF AccountsInv, RequestsInv
<1>l. /\ Len(tokens) \in Nat /\ Len(tokens') \in Nat /\ Len(tokens) <= Len(tokens')
      /\ DOMAIN tokens = 1..Len(tokens) /\ DOMAIN tokens' = 1..Len(tokens')
  BY DEF AccountsInv, RowsTyped, TokensGrow
<1>3. ASSUME calls[d].op = "register"  PROVE AboutSession(d)'
  BY <1>1, <1>2, <1>3 DEF AboutSession
<1>4. ASSUME calls[d].op = "sign_in"  PROVE AboutSession(d)'
  <2>1. calls[d].read \in Account /\ <<"user", calls[d].read>> \in calls[d].keys
        /\ (Deleted(calls[d].read) => <<"user", calls[d].read>> \in raced)
    BY <1>2, <1>4 DEF AboutSession
  <2>2. Deleted(calls[d].read)' => <<"user", calls[d].read>> \in raced
    BY <1>1, <1>2, <2>1 DEF OnlyOwn, Deleted
  <2>3. QED  BY <1>1, <1>4, <2>1, <2>2 DEF AboutSession, Deleted
<1>5. ASSUME calls[d].op = "attach"  PROVE AboutSession(d)'
  BY <1>1, <1>2, <1>5 DEF AboutSession
<1>6. ASSUME calls[d].op \in {"reuse", "end_sessions", "delete"}  PROVE AboutSession(d)'
  <2>1. calls[d].read.user \in Account /\ calls[d].read.upto \in 0..Len(tokens')
        /\ <<"user", calls[d].read.user>> \in calls[d].keys
    BY <1>2, <1>6, <1>l DEF AboutSession
  <2>2. QED  BY <1>1, <1>6, <2>1 DEF AboutSession
<1>7. ASSUME calls[d].op = "rotate"  PROVE AboutSession(d)'
  <2> DEFINE t == calls[d].read
             u == tokens[t].user
  <2>1. /\ t \in DOMAIN tokens
        /\ <<"token", t>> \in calls[d].keys /\ <<"user", u>> \in calls[d].keys
        /\ Spent(t) => <<"token", t>> \in raced
        /\ Deleted(u) => <<"user", u>> \in raced
    BY <1>2, <1>7 DEF AboutSession
  <2>2. t \in DOMAIN tokens' /\ tokens'[t].user = u /\ u \in Account
    BY <2>1, <1>l, RowsOfToken DEF TokensGrow, AccountsInv
  <2>3. Spent(t)' => <<"token", t>> \in raced
    BY <1>1, <1>2, <2>1 DEF OnlyOwn, Spent
  <2>4. users'[u].status = "deleted" => <<"user", u>> \in raced
    BY <1>2, <2>1, <2>2 DEF OnlyOwn, Deleted
  <2>5. QED  BY <1>1, <1>7, <2>1, <2>2, <2>3, <2>4 DEF AboutSession, Deleted, Spent
<1>8. ASSUME calls[d].op = "logout"  PROVE AboutSession(d)'
  BY <1>1, <1>2, <1>8, <1>l DEF AboutSession
<1>9. ASSUME calls[d].op = "idle"  PROVE AboutSession(d)'
  <2>1. ASSUME calls[d].answer.what = "ended"
        PROVE  calls[d].answer.upto \in 0..Len(tokens')
               /\ \A i \in 1..calls[d].answer.upto :
                    tokens'[i].user = calls[d].answer.of => ~tokens'[i].live
    BY <1>2, <1>9, <1>l, <2>1 DEF AboutSession, EndedFor, TokensGrow
  <2>2. QED  BY <1>1, <1>9, <2>1 DEF AboutSession, EndedFor
<1>10. ASSUME calls[d].op \notin {"register", "sign_in", "attach", "reuse", "end_sessions",
                                  "delete", "rotate", "logout", "idle"}
       PROVE  AboutSession(d)'
  BY <1>1, <1>10 DEF AboutSession
<1>11. QED  BY <1>3, <1>4, <1>5, <1>6, <1>7, <1>8, <1>9, <1>10

\* So an answer has to leave the tokens right, and nothing else.
LEMMA SessionsAnswered ==
  ASSUME AccountsInv, NEW c \in Client, NEW STATE answer, Answer(c, answer),
         RowsTyped', TokensGrow, OnlyOwn(c), TokensKept',
         answer.what = "ended" => /\ answer.upto \in 0..Len(tokens)
                                  /\ \A i \in 1..answer.upto :
                                        tokens'[i].user = answer.of => ~tokens'[i].live
  PROVE  AccountsInv'
<1>1. /\ RequestsInv'
      /\ calls'[c] = [op |-> "idle", keys |-> {}, answer |-> answer]
  BY AnswerRequest DEF AccountsInv
<1>2. answer.what = "ended" => answer.upto \in 0..Len(tokens')
  BY DEF AccountsInv, RowsTyped, TokensGrow
<1>3. AboutSession(c)'
  BY <1>1, <1>2 DEF AboutSession, EndedFor
<1>4. ASSUME NEW d \in Client \ {c}  PROVE AboutSession(d)'
  BY OtherSessionsStay
<1>5. QED  BY <1>1, <1>3, <1>4 DEF AccountsInv

\* A session for u: no token is replaced by it.
LEMMA MintKeeps ==
  ASSUME AccountsInv, NEW c \in Client, Answer(c, Served),
         users' \in [Account -> AccountRow],
         \A a \in Account : Deleted(a)' => Deleted(a),
         NEW STATE u, u \in Account,
         tokens' = Append(tokens, Token(u, 0)), Deleted(u) => <<"user", u>> \in raced
  PROVE  AccountsInv'
<1> DEFINE new == Token(u, 0)
           n == Len(tokens) + 1
<1>1. new \in TokenRow /\ new.user = u /\ new.from = 0
  BY DEF Token, TokenRow
<1>2. RowsTyped'
  BY <1>1 DEF AccountsInv, RowsTyped
<1>3. /\ Len(tokens) \in Nat /\ Len(tokens') = n /\ tokens'[n] = new
      /\ DOMAIN tokens = 1..Len(tokens) /\ DOMAIN tokens' = 1..n
      /\ \A i \in DOMAIN tokens : tokens'[i] = tokens[i]
  BY <1>1 DEF AccountsInv, RowsTyped
<1>4. raced' = raced
  BY DEF Answer
<1>5. TokensGrow
  BY <1>3 DEF TokensGrow
<1>6. ASSUME NEW t \in DOMAIN tokens', Spent(t)'  PROVE t \in DOMAIN tokens /\ Spent(t)
  <2>1. PICK j \in DOMAIN tokens' : tokens'[j].from = t
    BY <1>6 DEF Spent
  <2>2. j # n
    BY <2>1, <1>1, <1>3
  <2>3. j \in DOMAIN tokens /\ tokens[j].from = t
    BY <2>1, <2>2, <1>3
  <2>4. tokens[j].from \in 0..Len(tokens)
    BY <2>3 DEF AccountsInv, TokensKept
  <2>5. QED  BY <2>3, <2>4, <1>3 DEF Spent
<1>7. OnlyOwn(c)
  BY <1>3, <1>6 DEF OnlyOwn
<1>8. TokensKept'
  <2>1. \A i \in DOMAIN tokens' : tokens'[i].from \in 0..(i - 1)
    BY <1>1, <1>3 DEF AccountsInv, TokensKept
  <2>2. ASSUME NEW t \in DOMAIN tokens', Spent(t)'  PROVE ~tokens'[t].live
    BY <1>6, <1>3, <2>2 DEF AccountsInv, TokensKept
  <2>3. ExchangedOnce'
    BY <1>1, <1>3, <1>4 DEF AccountsInv, TokensKept, ExchangedOnce
  <2>4. ASSUME NEW i \in DOMAIN tokens', users'[tokens'[i].user].status = "deleted",
               <<"user", tokens'[i].user>> \notin raced'
        PROVE  ~tokens'[i].live
    <3>1. CASE i = n
      BY <3>1, <2>4, <1>1, <1>3, <1>4 DEF Deleted
    <3>2. CASE i \in DOMAIN tokens
      <4>1. tokens[i].user \in Account /\ tokens'[i] = tokens[i]
        BY <3>2, <1>3, RowsOfToken DEF AccountsInv
      <4>2. Deleted(tokens[i].user)
        BY <4>1, <2>4 DEF Deleted
      <4>3. QED  BY <3>2, <4>1, <4>2, <2>4, <1>4 DEF AccountsInv, TokensKept
    <3>3. QED  BY <3>1, <3>2, <1>3
  <2>5. QED  BY <2>1, <2>2, <2>3, <2>4 DEF TokensKept, Deleted
<1>9. Served.what # "ended"
  BY Refusals
<1>10. QED  BY <1>2, <1>5, <1>7, <1>8, <1>9, SessionsAnswered

\* Tokens revoked, and nothing else done to them.
LEMMA RevokingKeeps ==
  ASSUME AccountsInv, NEW c \in Client, NEW STATE answer, Answer(c, answer),
         users' \in [Account -> AccountRow],
         tokens' \in Seq(TokenRow), Len(tokens') = Len(tokens),
         \A i \in DOMAIN tokens : /\ tokens'[i].user = tokens[i].user
                                  /\ tokens'[i].live => tokens[i].live
                                  /\ tokens'[i].from = tokens[i].from,
         \A a \in Account : Deleted(a)' => \/ Deleted(a)
                                           \/ /\ <<"user", a>> \in calls[c].keys
                                              /\ \A i \in DOMAIN tokens :
                                                    tokens[i].user = a => ~tokens'[i].live,
         answer.what = "ended" => /\ answer.upto \in 0..Len(tokens)
                                  /\ \A i \in 1..answer.upto :
                                        tokens'[i].user = answer.of => ~tokens'[i].live
  PROVE  AccountsInv'
<1>1. RowsTyped' /\ raced' = raced
  BY DEF RowsTyped, Answer
<1>2. DOMAIN tokens' = DOMAIN tokens /\ Len(tokens) \in Nat
  BY DEF AccountsInv, RowsTyped
<1>3. TokensGrow
  BY <1>2 DEF TokensGrow
<1>4. \A t : Spent(t)' <=> Spent(t)
  BY <1>2 DEF Spent
<1>5. OnlyOwn(c)
  BY <1>4 DEF OnlyOwn
<1>6. TokensKept'
  <2>1. \A i \in DOMAIN tokens' : tokens'[i].from \in 0..(i - 1)
    BY <1>2 DEF AccountsInv, TokensKept
  <2>2. ASSUME NEW t \in DOMAIN tokens', Spent(t)'  PROVE ~tokens'[t].live
    BY <1>4, <1>2, <2>2 DEF AccountsInv, TokensKept
  <2>3. ExchangedOnce'
    BY <1>1, <1>2 DEF AccountsInv, TokensKept, ExchangedOnce
  <2>4. ASSUME NEW i \in DOMAIN tokens', users'[tokens'[i].user].status = "deleted",
               <<"user", tokens'[i].user>> \notin raced'
        PROVE  ~tokens'[i].live
    <3>1. tokens[i].user \in Account /\ tokens'[i].user = tokens[i].user
      BY <1>2, RowsOfToken DEF AccountsInv
    <3>2. CASE Deleted(tokens[i].user)
      BY <1>1, <1>2, <2>4, <3>1, <3>2 DEF AccountsInv, TokensKept
    <3>3. CASE ~Deleted(tokens[i].user)
      BY <1>2, <2>4, <3>1, <3>3 DEF Deleted
    <3>4. QED  BY <3>2, <3>3
  <2>5. QED  BY <2>1, <2>2, <2>3, <2>4 DEF TokensKept, Deleted
<1>7. QED  BY <1>1, <1>3, <1>5, <1>6, SessionsAnswered

\* What RevokeAll leaves.
LEMMA RevokeAllEnds ==
  ASSUME RowsTyped, NEW STATE u
  PROVE  /\ RevokeAll(u) \in Seq(TokenRow) /\ Len(RevokeAll(u)) = Len(tokens)
         /\ DOMAIN RevokeAll(u) = DOMAIN tokens
         /\ \A i \in DOMAIN tokens : /\ RevokeAll(u)[i].user = tokens[i].user
                                     /\ RevokeAll(u)[i].live => tokens[i].live
                                     /\ RevokeAll(u)[i].from = tokens[i].from
                                     /\ tokens[i].user = u => ~RevokeAll(u)[i].live
<1>1. /\ Len(tokens) \in Nat /\ DOMAIN tokens = 1..Len(tokens)
      /\ \A i \in 1..Len(tokens) : tokens[i] \in TokenRow
  BY DEF RowsTyped
<1>2. \A i \in 1..Len(tokens) :
        /\ RevokeAll(u)[i] \in TokenRow
        /\ RevokeAll(u)[i].user = tokens[i].user
        /\ RevokeAll(u)[i].live => tokens[i].live
        /\ RevokeAll(u)[i].from = tokens[i].from
        /\ tokens[i].user = u => ~RevokeAll(u)[i].live
  BY <1>1 DEF RevokeAll, TokenRow
<1>3. RevokeAll(u) \in [1..Len(tokens) -> TokenRow]
  BY <1>1, <1>2 DEF RevokeAll
<1>4. RevokeAll(u) \in Seq(TokenRow) /\ Len(RevokeAll(u)) = Len(tokens)
  BY <1>1, <1>3
<1>5. QED  BY <1>1, <1>2, <1>3, <1>4

\* The sessions of a request end: logout_all, set_password, a reused token.
LEMMA EndingsKeep ==
  ASSUME AccountsInv, NEW c \in Client, RevokeSessions(c) \/ EndReused(c)
  PROVE  AccountsInv'
<1> DEFINE u == calls[c].read.user
           n == calls[c].read.upto
<1>1. /\ tokens' = RevokeAll(u) /\ users' = users
      /\ Answer(c, Ended(c))
      /\ calls[c].op \in {"reuse", "end_sessions", "delete"}
  BY DEF RevokeSessions, EndReused
<1>2. n \in 0..Len(tokens) /\ RowsTyped
  BY <1>1 DEF AccountsInv, AboutSession
<1>3. Ended(c).what = "ended" /\ Ended(c).of = u /\ Ended(c).upto = n
  BY DEF Ended
<1>4. \A i \in 1..n : tokens'[i].user = u => ~tokens'[i].live
  <2>1. \A i \in 1..n : i \in DOMAIN tokens
    BY <1>2 DEF RowsTyped
  <2>2. QED  BY <2>1, <1>1, <1>2, RevokeAllEnds
<1>5. \A a \in Account : Deleted(a)' => Deleted(a)
  BY <1>1 DEF Deleted
<1>6. users' \in [Account -> AccountRow]
  BY <1>1, <1>2 DEF RowsTyped
<1>7. /\ tokens' \in Seq(TokenRow) /\ Len(tokens') = Len(tokens)
      /\ \A i \in DOMAIN tokens : /\ tokens'[i].user = tokens[i].user
                                  /\ tokens'[i].live => tokens[i].live
                                  /\ tokens'[i].from = tokens[i].from
  BY <1>1, <1>2, RevokeAllEnds
<1>8. PICK answer : /\ Answer(c, answer) /\ answer.what = "ended" /\ answer.upto \in 0..Len(tokens)
                    /\ \A i \in 1..answer.upto : tokens'[i].user = answer.of => ~tokens'[i].live
  BY <1>1, <1>2, <1>3, <1>4
<1>9. QED  BY <1>5, <1>6, <1>7, <1>8, RevokingKeeps

\* delete_account
LEMMA DeletionKeeps ==
  ASSUME AccountsInv, NEW c \in Client, Delete(c)
  PROVE  AccountsInv'
<1> DEFINE u == calls[c].read.user
           n == calls[c].read.upto
           row == IF Living(u) THEN Anonymised(users[u]) ELSE users[u]
<1>1. /\ n \in 0..Len(tokens) /\ u \in Account /\ <<"user", u>> \in calls[c].keys
      /\ RowsTyped /\ users[u] \in AccountRow
  BY DEF Delete, AccountsInv, AboutSession, RowsTyped
<1>2. row \in AccountRow
  BY <1>1 DEF Anonymised, AccountRow
<1>3. CASE Answer(c, Refused("no_contact", u)) /\ UNCHANGED accounts
  <2>1. /\ RowsTyped' /\ TokensGrow /\ OnlyOwn(c)
        /\ tokens' \in Seq(TokenRow) /\ users' \in [Account -> AccountRow]
        /\ tokens' = tokens
    BY <1>1, <1>3 DEF RowsTyped, TokensGrow, OnlyOwn, Deleted, Spent, accounts
  <2>2. \A a \in Account : Deleted(a)' => Deleted(a)
    BY <1>3 DEF Deleted, accounts
  <2>3. Refused("no_contact", u).what # "ended"
    BY Refusals
  <2>4. QED  BY <1>3, <2>1, <2>2, <2>3, RevokingKeeps
<1>4. CASE /\ users' = [users EXCEPT ![u] = row]
           /\ tokens' = RevokeAll(u)
           /\ Answer(c, Ended(c))
  <2>1. users' \in [Account -> AccountRow]
    BY <1>1, <1>2, <1>4 DEF RowsTyped
  <2>2. \A i \in DOMAIN tokens : tokens[i].user = u => ~tokens'[i].live
    BY <1>1, <1>4, RevokeAllEnds
  <2>3. \A i \in 1..n : tokens'[i].user = u => ~tokens'[i].live
    <3>1. \A i \in 1..n : i \in DOMAIN tokens
      BY <1>1 DEF RowsTyped
    <3>2. QED  BY <3>1, <1>1, <1>4, RevokeAllEnds
  <2>4. Ended(c).what = "ended" /\ Ended(c).of = u /\ Ended(c).upto = n
    BY DEF Ended
  <2>5. \A a \in Account \ {u} : users'[a] = users[a]
    BY <1>1, <1>4 DEF RowsTyped
  <2>6. \A a \in Account : Deleted(a)' => Deleted(a) \/ a = u
    BY <2>5 DEF Deleted
  <2>7. /\ tokens' \in Seq(TokenRow) /\ Len(tokens') = Len(tokens)
        /\ \A i \in DOMAIN tokens : /\ tokens'[i].user = tokens[i].user
                                    /\ tokens'[i].live => tokens[i].live
                                    /\ tokens'[i].from = tokens[i].from
    BY <1>1, <1>4, RevokeAllEnds
  <2>8. PICK answer : /\ Answer(c, answer) /\ answer.what = "ended" /\ answer.upto \in 0..Len(tokens)
                      /\ \A i \in 1..answer.upto : tokens'[i].user = answer.of => ~tokens'[i].live
    BY <1>1, <1>4, <2>3, <2>4
  <2>9. \A a \in Account : Deleted(a)' => \/ Deleted(a)
                                         \/ /\ <<"user", a>> \in calls[c].keys
                                            /\ \A i \in DOMAIN tokens :
                                                  tokens[i].user = a => ~tokens'[i].live
    BY <1>1, <2>2, <2>6
  <2>10. QED  BY <2>1, <2>7, <2>8, <2>9, RevokingKeeps
<1>5. QED  BY <1>3, <1>4 DEF Delete

\* logout
LEMMA LeavingKeeps ==
  ASSUME AccountsInv, NEW c \in Client, Leave(c)
  PROVE  AccountsInv'
<1> DEFINE t == calls[c].read.token
<1>0. calls[c].op = "logout" /\ AboutSession(c) /\ RowsTyped
  BY DEF Leave, AccountsInv
<1>1. t \in DOMAIN tokens /\ RowsTyped /\ tokens[t] \in TokenRow
  BY <1>0 DEF AboutSession, RowsTyped
<1>2. /\ tokens' = [tokens EXCEPT ![t].live = FALSE] \/ tokens' = tokens
      /\ users' = users /\ Answer(c, Served)
  BY DEF Leave
<1>3. /\ tokens' \in Seq(TokenRow) /\ Len(tokens') = Len(tokens)
      /\ \A i \in DOMAIN tokens : /\ tokens'[i].user = tokens[i].user
                                  /\ tokens'[i].live => tokens[i].live
                                  /\ tokens'[i].from = tokens[i].from
  <2>1. CASE tokens' = tokens
    BY <1>1, <2>1 DEF RowsTyped
  <2>2. CASE tokens' = [tokens EXCEPT ![t].live = FALSE]
    <3>1. [tokens[t] EXCEPT !.live = FALSE] \in TokenRow
      BY <1>1 DEF TokenRow
    <3>2. QED  BY <1>1, <2>2, <3>1 DEF RowsTyped, TokenRow
  <2>3. QED  BY <1>2, <2>1, <2>2
<1>4. users' \in [Account -> AccountRow] /\ \A a \in Account : Deleted(a)' => Deleted(a)
  BY <1>1, <1>2 DEF RowsTyped, Deleted
<1>5. Served.what # "ended"
  BY Refusals
<1>6. QED  BY <1>2, <1>3, <1>4, <1>5, RevokingKeeps

\* The INSERT of an account with its session.
LEMMA CreationKeeps ==
  ASSUME AccountsInv, NEW c \in Client, Create(c)
  PROVE  AccountsInv'
<1> DEFINE new == calls[c].read
<1>1. new \in AccountRow /\ new.status = "active" /\ RowsTyped
  BY DEF Create, AccountsInv, AboutSession
<1>2. ASSUME NEW STATE answer, answer.what # "ended", Answer(c, answer), UNCHANGED accounts
      PROVE  AccountsInv'
  BY <1>2, OnlyAnswers
<1>3. ASSUME NEW a \in Account, users[a] = Nobody, users' = [users EXCEPT ![a] = new],
             tokens' = Append(tokens, Token(a, 0)), Answer(c, Served)
      PROVE  AccountsInv'
  <2>1. users' \in [Account -> AccountRow]
    BY <1>1, <1>3 DEF RowsTyped
  <2>2. \A b \in Account : users'[b] = users[b] \/ users'[b] = new
    BY <1>1, <1>3 DEF RowsTyped
  <2>3. \A b \in Account : Deleted(b)' => Deleted(b)
    BY <1>1, <2>2 DEF Deleted
  <2>4. ~Deleted(a)
    BY <1>3 DEF Nobody, Deleted
  <2>5. QED  BY <1>3, <2>1, <2>3, <2>4, MintKeeps
<1>4. QED  BY <1>2, <1>3, Refusals DEF Create

\* The session of somebody who signed in.
LEMMA EntryKeeps ==
  ASSUME AccountsInv, NEW c \in Client, Enter(c)
  PROVE  AccountsInv'
<1> DEFINE u == calls[c].read
<1>1. /\ tokens' = Append(tokens, Token(u, 0)) /\ users' = users /\ Answer(c, Served)
      /\ calls[c].op = "sign_in"
  BY DEF Enter
<1>2. u \in Account /\ (Deleted(u) => <<"user", u>> \in raced)
  BY <1>1 DEF AccountsInv, AboutSession
<1>3. users' \in [Account -> AccountRow] /\ \A a \in Account : Deleted(a)' => Deleted(a)
  BY <1>1 DEF AccountsInv, RowsTyped, Deleted
<1>4. QED  BY <1>1, <1>2, <1>3, MintKeeps

\* attach_telegram_contact
LEMMA AttachmentKeeps ==
  ASSUME AccountsInv, NEW c \in Client, Attach(c)
  PROVE  AccountsInv'
<1> DEFINE r == calls[c].read
<1>1. r.user \in Account /\ r.phone \in Phone /\ RowsTyped /\ tokens' = tokens
  BY DEF Attach, AccountsInv, AboutSession
<1>2. PICK answer \in {Served, PhoneTaken(r.phone)} :
        /\ Answer(c, answer)
        /\ users' = users \/ users' = [users EXCEPT ![r.user].phone = r.phone]
  BY DEF Attach
<1>3. [users[r.user] EXCEPT !.phone = r.phone] \in AccountRow
      /\ [users[r.user] EXCEPT !.phone = r.phone].status = users[r.user].status
  BY <1>1 DEF RowsTyped, AccountRow
<1>4. users' \in [Account -> AccountRow] /\ \A a \in Account : Deleted(a)' => Deleted(a)
  BY <1>1, <1>2, <1>3 DEF RowsTyped, Deleted
<1>5. answer.what # "ended"
  BY Refusals
<1>6. tokens' \in Seq(TokenRow) /\ Len(tokens') = Len(tokens)
  BY <1>1 DEF RowsTyped
<1>7. QED  BY <1>1, <1>2, <1>4, <1>5, <1>6, RevokingKeeps

\* A token exchanged for the next.
LEMMA RotationKeeps ==
  ASSUME AccountsInv, NEW c \in Client, Rotate(c)
  PROVE  AccountsInv'
<1> DEFINE t == calls[c].read
           u == tokens[t].user
           n == Len(tokens) + 1
           spent == [tokens EXCEPT ![t].live = FALSE]
           new == Token(u, t)
<1>1. /\ tokens' = Append(spent, new) /\ users' = users /\ Answer(c, Served)
      /\ calls[c].op = "rotate" /\ RowsTyped /\ AboutSession(c)
  BY DEF Rotate, AccountsInv
<1>2. /\ t \in DOMAIN tokens /\ <<"token", t>> \in calls[c].keys
      /\ Spent(t) => <<"token", t>> \in raced
      /\ Deleted(u) => <<"user", u>> \in raced
  BY <1>1 DEF AboutSession
<1>3. /\ u \in Account /\ Len(tokens) \in Nat /\ t \in 1..Len(tokens)
      /\ DOMAIN tokens = 1..Len(tokens) /\ tokens[t] \in TokenRow
  BY <1>1, <1>2, RowsOfToken DEF RowsTyped
<1>4. new \in TokenRow /\ new.user = u /\ new.from = t
  BY <1>3 DEF Token, TokenRow
<1>5. /\ spent \in Seq(TokenRow) /\ Len(spent) = Len(tokens)
      /\ \A i \in DOMAIN tokens : /\ spent[i].user = tokens[i].user
                                  /\ spent[i].live => tokens[i].live
                                  /\ spent[i].from = tokens[i].from
      /\ ~spent[t].live
  <2>1. [tokens[t] EXCEPT !.live = FALSE] \in TokenRow
    BY <1>3 DEF TokenRow
  <2>2. QED  BY <1>1, <1>3, <2>1 DEF RowsTyped, TokenRow
<1> HIDE DEF spent, new
<1>6. /\ Len(tokens') = n /\ DOMAIN tokens' = 1..n /\ tokens'[n] = new
      /\ \A i \in DOMAIN tokens : tokens'[i] = spent[i]
  BY <1>1, <1>3, <1>4, <1>5
<1>7. RowsTyped' /\ raced' = raced
  BY <1>1, <1>4, <1>5 DEF RowsTyped, Answer
<1>8. TokensGrow
  BY <1>3, <1>5, <1>6 DEF TokensGrow
<1>9. \A i \in DOMAIN tokens : tokens[i].from \in 0..Len(tokens)
  BY <1>3 DEF AccountsInv, TokensKept
<1>10. ASSUME NEW s \in DOMAIN tokens', Spent(s)'
       PROVE  s \in DOMAIN tokens /\ (Spent(s) \/ s = t)
  <2>1. PICK j \in DOMAIN tokens' : tokens'[j].from = s
    BY <1>10 DEF Spent
  <2>2. CASE j = n
    BY <2>1, <2>2, <1>3, <1>4, <1>6
  <2>3. CASE j \in DOMAIN tokens
    <3>1. tokens[j].from = s
      BY <2>1, <2>3, <1>5, <1>6
    <3>2. QED  BY <2>3, <3>1, <1>3, <1>6, <1>9 DEF Spent
  <2>4. QED  BY <2>2, <2>3, <1>3, <1>6
<1>11. OnlyOwn(c)
  <2>1. \A a \in Account : Deleted(a)' => Deleted(a)
    BY <1>1 DEF Deleted
  <2>2. ASSUME NEW s \in DOMAIN tokens, Spent(s)'
        PROVE  Spent(s) \/ <<"token", s>> \in calls[c].keys
    <3>1. s \in DOMAIN tokens'
      BY <1>3, <1>6
    <3>2. QED  BY <3>1, <2>2, <1>2, <1>10
  <2>3. QED  BY <2>1, <2>2 DEF OnlyOwn
<1>12. TokensKept'
  <2>1. ASSUME NEW i \in DOMAIN tokens'  PROVE tokens'[i].from \in 0..(i - 1)
    <3>1. CASE i = n
      BY <3>1, <1>3, <1>4, <1>6
    <3>2. CASE i \in DOMAIN tokens
      <4>1. tokens[i].from \in 0..(i - 1) /\ tokens'[i].from = tokens[i].from
        BY <3>2, <1>5, <1>6 DEF AccountsInv, TokensKept
      <4>2. QED  BY <4>1
    <3>3. QED  BY <3>1, <3>2, <1>3, <1>6
  <2>2. ASSUME NEW s \in DOMAIN tokens', Spent(s)'  PROVE ~tokens'[s].live
    BY <1>5, <1>6, <1>10, <2>2 DEF AccountsInv, TokensKept
  <2>3. ExchangedOnce'
    <3>1. SUFFICES ASSUME NEW i \in DOMAIN tokens', NEW j \in DOMAIN tokens', i # j,
                          tokens'[i].from = tokens'[j].from, tokens'[i].from # 0
                   PROVE  <<"token", tokens'[i].from>> \in raced
      BY <1>7 DEF ExchangedOnce
    <3>2. ASSUME NEW k \in DOMAIN tokens, tokens'[k].from = t
          PROVE  <<"token", t>> \in raced
      <4>1. Spent(t)
        BY <3>2, <1>5, <1>6 DEF Spent
      <4>2. QED  BY <4>1, <1>2
    <3>3. CASE i = n
      BY <3>1, <3>2, <3>3, <1>3, <1>4, <1>6
    <3>4. CASE j = n
      BY <3>1, <3>2, <3>4, <1>3, <1>4, <1>6
    <3>5. CASE i # n /\ j # n
      <4>1. i \in DOMAIN tokens /\ j \in DOMAIN tokens
        BY <3>5, <1>3, <1>6
      <4>2. tokens[i].from = tokens[j].from /\ tokens[i].from = tokens'[i].from
        BY <3>1, <4>1, <1>5, <1>6
      <4>3. ExchangedOnce
        BY DEF AccountsInv, TokensKept
      <4>4. QED  BY <3>1, <4>1, <4>2, <4>3 DEF ExchangedOnce
    <3>6. QED  BY <3>3, <3>4, <3>5
  <2>4. ASSUME NEW i \in DOMAIN tokens', users'[tokens'[i].user].status = "deleted",
               <<"user", tokens'[i].user>> \notin raced'
        PROVE  ~tokens'[i].live
    <3>1. CASE i = n
      BY <3>1, <2>4, <1>1, <1>2, <1>4, <1>6, <1>7 DEF Deleted
    <3>2. CASE i \in DOMAIN tokens
      BY <3>2, <2>4, <1>1, <1>5, <1>6, <1>7, ZenonT(60) DEF Deleted, AccountsInv, TokensKept
    <3>3. QED  BY <3>1, <3>2, <1>3, <1>6
  <2>5. QED  BY <2>1, <2>2, <2>3, <2>4 DEF TokensKept, Deleted
<1>13. Served.what # "ended"
  BY Refusals
<1>14. QED  BY <1>1, <1>7, <1>8, <1>11, <1>12, <1>13, SessionsAnswered

\* Support blocks an account: nobody is deleted by it.
LEMMA BlockingKeeps ==
  ASSUME AccountsInv, NEW a \in Account, Block(a)
  PROVE  AccountsInv'
<1>1. /\ tokens' = tokens /\ calls' = calls /\ raced' = raced
      /\ users' = [users EXCEPT ![a].status = "blocked"] /\ users[a].status = "active"
  BY DEF Block, requests
<1>2. [users[a] EXCEPT !.status = "blocked"] \in AccountRow
      /\ [users[a] EXCEPT !.status = "blocked"].status = "blocked"
  BY DEF AccountsInv, RowsTyped, AccountRow
<1>3. users' \in [Account -> AccountRow]
      /\ \A b \in Account : users'[b].status = "deleted" <=> users[b].status = "deleted"
  BY <1>1, <1>2 DEF AccountsInv, RowsTyped
<1>4. RequestsInv' /\ RowsTyped'
  BY <1>1, <1>3 DEF AccountsInv, RequestsInv, RowsTyped
<1>5. \A i \in DOMAIN tokens : tokens[i].user \in Account
  BY RowsOfToken DEF AccountsInv
<1>6. TokensKept'
  BY <1>1, <1>3, <1>5 DEF AccountsInv, TokensKept, ExchangedOnce, Spent, Deleted
<1>7. ASSUME NEW d \in Client  PROVE AboutSession(d)'
  <2>1. AboutSession(d) /\ calls'[d] = calls[d]
    BY <1>1 DEF AccountsInv
  <2>2. CASE calls[d].op = "sign_in"
    BY <1>1, <1>3, <2>1, <2>2 DEF AboutSession, Deleted
  <2>3. CASE calls[d].op = "rotate"
    BY <1>1, <1>3, <1>5, <2>1, <2>3 DEF AboutSession, Spent, Deleted
  <2>4. CASE calls[d].op \notin {"sign_in", "rotate"}
    BY <1>1, <2>1, <2>4 DEF AboutSession, EndedFor
  <2>5. QED  BY <2>2, <2>3, <2>4
<1>8. QED  BY <1>4, <1>6, <1>7 DEF AccountsInv

-----------------------------------------------------------------------------
\* In the traffic of another area nobody is deleted and nothing exchanged.
Elsewhere ==
    /\ NothingSaid
    /\ tokens = <<Token(1, 0), Token(2, 0)>>
    /\ \A a \in Account : users[a].status \in {"none", "active"}
    /\ \A i \in DOMAIN tokens : tokens[i].user \in Account /\ ~Deleted(tokens[i].user)

AccountsAreRight == IF area = "accounts" THEN AccountsInv ELSE Elsewhere

LEMMA AccountsInitially == Init => AccountsAreRight
<1> SUFFICES ASSUME Init PROVE AccountsInv /\ Elsewhere
  BY DEF AccountsAreRight
<1>1. /\ users \in [Account -> AccountRow]
      /\ \A a \in Account : users[a].status \in {"none", "active"}
  <2> DEFINE phoned(p) == [NewUser EXCEPT !.phone = p, !.login = "issued"]
             wrote(t) == [NewUser EXCEPT !.telegram = t]
             row(p, t, a) == CASE a = 1 -> phoned(p) [] a = 2 -> wrote(t) [] OTHER -> Nobody
  <2>1. Nobody \in AccountRow /\ Nobody.status = "none"
    BY DEF Nobody, AccountRow
  <2>2. ASSUME NEW p \in Phone  PROVE phoned(p) \in AccountRow /\ phoned(p).status = "active"
    BY DEF NewUser, Nobody, AccountRow
  <2>3. ASSUME NEW t \in Telegram  PROVE wrote(t) \in AccountRow /\ wrote(t).status = "active"
    BY DEF NewUser, Nobody, AccountRow
  <2>4. PICK p \in Phone, t \in Telegram : users = [a \in Account |-> row(p, t, a)]
    BY DEF Init, AccountsInit
  <2> HIDE DEF phoned, wrote
  <2>5. \A a \in Account : row(p, t, a) \in AccountRow /\ row(p, t, a).status \in {"none", "active"}
    BY <2>1, <2>2, <2>3
  <2> HIDE DEF row
  <2>6. QED  BY <2>4, <2>5
<1>2. tokens = <<Token(1, 0), Token(2, 0)>>
  BY DEF Init, AccountsInit
<1>3. Token(1, 0) \in TokenRow /\ Token(2, 0) \in TokenRow
  BY AccountAssumption DEF Token, TokenRow
<1>4. /\ tokens \in Seq(TokenRow) /\ Len(tokens) = 2 /\ DOMAIN tokens = {1, 2}
      /\ \A i \in DOMAIN tokens : tokens[i].from = 0 /\ tokens[i].user \in Account
  <2>1. tokens[1] = Token(1, 0) /\ tokens[2] = Token(2, 0)
    BY <1>2
  <2>2. tokens \in Seq(TokenRow) /\ Len(tokens) = 2 /\ DOMAIN tokens = {1, 2}
    BY <1>2, <1>3
  <2>3. QED  BY <2>1, <2>2, AccountAssumption DEF Token
<1>5. \A i \in DOMAIN tokens : ~Deleted(tokens[i].user)
  BY <1>1, <1>4 DEF Deleted
<1>6. TokensKept
  BY <1>4, <1>5 DEF TokensKept, Spent, ExchangedOnce
<1>7. RequestsInv /\ \A c \in Client : calls[c] = Idle
  BY RequestsInitially DEF Init, RequestsInit
<1>8. \A c \in Client : AboutSession(c)
  BY <1>7 DEF AboutSession, Idle, NoAnswer
<1>9. NothingSaid
  BY <1>7 DEF NothingSaid, AccountsSay, RequestsInv, Idle, NoAnswer
<1>10. QED  BY <1>1, <1>2, <1>4, <1>5, <1>6, <1>7, <1>8, <1>9 DEF AccountsInv, Elsewhere, RowsTyped

LEMMA AccountsStep == AccountsAreRight /\ [Next]_vars => AccountsAreRight'
<1> SUFFICES ASSUME AccountsAreRight, [Next]_vars PROVE AccountsAreRight'
  OBVIOUS
<1>1. CASE UNCHANGED vars
  <2>1. calls' = calls /\ raced' = raced /\ area' = area /\ users' = users /\ tokens' = tokens
    BY <1>1 DEF vars, requests, accounts
  <2>2. CASE area = "accounts"
    <3>1. RequestsInv' /\ RowsTyped' /\ TokensKept'
      BY <2>1, <2>2 DEF AccountsAreRight, AccountsInv, RequestsInv, RowsTyped, TokensKept, Spent,
         ExchangedOnce, Deleted
    <3>2. \A c \in Client : AboutSession(c)'
      BY <2>1, <2>2 DEF AccountsAreRight, AccountsInv, AboutSession, Spent, Deleted, EndedFor
    <3>3. QED  BY <2>1, <2>2, <3>1, <3>2 DEF AccountsAreRight, AccountsInv
  <2>3. CASE area # "accounts"
    BY <2>1, <2>3 DEF AccountsAreRight, Elsewhere, NothingSaid, Deleted
  <2>4. QED  BY <2>2, <2>3
<1>2. CASE Next /\ area = "accounts"
  <2>1. AccountsInv /\ AccountsNext /\ area' = area
    BY <1>2, StepOfArea DEF AccountsAreRight
  <2>2. AccountsInv'
    BY <2>1, BeginningsKeep, CreationKeeps, EntryKeeps, AttachmentKeeps, EndingsKeep, DeletionKeeps,
       RotationKeeps, LeavingKeeps, BlockingKeeps DEF AccountsNext
  <2>3. QED  BY <1>2, <2>1, <2>2 DEF AccountsAreRight
<1>3. CASE Next /\ area # "accounts"
  <2>1. Elsewhere /\ area' = area /\ UNCHANGED accounts
    BY <1>3, StepOfArea DEF AccountsAreRight
  <2>2. StaffNext \/ BranchesNext \/ ReviewsNext \/ MenuNext \/ InboxNext \/ PlacesNext \/ BotNext
    BY <1>3 DEF Next, Others
  <2>3. NothingSaid'
    BY <2>1, <2>2, OthersSayNothing DEF Elsewhere
  <2>4. QED  BY <1>3, <2>1, <2>3 DEF AccountsAreRight, Elsewhere, Deleted, accounts
<1>4. QED  BY <1>1, <1>2, <1>3

LEMMA AccountsInvariant == Spec => []AccountsAreRight
  BY AccountsInitially, AccountsStep, PTL DEF Spec

\* For any number of devices, accounts and requests in flight: a refresh token
\* is exchanged for two only by refreshes that overlapped (refresh, auth_service).
THEOREM TokensExchangedOnce == Spec => []ExchangedOnce
<1>1. AccountsAreRight => ExchangedOnce
  <2>1. CASE area = "accounts"
    BY <2>1 DEF AccountsAreRight, AccountsInv, TokensKept
  <2>2. ASSUME area # "accounts", AccountsAreRight  PROVE ExchangedOnce
    <3>1. DOMAIN tokens = {1, 2} /\ tokens[1] = Token(1, 0) /\ tokens[2] = Token(2, 0)
      BY <2>2 DEF AccountsAreRight, Elsewhere
    <3>2. QED  BY <3>1 DEF ExchangedOnce, Token
  <2>3. QED  BY <2>1, <2>2
<1>2. QED  BY <1>1, AccountsInvariant, PTL

\* Whatever else is under way: once logout_all, a new password, a deletion or
\* the answer to a reused token is out, the sessions it spoke of are over, and a
\* deleted account keeps none that it was not given while it was being deleted.
THEOREM EndedSessionsStayEnded == Spec => []SessionsEnd
<1>1. AccountsAreRight => SessionsEnd
  <2>1. CASE area = "accounts"
    BY <2>1 DEF AccountsAreRight, AccountsInv, TokensKept, AboutSession, EndedFor, Deleted, SessionsEnd
  <2>2. CASE area # "accounts"
    BY <2>2 DEF AccountsAreRight, Elsewhere, NothingSaid, AccountsSay, Deleted, SessionsEnd
  <2>3. QED  BY <2>1, <2>2
<1>2. QED  BY <1>1, AccountsInvariant, PTL
-----------------------------------------------------------------------------
\* How an account can be reached: a number is that of a living account, and who
\* has deleted the account has left an address.
ContactsKept ==
    /\ \A a \in Account : users[a].phone # NoValue => Living(a)
    /\ \A a \in Account : Deleted(a) => users[a].email = "tombstone"
    /\ \A c \in Client : calls[c].op = "delete" => users[calls[c].read.user].status # "none"

\* The answer has its cause, if it is a refusal.
InCause(answer) ==
    /\ answer.what # "no_contact"
    /\ answer.what = "phone_taken" => Found("phone", answer.of) # {}
    /\ answer.what = "telegram_taken" => Taken("telegram", answer.of) # {}

LEMMA Causes ==
  ASSUME NEW STATE x, NEW c \in Client
  PROVE  /\ InCause(Served) /\ InCause(Ended(c))
         /\ Found("phone", x) # {} => InCause(PhoneTaken(x))
         /\ Taken("telegram", x) # {} => InCause(TelegramTaken(x))
<1>1. Served.what = "ok" /\ Ended(c).what = "ended"
  BY DEF Served, Ended
<1>2. PhoneTaken(x).what = "phone_taken" /\ PhoneTaken(x).of = x
  BY DEF PhoneTaken, Refused
<1>3. TelegramTaken(x).what = "telegram_taken" /\ TelegramTaken(x).of = x
  BY DEF TelegramTaken, Refused
<1>4. QED  BY <1>1, <1>2, <1>3 DEF InCause

\* A number that is taken is that of somebody who would be found.
LEMMA TakenIsFound ==
  ASSUME ContactsKept, NEW STATE p, p # NoValue, NEW a \in Taken("phone", p)
  PROVE  a \in Found("phone", p)
<1>1. a \in Account /\ users[a]["phone"] = p
  BY DEF Taken
<1>2. users[a].phone = users[a]["phone"]
  OBVIOUS
<1>3. Living(a)
  BY <1>1, <1>2 DEF ContactsKept
<1>4. QED  BY <1>1, <1>3 DEF Found

\* The rows after a step of c.
LEMMA ContactsStay ==
  ASSUME AccountsInv, ContactsKept, NEW c \in Client,
         \A d \in Client \ {c} : calls'[d] = calls[d],
         calls'[c].op = "delete" => /\ calls'[c].read.user \in Account
                                    /\ users[calls'[c].read.user].status # "none",
         \A a \in Account :
            /\ users'[a].status = "none" => users[a].status = "none"
            /\ users'[a].phone # NoValue => users'[a].status \in {"active", "blocked"}
            /\ users'[a].status = "deleted" => users'[a].email = "tombstone"
  PROVE  ContactsKept'
<1>1. ASSUME NEW d \in Client, calls'[d].op = "delete"  PROVE users'[calls'[d].read.user].status # "none"
  <2>1. CASE d = c
    BY <1>1, <2>1
  <2>2. CASE d # c
    <3>1. PICK u : u = calls[d].read.user
      OBVIOUS
    <3>2. u \in Account /\ users[u].status # "none"
      BY <1>1, <2>2, <3>1 DEF AccountsInv, AboutSession, ContactsKept
    <3>3. calls'[d].read.user = u
      BY <2>2, <3>1
    <3>4. QED  BY <3>2, <3>3
  <2>3. QED  BY <2>1, <2>2
<1>2. QED  BY <1>1 DEF ContactsKept, Living, Deleted

\* A row that another takes the place of.
LEMMA ContactsOfRow ==
  ASSUME AccountsInv, ContactsKept, NEW u \in Account, NEW STATE row,
         users' = [users EXCEPT ![u] = row] \/ users' = users,
         row.status = "none" => users[u].status = "none",
         row.phone # NoValue => row.status \in {"active", "blocked"},
         row.status = "deleted" => row.email = "tombstone"
  PROVE  \A a \in Account :
            /\ users'[a].status = "none" => users[a].status = "none"
            /\ users'[a].phone # NoValue => users'[a].status \in {"active", "blocked"}
            /\ users'[a].status = "deleted" => users'[a].email = "tombstone"
<1>1. \A a \in Account : users'[a] = users[a] \/ (a = u /\ users'[a] = row)
  BY DEF AccountsInv, RowsTyped
<1>2. QED  BY <1>1 DEF ContactsKept, Living, Deleted

\* What a request does to the rows of users, and what it is answered.
Answers(c) == \E answer : (Answer(c, answer) \/ AnswerAtOnce(c, answer)) /\ InCause(answer)
Begins(c) ==
    \E op, keys, read :
        /\ Begin(c, op, keys, read) /\ op # "idle"
        /\ op = "delete" => read.user \in Account /\ users[read.user].status # "none"

LEMMA RequestsBegin ==
  ASSUME AccountsInv, ContactsKept, NEW c \in Client,
         \/ \E p \in Phone : Register(c, p) \/ \E a \in Account : AttachContact(c, a, p)
         \/ \E t \in Telegram : TelegramLogin(c, t)
         \/ \E a \in Account : Login(c, a) \/ EndSessions(c, a) \/ DeleteAccount(c, a)
         \/ \E t \in DOMAIN tokens : Refresh(c, t) \/ Logout(c, t)
  PROVE  users' = users /\ (Answers(c) \/ Begins(c))
<1>1. ASSUME NEW p \in Phone, Register(c, p)  PROVE users' = users /\ (Answers(c) \/ Begins(c))
  BY <1>1, Causes DEF Register, Answers, Begins, accounts
<1>2. ASSUME NEW p \in Phone, NEW a \in Account, AttachContact(c, a, p)
      PROVE  users' = users /\ (Answers(c) \/ Begins(c))
  BY <1>2, Causes DEF AttachContact, Answers, Begins, accounts
<1>3. ASSUME NEW t \in Telegram, TelegramLogin(c, t)  PROVE users' = users /\ Begins(c)
  <2>1. CASE Begin(c, "register", {<<"telegram", t>>}, [NewUser EXCEPT !.telegram = t])
    BY <1>3, <2>1 DEF TelegramLogin, Begins, accounts
  <2>2. CASE \E a \in Found("telegram", t) : Begin(c, "sign_in", {<<"user", a>>}, a)
    BY <1>3, <2>2 DEF TelegramLogin, Begins, accounts
  <2>3. QED  BY <1>3, <2>1, <2>2 DEF TelegramLogin
<1>4. ASSUME NEW a \in Account, Login(c, a) \/ EndSessions(c, a)  PROVE users' = users /\ Begins(c)
  BY <1>4 DEF Login, EndSessions, Begins, accounts
<1>5. ASSUME NEW a \in Account, DeleteAccount(c, a)  PROVE users' = users /\ Begins(c)
  <2>1. PICK read : read = [user |-> a, upto |-> Len(tokens)]
    OBVIOUS
  <2>2. read.user = a
    BY <2>1
  <2>3. QED  BY <1>5, <2>1, <2>2 DEF DeleteAccount, Begins, accounts
<1>6. ASSUME NEW t \in DOMAIN tokens, Refresh(c, t) \/ Logout(c, t)  PROVE users' = users /\ Begins(c)
  BY <1>6 DEF Refresh, Logout, Begins, accounts
<1>7. QED  BY <1>1, <1>2, <1>3, <1>4, <1>5, <1>6

\* The rows of users that a commit writes.
RowsAfter ==
    \A a \in Account :
        /\ users'[a].status = "none" => users[a].status = "none"
        /\ users'[a].phone # NoValue => users'[a].status \in {"active", "blocked"}
        /\ users'[a].status = "deleted" => users'[a].email = "tombstone"

LEMMA RowsUnwritten ==
  ASSUME ContactsKept, users' = users
  PROVE  RowsAfter
  BY DEF ContactsKept, RowsAfter, Living, Deleted

LEMMA RequestsCommit ==
  ASSUME AccountsInv, ContactsKept, NEW c \in Client,
         \/ Create(c) \/ Enter(c) \/ Attach(c) \/ RevokeSessions(c) \/ Delete(c) \/ Rotate(c)
         \/ EndReused(c) \/ Leave(c)
  PROVE  RowsAfter /\ Answers(c)
<1>1. CASE Enter(c) \/ RevokeSessions(c) \/ Rotate(c) \/ EndReused(c) \/ Leave(c)
  <2>1. users' = users
    BY <1>1 DEF Enter, RevokeSessions, Rotate, EndReused, Leave
  <2>2. Answer(c, Served) \/ Answer(c, Ended(c))
    BY <1>1 DEF Enter, RevokeSessions, Rotate, EndReused, Leave
  <2>3. QED  BY <2>1, <2>2, Causes, RowsUnwritten DEF Answers
<1>2. CASE Create(c)
  <2>1. PICK new : new = calls[c].read
    OBVIOUS
  <2>2. new \in AccountRow /\ new.status = "active"
    BY <1>2, <2>1 DEF Create, AccountsInv, AboutSession
  <2>3. CASE new.phone # NoValue /\ Taken("phone", new.phone) # {} /\ Answer(c, PhoneTaken(new.phone))
             /\ UNCHANGED accounts
    <3>1. Found("phone", new.phone) # {}
      BY <2>3, TakenIsFound
    <3>2. QED  BY <2>3, <3>1, Causes, RowsUnwritten DEF Answers, accounts
  <2>4. CASE Taken("telegram", new.telegram) # {} /\ Answer(c, TelegramTaken(new.telegram))
             /\ UNCHANGED accounts
    BY <2>4, Causes, RowsUnwritten DEF Answers, accounts
  <2>5. ASSUME NEW a \in Account, users' = [users EXCEPT ![a] = new], Answer(c, Served)
        PROVE  RowsAfter /\ Answers(c)
    BY <2>2, <2>5, Causes, ContactsOfRow DEF Answers, RowsAfter
  <2>6. QED  BY <1>2, <2>1, <2>3, <2>4, <2>5 DEF Create
<1>3. CASE Attach(c)
  <2>1. PICK u, p : u = calls[c].read.user /\ p = calls[c].read.phone
    OBVIOUS
  <2>2. u \in Account /\ p \in Phone /\ p # NoValue /\ users[u] \in AccountRow
    BY <1>3, <2>1, AccountAssumption DEF Attach, AccountsInv, AboutSession, RowsTyped
  <2>3. CASE Taken("phone", p) \ {u} # {} /\ Answer(c, PhoneTaken(p)) /\ users' = users
    <3>1. Found("phone", p) # {}
      BY <2>2, <2>3, TakenIsFound
    <3>2. QED  BY <2>3, <3>1, Causes, RowsUnwritten DEF Answers
  <2>4. CASE Answer(c, Served) /\ users' = users
    BY <2>4, Causes, RowsUnwritten DEF Answers
  <2>5. CASE Answer(c, Served) /\ Living(u) /\ users' = [users EXCEPT ![u].phone = p]
    <3>1. PICK row : row = [users[u] EXCEPT !.phone = p]
      OBVIOUS
    <3>2. row.status = users[u].status
      BY <2>2, <3>1 DEF AccountRow
    <3>3. row.status \in {"active", "blocked"} /\ users' = [users EXCEPT ![u] = row]
      BY <2>5, <3>1, <3>2 DEF Living
    <3>4. QED  BY <2>2, <2>5, <3>3, Causes, ContactsOfRow DEF Answers, RowsAfter
  <2>6. QED  BY <1>3, <2>1, <2>3, <2>4, <2>5 DEF Attach
<1>4. CASE Delete(c)
  <2>1. PICK u : u = calls[c].read.user
    OBVIOUS
  <2>2. u \in Account /\ users[u] \in AccountRow /\ users[u].status # "none"
    BY <1>4, <2>1 DEF Delete, AccountsInv, AboutSession, RowsTyped, ContactsKept
  <2>3. PICK row : row = IF Living(u) THEN Anonymised(users[u]) ELSE users[u]
    OBVIOUS
  <2>4. row.status = "deleted" /\ row.email = "tombstone" /\ row.phone = NoValue
    <3>1. CASE Living(u)
      BY <2>2, <2>3, <3>1 DEF Anonymised, AccountRow
    <3>2. CASE ~Living(u)
      BY <2>2, <2>3, <3>2 DEF Living, AccountRow, ContactsKept, Deleted
    <3>3. QED  BY <3>1, <3>2
  <2>5. HasContact(row)
    <3>1. row["email"] = "tombstone"
      BY <2>4
    <3>2. QED  BY <3>1, AccountAssumption DEF HasContact
  <2>6. Answer(c, Ended(c)) /\ users' = [users EXCEPT ![u] = row]
    BY <1>4, <2>1, <2>3, <2>5 DEF Delete
  <2>7. QED  BY <2>2, <2>4, <2>6, Causes, ContactsOfRow DEF Answers, RowsAfter
<1>5. QED  BY <1>1, <1>2, <1>3, <1>4

\* A step that answers nobody without a cause.
OnlyForCause == \A c \in Client : Answering(c) => RefusedForItsCause(c)

LEMMA ContactsNext ==
  ASSUME AccountsInv, ContactsKept, AccountsNext
  PROVE  ContactsKept' /\ OnlyForCause
<1>1. ASSUME NEW c \in Client, users' = users, Begins(c)  PROVE ContactsKept' /\ OnlyForCause
  <2>1. PICK op, keys, read : /\ Begin(c, op, keys, read) /\ op # "idle"
                              /\ op = "delete" => read.user \in Account /\ users[read.user].status # "none"
    BY <1>1 DEF Begins
  <2>2. /\ calls'[c] = [op |-> op, keys |-> keys, read |-> read]
        /\ \A d \in Client \ {c} : calls'[d] = calls[d]
    BY <2>1, BeginRequest DEF AccountsInv
  <2>3. OnlyForCause
    BY <2>1, <2>2 DEF OnlyForCause, Answering
  <2>4. RowsAfter
    BY <1>1, RowsUnwritten
  <2>5. calls'[c].op = op /\ calls'[c].read = read
    BY <2>2
  <2>6. QED  BY <2>1, <2>2, <2>3, <2>4, <2>5, ContactsStay DEF RowsAfter
<1>2. ASSUME NEW c \in Client, RowsAfter, Answers(c)  PROVE ContactsKept' /\ OnlyForCause
  <2>1. PICK answer : (Answer(c, answer) \/ AnswerAtOnce(c, answer)) /\ InCause(answer)
    BY <1>2 DEF Answers
  <2>2. /\ calls'[c] = [op |-> "idle", keys |-> {}, answer |-> answer]
        /\ \A d \in Client \ {c} : calls'[d] = calls[d]
    BY <2>1, AnswerRequest DEF AccountsInv
  <2>3. calls'[c].op = "idle" /\ calls'[c].answer = answer
    BY <2>2
  <2>4. RefusedForItsCause(c)
    BY <2>1, <2>3 DEF InCause, RefusedForItsCause
  <2>5. OnlyForCause
    BY <2>2, <2>4 DEF OnlyForCause, Answering
  <2>6. ContactsKept'
    BY <1>2, <2>2, <2>3, ContactsStay DEF RowsAfter
  <2>7. QED  BY <2>5, <2>6
<1>3. ASSUME NEW a \in Account, Block(a)  PROVE ContactsKept' /\ OnlyForCause
  <2>1. calls' = calls /\ users' = [users EXCEPT ![a].status = "blocked"] /\ users[a].status = "active"
    BY <1>3 DEF Block, requests
  <2>2. PICK row : row = [users[a] EXCEPT !.status = "blocked"]
    OBVIOUS
  <2>3. row.status = "blocked" /\ users' = [users EXCEPT ![a] = row]
    BY <2>1, <2>2 DEF AccountsInv, RowsTyped, AccountRow
  <2>4. RowsAfter
    BY <2>3, ContactsOfRow DEF RowsAfter
  <2>5. \A d \in Client : calls[d].op = "delete" => calls[d].read.user \in Account
    BY DEF AccountsInv, AboutSession
  <2>6. ContactsKept'
    BY <2>1, <2>4, <2>5 DEF ContactsKept, RowsAfter, Living, Deleted
  <2>7. OnlyForCause
    BY <2>1 DEF OnlyForCause, Answering
  <2>8. QED  BY <2>6, <2>7
<1>4. ASSUME NEW c \in Client,
             \/ \E p \in Phone : Register(c, p) \/ \E a \in Account : AttachContact(c, a, p)
             \/ \E t \in Telegram : TelegramLogin(c, t)
             \/ \E a \in Account : Login(c, a) \/ EndSessions(c, a) \/ DeleteAccount(c, a)
             \/ \E t \in DOMAIN tokens : Refresh(c, t) \/ Logout(c, t)
      PROVE  ContactsKept' /\ OnlyForCause
  BY <1>1, <1>2, <1>4, RequestsBegin, RowsUnwritten
<1>5. ASSUME NEW c \in Client,
             \/ Create(c) \/ Enter(c) \/ Attach(c) \/ RevokeSessions(c) \/ Delete(c) \/ Rotate(c)
             \/ EndReused(c) \/ Leave(c)
      PROVE  ContactsKept' /\ OnlyForCause
  BY <1>2, <1>5, RequestsCommit
<1>6. QED  BY <1>3, <1>4, <1>5 DEF AccountsNext

ContactsAreRight == area = "accounts" => ContactsKept

LEMMA ContactsInitially == Init => ContactsAreRight
<1> SUFFICES ASSUME Init PROVE ContactsKept
  BY DEF ContactsAreRight
<1>1. PICK p \in Phone, t \in Telegram :
        users = [a \in Account |-> CASE a = 1 -> [NewUser EXCEPT !.phone = p, !.login = "issued"]
                                     [] a = 2 -> [NewUser EXCEPT !.telegram = t]
                                     [] OTHER -> Nobody]
  BY DEF Init, AccountsInit
<1>2. PICK phoned, wrote : /\ phoned = [NewUser EXCEPT !.phone = p, !.login = "issued"]
                           /\ wrote = [NewUser EXCEPT !.telegram = t]
  OBVIOUS
<1>3. phoned.status = "active" /\ wrote.status = "active"
  BY <1>2 DEF NewUser, Nobody
<1>4. \A a \in Account : users[a] = IF a = 1 THEN phoned ELSE IF a = 2 THEN wrote ELSE Nobody
  BY <1>1, <1>2
<1>5. Nobody.phone = NoValue /\ Nobody.status = "none"
  BY DEF Nobody
<1>6. \A a \in Account : (users[a].phone # NoValue => Living(a)) /\ ~Deleted(a)
  BY <1>3, <1>4, <1>5 DEF Living, Deleted
<1>7. \A c \in Client : calls[c].op = "idle"
  BY DEF Init, RequestsInit, Idle
<1>8. QED  BY <1>6, <1>7 DEF ContactsKept

LEMMA ContactsStep ==
  ASSUME AccountsAreRight, ContactsAreRight, [Next]_vars
  PROVE  ContactsAreRight' /\ [OnlyForCause]_<<accounts, requests>>
<1>1. CASE UNCHANGED vars
  <2>1. calls' = calls /\ area' = area /\ users' = users /\ UNCHANGED <<accounts, requests>>
    BY <1>1 DEF vars, requests, accounts
  <2>2. QED  BY <2>1 DEF ContactsAreRight, ContactsKept, Living, Deleted
<1>2. CASE Next /\ area = "accounts"
  BY <1>2, StepOfArea, ContactsNext DEF AccountsAreRight, ContactsAreRight
<1>3. CASE Next /\ area # "accounts"
  <2>1. Elsewhere /\ area' = area
    BY <1>3, StepOfArea DEF AccountsAreRight
  <2>2. StaffNext \/ BranchesNext \/ ReviewsNext \/ MenuNext \/ InboxNext \/ PlacesNext \/ BotNext
    BY <1>3 DEF Next, Others
  <2>3. NothingSaid'
    BY <2>1, <2>2, OthersSayNothing DEF Elsewhere
  <2>4. OnlyForCause
    BY <2>3 DEF NothingSaid, AccountsSay, OnlyForCause, Answering, RefusedForItsCause
  <2>5. QED  BY <1>3, <2>1, <2>4 DEF ContactsAreRight
<1>4. QED  BY <1>1, <1>2, <1>3

\* Whoever is told that a number or a Telegram id is taken is told the truth at
\* that moment, so a number is free again once its account is deleted; and no
\* deletion fails for want of a means of contact.
THEOREM AccountsRefuseForCause == Spec => AccountsAnswerForCause
<1>1. AccountsAreRight /\ ContactsAreRight /\ [Next]_vars => ContactsAreRight'
  BY ContactsStep
<1>2. AccountsAreRight /\ ContactsAreRight /\ [Next]_vars
        => [\A c \in Client : Answering(c) => RefusedForItsCause(c)]_<<accounts, requests>>
  BY ContactsStep DEF OnlyForCause
<1>3. QED
  BY <1>1, <1>2, ContactsInitially, AccountsInvariant, PTL DEF Spec, AccountsAnswerForCause
-----------------------------------------------------------------------------
LEMMA AccountsTyped == Spec => []AccountsTypeOK
<1>1. AccountsAreRight => AccountsTypeOK
  <2>1. CASE area = "accounts"
    <3>1. ASSUME RowsTyped, NEW i \in DOMAIN tokens  PROVE tokens[i].user \in Account
      BY <3>1, RowsOfToken
    <3>2. ASSUME RowsTyped, NEW a \in Account
          PROVE  users[a].status \in {"none", "active", "blocked", "deleted"}
      BY <3>2 DEF RowsTyped, AccountRow
    <3>3. QED  BY <2>1, <3>1, <3>2 DEF AccountsAreRight, AccountsInv, TokensKept, AccountsTypeOK
  <2>2. ASSUME area # "accounts", AccountsAreRight  PROVE AccountsTypeOK
    <3>1. /\ \A a \in Account : users[a].status \in {"none", "active"}
          /\ DOMAIN tokens = {1, 2} /\ tokens[1] = Token(1, 0) /\ tokens[2] = Token(2, 0)
      BY <2>2 DEF AccountsAreRight, Elsewhere
    <3>2. \A i \in DOMAIN tokens : tokens[i].user \in Account /\ tokens[i].from \in 0..(i - 1)
      BY <3>1, AccountAssumption DEF Token
    <3>3. QED  BY <3>1, <3>2 DEF AccountsTypeOK
  <2>3. QED  BY <2>1, <2>2
<1>2. QED  BY <1>1, AccountsInvariant, PTL
=============================================================================
