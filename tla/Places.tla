------------------------------- MODULE Places -------------------------------
(***************************************************************************)
(* Regions, districts and the places somebody has picked lately            *)
(* (modules/geo): the list that is touched or extended and trimmed in one  *)
(* transaction, and the deletions that what is in use stands against.      *)
(* Names and coordinates are left out.                                     *)
(***************************************************************************)
EXTENDS Requests

CONSTANTS
    Region,
    District,
    Traveller,   \* those who pick places
    Home,        \* the district that a profile names (users.district_id)
    Nowhere,     \* no such district yet
    Gone,        \* no longer
    RECENT_CAP

ASSUME PlacesAssumption == RECENT_CAP \in Nat /\ {Nowhere, Gone} \cap Region = {}

VARIABLES
    regions,    \* regions[r]: whether the region of code r is there
    districts,  \* districts[d]: the region of district d
    recent      \* recent[u]: the rows of user_recent_locations of u

places == <<regions, districts, recent>>

PlacesInit ==
    /\ LET first == CHOOSE r \in Region : TRUE
           unborn == CHOOSE d \in District : d # Home IN
        /\ regions = [r \in Region |-> IF r = first THEN "there" ELSE Nowhere]
        /\ districts = [d \in District |-> IF d = unborn THEN Nowhere ELSE first]
    /\ recent = [u \in Traveller |-> {}]

There(d) == districts[d] \in Region
Live(r) == regions[r] = "there"
EmptyRegion(r) == \A d \in District : districts[d] # r
Picked(d) == \E u \in Traveller : \E p \in recent[u] : p.district = d

\* remember: the district, and the row of it on the list.
Remember(c, u, d) ==
    /\ There(d)
    /\ LET rows == {p \in recent[u] : p.district = d} IN
        IF Cardinality(rows) > 1 THEN AnswerAtOnce(c, Refused("failed", d))
        ELSE Begin(c, "remember", {<<"recent", u>>, <<"district", d>>},
                 [user |-> u, old |-> rows, drop |-> {},
                  new |-> [district |-> d, used |-> begun + 1,
                           id |-> IF rows = {} THEN begun + 1
                                  ELSE (CHOOSE p \in rows : TRUE).id]])
    /\ UNCHANGED places

\* The rows of others that a request has written and not committed.
Held == {<<calls[d].read.user, calls[d].read.new.id>> :
            d \in {e \in Client : calls[e].op = "trim"}}

\* The newest keep of rows.
NewestOf(rows, keep) == {p \in rows : Cardinality({q \in rows : q.used > p.used}) < keep}

\* What the trim deletes: of the rows it sees, which are the committed ones and
\* its own.
\* Mutant: the list is trimmed before the new row is written.
DropBefore(rows, new) == LET others == {p \in rows : p.id # new.id}
                         IN  {p.id : p \in others \ NewestOf(others, RECENT_CAP)}
Drop(rows, new) == LET seen == {p \in rows : p.id # new.id} \cup {new}
                   IN  {p.id : p \in seen \ NewestOf(seen, RECENT_CAP)}

\* The row is touched or inserted and the trim has its snapshot.
WriteAndTrim(c) ==
    /\ calls[c].op = "remember"
    /\ LET r == calls[c].read
           gone == r.old # {} /\ ~\E p \in recent[r.user] : p.id = r.new.id IN
        /\ <<r.user, r.new.id>> \notin Held
        /\ CASE gone -> Answer(c, Refused("failed", r.new.district))
             [] ~There(r.new.district) -> Answer(c, Refused("invalid", r.new.district))
             [] OTHER -> Proceed(c, "trim", [r EXCEPT !.drop = Drop(recent[r.user], r.new)])
    /\ UNCHANGED places

\* The DELETE waits for the rows that another request has touched.
CommitPlace(c) ==
    /\ calls[c].op = "trim"
    /\ LET r == calls[c].read IN
        /\ \A d \in Client \ {c} :
            calls[d].op = "trim" /\ calls[d].read.user = r.user =>
                calls[d].read.new.id \notin r.drop
        /\ recent' = [recent EXCEPT ![r.user] =
               {p \in @ : p.id # r.new.id /\ p.id \notin r.drop} \cup
               {p \in {r.new} : p.id \notin r.drop}]
    /\ Answer(c, Served)
    /\ UNCHANGED <<regions, districts>>

\* The admin routes: look, then write behind the unique code and foreign keys.
\* A code that is gone is not used again.
CreateRegion(c, r) ==
    /\ regions[r] # Gone
    /\ IF Live(r) THEN AnswerAtOnce(c, Refused("code_taken", r))
       ELSE Begin(c, "region", {<<"region", r>>}, r)
    /\ UNCHANGED places

InsertRegion(c) ==
    /\ calls[c].op = "region"
    /\ LET r == calls[c].read IN
        IF regions[r] # Nowhere THEN Answer(c, Refused("invalid", r)) /\ UNCHANGED regions
        ELSE Answer(c, Served) /\ regions' = [regions EXCEPT ![r] = "there"]
    /\ UNCHANGED <<districts, recent>>

\* create, of the next id of the sequence, and update.
PutDistrict(c, d, r) ==
    /\ Live(r)
    /\ \/ There(d)
       \/ districts[d] = Nowhere /\ \A e \in Client : <<"district", d>> \notin calls[e].keys
    /\ Begin(c, "put", {<<"district", d>>, <<"region", r>>}, [district |-> d, region |-> r])
    /\ UNCHANGED places

WriteDistrict(c) ==
    /\ calls[c].op = "put"
    /\ LET d == calls[c].read.district
           r == calls[c].read.region IN
        CASE districts[d] = Gone -> Answer(c, Refused("not_found", d)) /\ UNCHANGED districts
          [] districts[d] # Gone /\ ~Live(r) -> Answer(c, Refused("invalid", d)) /\ UNCHANGED districts
          [] OTHER -> Answer(c, Served) /\ districts' = [districts EXCEPT ![d] = r]
    /\ UNCHANGED <<regions, recent>>

DeleteRegion(c, r) ==
    /\ Live(r)
    /\ IF ~EmptyRegion(r) THEN AnswerAtOnce(c, Refused("in_use", r))
       ELSE Begin(c, "drop_region", {<<"region", r>>}, r)
    /\ UNCHANGED places

DropRegion(c) ==
    /\ calls[c].op = "drop_region"
    /\ LET r == calls[c].read IN
        IF EmptyRegion(r) THEN Answer(c, Served) /\ regions' = [regions EXCEPT ![r] = Gone]
        ELSE Answer(c, Refused("invalid", r)) /\ UNCHANGED regions
    /\ UNCHANGED <<districts, recent>>

\* count_references looks at venues and recent places, not at profiles.
DeleteDistrict(c, d) ==
    /\ There(d)
    /\ IF Picked(d) THEN AnswerAtOnce(c, Refused("in_use", d))
       ELSE Begin(c, "drop_district", {<<"district", d>>}, d)
    /\ UNCHANGED places

\* The foreign keys, of rows that are not committed too: the DELETE waits.
DropDistrict(c) ==
    /\ calls[c].op = "drop_district"
    /\ LET d == calls[c].read IN
        /\ \A e \in Client : calls[e].op = "trim" => calls[e].read.new.district # d
        /\ IF Picked(d) \/ d = Home THEN Answer(c, Refused("invalid", d)) /\ UNCHANGED districts
           ELSE Answer(c, Served) /\ districts' = [districts EXCEPT ![d] = Gone]
    /\ UNCHANGED <<regions, recent>>

PlacesNext ==
    \E c \in Client :
        \/ \E d \in District :
            \/ \E u \in Traveller : Remember(c, u, d)
            \/ \E r \in Region : PutDistrict(c, d, r)
            \/ DeleteDistrict(c, d)
        \/ \E r \in Region : CreateRegion(c, r) \/ DeleteRegion(c, r)
        \/ WriteAndTrim(c) \/ CommitPlace(c) \/ InsertRegion(c) \/ WriteDistrict(c)
        \/ DropRegion(c) \/ DropDistrict(c)
-----------------------------------------------------------------------------
PlacesTypeOK ==
    /\ \A r \in Region : regions[r] \in {"there", Nowhere, Gone}
    /\ \A d \in District : There(d) => Live(districts[d])
    /\ \A u \in Traveller : \A p \in recent[u] : There(p.district)

\* "Trimming inside the same transaction is what keeps [the list] at ten rows":
\* longer, or with a district twice, it is only after two requests of the same
\* person overlapped.
RecentPlacesCapped ==
    \A u \in Traveller :
        <<"recent", u>> \notin raced =>
            /\ Cardinality(recent[u]) <= RECENT_CAP
            /\ \A p, q \in recent[u] : p.district = q.district => p = q
=============================================================================
