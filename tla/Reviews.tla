------------------------------ MODULE Reviews ------------------------------
(***************************************************************************)
(* Reviews (modules/reviews): one for each completed visit, published by   *)
(* moderation, counted in the rating of the branch, and kept without its   *)
(* words when its author deletes the account.                              *)
(***************************************************************************)
EXTENDS Requests

CONSTANTS
    Visits,  \* Visits[b]: the guest and the branch of booking b, and if it is completed
    Marks    \* the ratings that are given

ASSUME ReviewsAssumption ==
    /\ Marks \subseteq Nat /\ Marks # {}
    /\ \E a, z \in DOMAIN Visits : a # z /\ Visits[a].completed /\ Visits[z].completed

VARIABLES
    reviews,  \* the rows of reviews
    scores,   \* scores[v]: the denormalized sum and count of branch v
    departed  \* the guests who have deleted their account

opinions == <<reviews, scores, departed>>

GuestsOfVisits == {Visits[b].guest : b \in DOMAIN Visits}
Reviewed == {Visits[b].branch : b \in DOMAIN Visits}

Pending(b, mark) == [visit |-> b, mark |-> mark, published |-> FALSE, words |-> TRUE]

\* Two visits have been reviewed, and nobody has moderated them yet.
ReviewsInit ==
    /\ LET m == CHOOSE m \in Marks : TRUE
           a == CHOOSE b \in DOMAIN Visits : Visits[b].completed
           z == CHOOSE b \in DOMAIN Visits \ {a} : Visits[b].completed IN
        reviews = <<Pending(a, m), Pending(z, m)>>
    /\ scores = [v \in Reviewed |-> [sum |-> 0, count |-> 0]]
    /\ departed = {}

BranchOf(r) == Visits[reviews[r].visit].branch
AuthorOf(r) == Visits[reviews[r].visit].guest
ReviewsOf(b) == {r \in DOMAIN reviews : reviews[r].visit = b}
Published(v) == {r \in DOMAIN reviews : BranchOf(r) = v /\ reviews[r].published}

\* The stars that the reviews rs give, of which AVG takes the number and COUNT
\* the number of the reviews; the average of none is 0.
Stars(rs) == UNION {{r} \X (1..reviews[r].mark) : r \in rs}
Score(rs) == [sum |-> Cardinality(Stars(rs)), count |-> Cardinality(rs)]

\* create: the visit is the caller's, completed and not yet reviewed.
Review(c, u, b, mark) ==
    /\ u \notin departed
    /\ CASE Visits[b].guest # u -> AnswerAtOnce(c, Refused("denied", b))
         [] Visits[b].guest = u /\ ~Visits[b].completed -> AnswerAtOnce(c, Refused("unfinished", b))
         [] OTHER -> IF ReviewsOf(b) # {} THEN AnswerAtOnce(c, Refused("reviewed", b))
                     ELSE Begin(c, "review", {<<"guest", u>>}, Pending(b, mark))
    /\ UNCHANGED opinions

\* UNIQUE (booking_id)
InsertReview(c) ==
    /\ calls[c].op = "review"
    /\ LET new == calls[c].read IN
        IF ReviewsOf(new.visit) # {}
        THEN Answer(c, Refused("reviewed", new.visit)) /\ UNCHANGED reviews
        ELSE Answer(c, Served) /\ reviews' = Append(reviews, new)
    /\ UNCHANGED <<scores, departed>>

\* The reviews an average counts that is taken while r is being published.
\* Mutant: the average is taken before r has its new status.
CountedBefore(r) == Published(BranchOf(r))
Counted(r) == Published(BranchOf(r)) \cup {r}

\* publish: the row of the review, which a second publication of it waits for;
\* then the average of what is committed by now and r.
Publish(c, r) ==
    /\ \A d \in Client : calls[d].op = "publish" => calls[d].read.review # r
    /\ Begin(c, "publish", {<<"score", BranchOf(r)>>}, [review |-> r, score |-> Score(Counted(r))])
    /\ UNCHANGED opinions

\* The row of the branch, for which the UPDATE may have waited.
WriteScore(c) ==
    /\ calls[c].op = "publish"
    /\ LET r == calls[c].read.review IN
        /\ reviews' = [reviews EXCEPT ![r].published = TRUE]
        /\ scores' = [scores EXCEPT ![BranchOf(r)] = calls[c].read.score]
    /\ Answer(c, Served)
    /\ UNCHANGED departed

\* delete_account: the words of the reviews that the UPDATE sees.
Depart(c, u) ==
    /\ u \notin departed
    /\ Begin(c, "depart", {<<"guest", u>>},
             [guest |-> u, mine |-> {r \in DOMAIN reviews : AuthorOf(r) = u}])
    /\ UNCHANGED opinions

Anonymise(c) ==
    /\ calls[c].op = "depart"
    /\ reviews' = [r \in DOMAIN reviews |-> IF r \in calls[c].read.mine
                                            THEN [reviews[r] EXCEPT !.words = FALSE] ELSE reviews[r]]
    /\ departed' = departed \cup {calls[c].read.guest}
    /\ Answer(c, Served)
    /\ UNCHANGED scores

ReviewsNext ==
    \E c \in Client :
        \/ \E u \in GuestsOfVisits, b \in DOMAIN Visits, m \in Marks : Review(c, u, b, m)
        \/ \E r \in DOMAIN reviews : Publish(c, r)
        \/ \E u \in GuestsOfVisits : Depart(c, u)
        \/ InsertReview(c) \/ WriteScore(c) \/ Anonymise(c)
-----------------------------------------------------------------------------
ReviewsTypeOK ==
    /\ \A r \in DOMAIN reviews : reviews[r].visit \in DOMAIN Visits /\ reviews[r].mark \in Marks
    /\ \A v \in Reviewed : scores[v].sum \in Nat /\ scores[v].count \in 0..Len(reviews)
    /\ departed \subseteq GuestsOfVisits

\* A rating is that of the published reviews, those of deleted accounts too
\* ("removing it would rewrite history"), whose words nobody can read any more:
\* unless two publications at that branch overlapped, of which the later UPDATE
\* wrote an average without the other's review, or the words came while the
\* account was being deleted.
RatingIsOfItsReviews ==
    /\ \A v \in Reviewed : <<"score", v>> \notin raced => scores[v] = Score(Published(v))
    /\ \A r \in DOMAIN reviews :
        AuthorOf(r) \in departed /\ <<"guest", AuthorOf(r)>> \notin raced => ~reviews[r].words
    /\ \A b \in DOMAIN Visits : Cardinality(ReviewsOf(b)) <= 1
=============================================================================
