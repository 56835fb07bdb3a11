-------------------------------- MODULE Staff --------------------------------
(***************************************************************************)
(* Staff and invitations (modules/staff): who works where, the permission  *)
(* that every partner route asks for, and the redemption of an invitation  *)
(* into a person with credentials and an employment.                       *)
(***************************************************************************)
EXTENDS Requests

CONSTANTS
    Person,      \* the phone numbers of staff
    Guests,      \* those among them who have an account already
    Founder,     \* the one who is chain staff from the beginning
    Venue,       \* the branches
    Chain,       \* Chain[v]: the chain of branch v
    Managers,    \* the roles with the permission staff.manage
    ScopeOf,     \* ScopeOf[r]: "group" or "venue"
    NoVenue,     \* venue_id IS NULL
    MaxInvitations

\* Somebody has been made chain staff: there is a chain, and a role for that.
ASSUME StaffAssumption ==
    /\ Founder \in Person /\ Venue # {}
    /\ \E r \in Managers : r \in DOMAIN ScopeOf /\ ScopeOf[r] = "group"
    /\ Managers \subseteq DOMAIN ScopeOf

VARIABLES
    people,       \* people[p]: no account, a guest's, or one with issued credentials
    jobs,         \* the rows of venue_staff
    invitations   \* the rows of staff_invitations

staff == <<people, jobs, invitations>>

Groups == {Chain[v] : v \in Venue}
Roles == DOMAIN ScopeOf

Job(p, g, v, r, i) ==
    [person |-> p, group |-> g, venue |-> v, role |-> r, active |-> TRUE, from |-> i]

StaffInit ==
    /\ people = [p \in Person |-> IF p = Founder THEN "issued"
                                 ELSE IF p \in Guests THEN "guest" ELSE "none"]
    /\ LET r == CHOOSE r \in Managers : ScopeOf[r] = "group"
           g == CHOOSE g \in Groups : TRUE IN
        jobs = <<Job(Founder, g, NoVenue, r, 0)>>
    /\ invitations = <<>>

\* A chain-wide row answers at every branch: the join compares no groups.
HasPermission(p, v) ==
    \E i \in DOMAIN jobs :
        /\ jobs[i].person = p /\ jobs[i].active /\ jobs[i].role \in Managers
        /\ jobs[i].venue \in {v, NoVenue}

\* The branch the service asks the permission of: the first of the chain that
\* employs anybody, if the invitation names none.
GuardVenues(g, v) ==
    LET rows == {i \in DOMAIN jobs : jobs[i].group = g /\ jobs[i].venue # NoVenue}
    IN  IF v # NoVenue THEN {v}
        ELSE {jobs[i].venue : i \in {j \in rows : \A k \in rows : j <= k}}

\* The route asks at the branch of its query, then the service once more.
Invite(c, actor, at, g, v, r, p) ==
    /\ Len(invitations) < MaxInvitations
    /\ HasPermission(actor, at)
    /\ \A w \in GuardVenues(g, v) : HasPermission(actor, w)
    /\ ScopeOf[r] = "venue" => v # NoVenue
    /\ AnswerAtOnce(c, Served)
    /\ invitations' = Append(invitations,
           [group |-> g, venue |-> v, phone |-> p, role |-> r, state |-> "open"])
    /\ UNCHANGED <<people, jobs>>

Open(p) == {i \in DOMAIN invitations : invitations[i].phone = p /\ invitations[i].state = "open"}

\* accept_invitation: the newest open invitation, and the person if known.
Accept(c, p) ==
    /\ \E i \in Open(p) :
        /\ \A j \in Open(p) : j <= i
        /\ Begin(c, "accept", {<<"invitation", i>>, <<"person", p>>},
                 [invitation |-> i, known |-> people[p] # "none"])
    /\ UNCHANGED staff

\* Which INSERT or UPDATE PostgreSQL refuses: the unique phone, or the unique
\* (venue_id, user_id), which no chain-wide row can violate.
Duplicate(read) ==
    LET i == invitations[read.invitation] IN
        \/ ~read.known /\ people[i.phone] # "none"
        \/ /\ i.venue # NoVenue
           /\ \E j \in DOMAIN jobs : jobs[j].person = i.phone /\ jobs[j].venue = i.venue

\* Mutant: the invitation is left open.
RedeemLeavesOpen(c) ==
    /\ calls[c].op = "accept"
    /\ LET n == calls[c].read.invitation
           i == invitations[n] IN
        IF Duplicate(calls[c].read)
        THEN Answer(c, Refused("duplicate", i.phone)) /\ UNCHANGED staff
        ELSE /\ people' = [people EXCEPT ![i.phone] = "issued"]
             /\ jobs' = Append(jobs, Job(i.phone, i.group, i.venue, i.role, n))
             /\ Answer(c, Served)
             /\ UNCHANGED invitations

\* Person, credentials, employment and acceptance are one transaction; that the
\* acceptance may match no open invitation any more is not looked at.
Redeem(c) ==
    /\ calls[c].op = "accept"
    /\ LET n == calls[c].read.invitation
           i == invitations[n] IN
        IF Duplicate(calls[c].read)
        THEN Answer(c, Refused("duplicate", i.phone)) /\ UNCHANGED staff
        ELSE /\ people' = [people EXCEPT ![i.phone] = "issued"]
             /\ jobs' = Append(jobs, Job(i.phone, i.group, i.venue, i.role, n))
             /\ invitations' = [invitations EXCEPT ![n].state =
                                   IF @ = "open" THEN "accepted" ELSE @]
             /\ Answer(c, Served)

\* expires_at passes.  Nothing in the application revokes an invitation.
Expire(i) ==
    /\ invitations[i].state = "open"
    /\ invitations' = [invitations EXCEPT ![i].state = "expired"]
    /\ UNCHANGED <<people, jobs, requests>>

\* The permission is asked at the branch of the query, whoever is named; one
\* may name oneself.
SetActive(c, actor, at, i, on) ==
    /\ HasPermission(actor, at)
    /\ AnswerAtOnce(c, Served)
    /\ jobs' = [jobs EXCEPT ![i].active = on]
    /\ UNCHANGED <<people, invitations>>

StaffNext ==
    \/ \E c \in Client :
        \/ \E actor \in Person, at \in Venue :
            \/ \E g \in Groups, v \in Venue \cup {NoVenue}, r \in Roles, p \in Person :
                Invite(c, actor, at, g, v, r, p)
            \/ \E i \in DOMAIN jobs, on \in BOOLEAN : SetActive(c, actor, at, i, on)
        \/ \E p \in Person : Accept(c, p)
        \/ Redeem(c)
    \/ \E i \in DOMAIN invitations : Expire(i)
-----------------------------------------------------------------------------
StaffTypeOK ==
    /\ \A p \in Person : people[p] \in {"none", "guest", "issued"}
    /\ \A i \in DOMAIN jobs : jobs[i].group \in Groups /\ jobs[i].from \in 0..Len(invitations)
    /\ \A i \in DOMAIN invitations : invitations[i].state \in {"open", "accepted", "expired"}

\* "Guarded so a forwarded SMS cannot be redeemed twice"
\* (staff_invitation_repository.py): an invitation makes two employments only
\* by two redemptions that overlapped, and only for the whole chain.
RedeemedOnce ==
    \A i, j \in DOMAIN jobs :
        i # j /\ jobs[i].from = jobs[j].from /\ jobs[i].from # 0 =>
            /\ <<"invitation", jobs[i].from>> \in raced
            /\ jobs[i].venue = NoVenue
=============================================================================
