--------------------------- MODULE PartnersProofs ---------------------------
(* Machine-checked theorems about what partners work with: the staff and its *)
(* invitations, the chains and their branches with wizard, tables, week and  *)
(* badge, and the menu.  For any number of people, chains, branches, dishes  *)
(* and requests.                                                             *)
EXTENDS PlatformProofs, SequenceTheorems

JobRow == [person : Person, group : Groups, venue : Venue \cup {NoVenue}, role : Roles,
           active : BOOLEAN, from : Nat]
InvitationRow == [group : Groups, venue : Venue \cup {NoVenue}, phone : Person, role : Roles,
                  state : {"open", "accepted", "expired"}]

Redeemed(n) == \E j \in DOMAIN jobs : jobs[j].from = n

\* An employment keeps to the invitation that it comes from, which is open no more.
JobOfInvitation(j) ==
    LET n == jobs[j].from IN
        n # 0 => /\ n \in DOMAIN invitations
                 /\ invitations[n].state # "open"
                 /\ jobs[j].person = invitations[n].phone
                 /\ jobs[j].venue = invitations[n].venue

AboutInvitation(c) ==
    LET n == calls[c].read.invitation IN
        calls[c].op = "accept" =>
            /\ n \in DOMAIN invitations /\ <<"invitation", n>> \in calls[c].keys
            /\ Redeemed(n) => <<"invitation", n>> \in raced

StaffInv ==
    /\ RequestsInv
    /\ jobs \in Seq(JobRow) /\ invitations \in Seq(InvitationRow)
    /\ \A j \in DOMAIN jobs : JobOfInvitation(j)
    /\ \A c \in Client : AboutInvitation(c)
    /\ RedeemedOnce

\* What the traffic of the other areas leaves: nobody came by an invitation.
NobodyInvited == \A j \in DOMAIN jobs : jobs[j].from = 0

StaffIsRight == IF area = "staff" THEN StaffInv ELSE NobodyInvited

LEMMA StaffInitially == Init => StaffInv /\ NobodyInvited
<1> SUFFICES ASSUME Init PROVE StaffInv /\ NobodyInvited
  OBVIOUS
<1> DEFINE r == CHOOSE r \in Managers : ScopeOf[r] = "group"
           g == CHOOSE g \in Groups : TRUE
           first == Job(Founder, g, NoVenue, r, 0)
<1>1. r \in Roles
  BY StaffAssumption DEF Roles
<1>2. g \in Groups
  <2>1. \E v \in Venue : Chain[v] \in Groups
    BY StaffAssumption DEF Groups
  <2>2. QED  BY <2>1
<1>3. jobs = <<first>> /\ invitations = <<>>
  BY DEF Init, StaffInit
<1> HIDE DEF r, g
<1>4. first \in JobRow /\ first.from = 0
  BY <1>1, <1>2, StaffAssumption DEF Job, JobRow
<1> HIDE DEF first
<1>5. /\ jobs \in Seq(JobRow) /\ invitations \in Seq(InvitationRow)
      /\ \A j \in DOMAIN jobs : jobs[j].from = 0
  BY <1>3, <1>4
<1>6. RequestsInv /\ \A c \in Client : calls[c].op = "idle"
  BY RequestsInitially DEF Init, RequestsInit, Idle
<1>7. QED  BY <1>5, <1>6 DEF StaffInv, JobOfInvitation, AboutInvitation, RedeemedOnce, NobodyInvited

LEMMA Answered ==
  ASSUME RequestsInv, NEW c \in Client, NEW STATE answer,
         Answer(c, answer) \/ AnswerAtOnce(c, answer)
  PROVE  /\ RequestsInv' /\ raced' = raced /\ calls'[c].op = "idle"
         /\ \A d \in Client \ {c} : calls'[d] = calls[d]
<1>1. /\ RequestsInv' /\ raced' = raced
      /\ calls'[c] = [op |-> "idle", keys |-> {}, answer |-> answer]
      /\ \A d \in Client \ {c} : calls'[d] = calls[d]
  BY AnswerRequest
<1>2. QED  BY <1>1

\* Inviting, a change of an employment, and an expiry.
LEMMA InvitingKeeps ==
  ASSUME StaffInv, NEW c \in Client, NEW actor, NEW at, NEW g \in Groups,
         NEW v \in Venue \cup {NoVenue}, NEW r \in Roles, NEW p \in Person,
         Invite(c, actor, at, g, v, r, p)
  PROVE  StaffInv'
<1> DEFINE new == [group |-> g, venue |-> v, phone |-> p, role |-> r, state |-> "open"]
<1>1. /\ RequestsInv' /\ raced' = raced /\ calls'[c].op = "idle"
      /\ \A d \in Client \ {c} : calls'[d] = calls[d]
      /\ jobs' = jobs
  <2>1. RequestsInv /\ AnswerAtOnce(c, Served) /\ jobs' = jobs
    BY DEF StaffInv, Invite
  <2>2. QED  BY <2>1, Answered
<1>2. new \in InvitationRow
  BY DEF InvitationRow
<1>3. /\ invitations' \in Seq(InvitationRow)
      /\ \A n \in DOMAIN invitations : n \in DOMAIN invitations' /\ invitations'[n] = invitations[n]
  <2>1. invitations' = Append(invitations, new)
    BY DEF Invite
  <2> HIDE DEF new
  <2>2. QED  BY <2>1, <1>2 DEF StaffInv
<1>4. \A j \in DOMAIN jobs' : JobOfInvitation(j)'
  BY <1>1, <1>3 DEF StaffInv, JobOfInvitation
<1>5. \A d \in Client : AboutInvitation(d)'
  BY <1>1, <1>3 DEF StaffInv, AboutInvitation, Redeemed
<1>6. QED  BY <1>1, <1>3, <1>4, <1>5 DEF StaffInv, RedeemedOnce

LEMMA SettingActiveKeeps ==
  ASSUME StaffInv, NEW c \in Client, NEW actor, NEW at, NEW i \in DOMAIN jobs, NEW on \in BOOLEAN,
         SetActive(c, actor, at, i, on)
  PROVE  StaffInv'
<1>1. /\ RequestsInv' /\ raced' = raced /\ calls'[c].op = "idle"
      /\ \A d \in Client \ {c} : calls'[d] = calls[d]
      /\ jobs' = [jobs EXCEPT ![i].active = on] /\ invitations' = invitations
  <2>1. RequestsInv /\ AnswerAtOnce(c, Served)
    BY DEF StaffInv, SetActive
  <2>2. QED  BY <2>1, Answered DEF SetActive
<1>2. jobs[i] \in JobRow
  BY DEF StaffInv
<1>3. [jobs[i] EXCEPT !.active = on] \in JobRow
  BY <1>2 DEF JobRow
<1>4. /\ jobs' \in Seq(JobRow) /\ DOMAIN jobs' = DOMAIN jobs
      /\ \A j \in DOMAIN jobs : /\ jobs'[j].from = jobs[j].from
                                /\ jobs'[j].person = jobs[j].person
                                /\ jobs'[j].venue = jobs[j].venue
  BY <1>1, <1>2, <1>3 DEF StaffInv, JobRow
<1>5. \A j \in DOMAIN jobs' : JobOfInvitation(j)'
  BY <1>1, <1>4 DEF StaffInv, JobOfInvitation
<1>6. ASSUME NEW d \in Client  PROVE AboutInvitation(d)'
  <2>1. CASE d = c
    BY <2>1, <1>1 DEF AboutInvitation
  <2>2. CASE d # c
    <3>1. AboutInvitation(d) /\ calls'[d] = calls[d] /\ raced' = raced
      BY <2>2, <1>1 DEF StaffInv
    <3>2. \A n : Redeemed(n)' <=> Redeemed(n)
      BY <1>4 DEF Redeemed
    <3>3. QED  BY <3>1, <3>2, <1>1 DEF AboutInvitation, Redeemed
  <2>3. QED  BY <2>1, <2>2
<1>7. RedeemedOnce'
  BY <1>1, <1>4 DEF StaffInv, RedeemedOnce
<1>8. QED  BY <1>1, <1>4, <1>5, <1>6, <1>7 DEF StaffInv

LEMMA ExpiryKeeps ==
  ASSUME StaffInv, NEW n \in DOMAIN invitations, Expire(n)
  PROVE  StaffInv'
<1>1. /\ calls' = calls /\ raced' = raced /\ jobs' = jobs
      /\ invitations' = [invitations EXCEPT ![n].state = "expired"]
  BY DEF Expire, requests
<1>2. invitations[n] \in InvitationRow
  BY DEF StaffInv
<1>3. [invitations[n] EXCEPT !.state = "expired"] \in InvitationRow
  BY <1>2 DEF InvitationRow
<1>4. /\ invitations' \in Seq(InvitationRow) /\ DOMAIN invitations' = DOMAIN invitations
      /\ \A m \in DOMAIN invitations :
            /\ invitations'[m].phone = invitations[m].phone
            /\ invitations'[m].venue = invitations[m].venue
            /\ invitations[m].state # "open" => invitations'[m].state # "open"
  BY <1>1, <1>2, <1>3 DEF StaffInv, InvitationRow
<1>5. RequestsInv'
  BY <1>1 DEF StaffInv, RequestsInv
<1>6. \A j \in DOMAIN jobs' : JobOfInvitation(j)'
  BY <1>1, <1>4 DEF StaffInv, JobOfInvitation
<1>7. \A d \in Client : AboutInvitation(d)'
  BY <1>1, <1>4 DEF StaffInv, AboutInvitation, Redeemed
<1>8. QED  BY <1>1, <1>4, <1>5, <1>6, <1>7 DEF StaffInv, RedeemedOnce

\* The acceptance begins while the invitation is open, so nobody has come by it.
LEMMA AcceptanceKeeps ==
  ASSUME StaffInv, NEW c \in Client, NEW p \in Person, Accept(c, p)
  PROVE  StaffInv'
<1>1. PICK n \in Open(p) :
        Begin(c, "accept", {<<"invitation", n>>, <<"person", p>>},
              [invitation |-> n, known |-> people[p] # "none"])
  BY DEF Accept
<1>2. n \in DOMAIN invitations /\ invitations[n].state = "open"
  BY DEF Open
<1>3. ~Redeemed(n)
  <2>1. SUFFICES ASSUME NEW j \in DOMAIN jobs, jobs[j].from = n  PROVE FALSE
    BY DEF Redeemed
  <2>2. n # 0
    BY <1>2 DEF StaffInv
  <2>3. QED  BY <1>2, <2>1, <2>2 DEF StaffInv, JobOfInvitation
<1>4. /\ RequestsInv' /\ raced \subseteq raced'
      /\ calls'[c] = [op |-> "accept", keys |-> {<<"invitation", n>>, <<"person", p>>},
                      read |-> [invitation |-> n, known |-> people[p] # "none"]]
      /\ \A d \in Client \ {c} : calls'[d] = calls[d]
      /\ jobs' = jobs /\ invitations' = invitations
  <2>1. RequestsInv /\ UNCHANGED staff
    BY DEF StaffInv, Accept
  <2> DEFINE keys == {<<"invitation", n>>, <<"person", p>>}
             read == [invitation |-> n, known |-> people[p] # "none"]
  <2>2. Begin(c, "accept", keys, read)
    BY <1>1
  <2> HIDE DEF keys, read
  <2>3. /\ RequestsInv' /\ raced \subseteq raced'
        /\ calls'[c] = [op |-> "accept", keys |-> keys, read |-> read]
        /\ \A d \in Client \ {c} : calls'[d] = calls[d]
    BY <2>1, <2>2, BeginRequest
  <2>4. QED  BY <2>1, <2>3 DEF staff, keys, read
<1>5. AboutInvitation(c)'
  BY <1>2, <1>3, <1>4 DEF AboutInvitation, Redeemed
<1>6. \A d \in Client \ {c} : AboutInvitation(d)'
  BY <1>4 DEF StaffInv, AboutInvitation, Redeemed
<1>7. QED  BY <1>4, <1>5, <1>6 DEF StaffInv, JobOfInvitation, RedeemedOnce

\* The redemption: a second one was under way with the first, and nothing of it
\* is left but the unique pair, which says nothing of the whole chain.
LEMMA RedemptionKeeps ==
  ASSUME StaffInv, NEW c \in Client, Redeem(c)
  PROVE  StaffInv'
<1> DEFINE n == calls[c].read.invitation
           i == invitations[n]
           new == Job(i.phone, i.group, i.venue, i.role, n)
           m == Len(jobs) + 1
<1>1. /\ calls[c].op = "accept" /\ n \in DOMAIN invitations
      /\ <<"invitation", n>> \in calls[c].keys
      /\ Redeemed(n) => <<"invitation", n>> \in raced
  BY DEF Redeem, StaffInv, AboutInvitation
<1>2. /\ RequestsInv' /\ raced' = raced /\ calls'[c].op = "idle"
      /\ \A d \in Client \ {c} : calls'[d] = calls[d]
  <2>1. RequestsInv /\ (Answer(c, Served) \/ Answer(c, Refused("duplicate", i.phone)))
    BY DEF StaffInv, Redeem
  <2>2. QED  BY <2>1, Answered
<1>3. CASE UNCHANGED staff
  <2>1. jobs' = jobs /\ invitations' = invitations
    BY <1>3 DEF staff
  <2>2. \A d \in Client : AboutInvitation(d)'
    BY <1>2, <2>1 DEF StaffInv, AboutInvitation, Redeemed
  <2>3. QED  BY <1>2, <2>1, <2>2 DEF StaffInv, JobOfInvitation, RedeemedOnce
<1>4. CASE /\ ~Duplicate(calls[c].read)
           /\ jobs' = Append(jobs, new)
           /\ invitations' = [invitations EXCEPT ![n].state = IF @ = "open" THEN "accepted" ELSE @]
  <2>1. i \in InvitationRow /\ n \in Nat \ {0} /\ Len(jobs) \in Nat
    BY <1>1 DEF StaffInv
  <2>2. new \in JobRow /\ new.from = n /\ new.person = i.phone /\ new.venue = i.venue
    BY <2>1 DEF Job, JobRow, InvitationRow
  <2>3. /\ invitations' \in Seq(InvitationRow) /\ DOMAIN invitations' = DOMAIN invitations
        /\ \A k \in DOMAIN invitations :
              /\ invitations'[k].phone = invitations[k].phone
              /\ invitations'[k].venue = invitations[k].venue
              /\ invitations[k].state # "open" => invitations'[k].state # "open"
        /\ invitations'[n].state # "open"
    <3> DEFINE row == [i EXCEPT !.state = IF @ = "open" THEN "accepted" ELSE @]
    <3>1. /\ row \in InvitationRow /\ row.phone = i.phone /\ row.venue = i.venue
          /\ row.state # "open"
      BY <2>1 DEF InvitationRow
    <3>2. invitations' = [invitations EXCEPT ![n] = row]
      BY <1>4
    <3> HIDE DEF row
    <3>3. QED  BY <3>1, <3>2, <1>1 DEF StaffInv
  <2> HIDE DEF new
  <2>4. /\ jobs' \in Seq(JobRow) /\ DOMAIN jobs' = 1..m /\ jobs'[m] = new
        /\ DOMAIN jobs = 1..Len(jobs)
        /\ \A j \in DOMAIN jobs : jobs'[j] = jobs[j]
    BY <1>4, <2>1, <2>2 DEF StaffInv
  <2>5. ASSUME NEW j \in DOMAIN jobs'  PROVE JobOfInvitation(j)'
    <3>1. CASE j = m
      BY <3>1, <1>1, <2>2, <2>3, <2>4 DEF JobOfInvitation
    <3>2. CASE j \in DOMAIN jobs
      <4>1. JobOfInvitation(j) /\ jobs'[j] = jobs[j]
        BY <3>2, <2>4 DEF StaffInv
      <4>2. QED  BY <4>1, <2>3 DEF JobOfInvitation
    <3>3. QED  BY <3>1, <3>2, <2>1, <2>4
  <2>6. ASSUME NEW d \in Client  PROVE AboutInvitation(d)'
    <3>1. CASE d = c
      BY <3>1, <1>2 DEF AboutInvitation
    <3>2. CASE d # c /\ calls[d].op = "accept"
      <4> DEFINE k == calls[d].read.invitation
      <4>1. /\ k \in DOMAIN invitations /\ <<"invitation", k>> \in calls[d].keys
            /\ Redeemed(k) => <<"invitation", k>> \in raced
        BY <3>2 DEF StaffInv, AboutInvitation
      <4>2. k = n => <<"invitation", k>> \in raced
        BY <3>2, <4>1, <1>1 DEF StaffInv, RequestsInv
      <4>3. ASSUME k # n, NEW j \in DOMAIN jobs', jobs'[j].from = k  PROVE Redeemed(k)
        BY <4>3, <2>1, <2>2, <2>4 DEF Redeemed
      <4>4. QED  BY <3>2, <4>1, <4>2, <4>3, <1>2, <2>3 DEF AboutInvitation, Redeemed
    <3>3. CASE d # c /\ calls[d].op # "accept"
      BY <3>3, <1>2 DEF AboutInvitation
    <3>4. QED  BY <3>1, <3>2, <3>3
  <2>7. ASSUME NEW j \in DOMAIN jobs, jobs[j].from = n
        PROVE  <<"invitation", n>> \in raced /\ i.venue = NoVenue /\ jobs[j].venue = NoVenue
    <3>1. jobs[j].person = i.phone /\ jobs[j].venue = i.venue
      BY <2>1, <2>7 DEF StaffInv, JobOfInvitation
    <3>2. i.venue = NoVenue
      BY <3>1, <1>4 DEF Duplicate
    <3>3. QED  BY <3>1, <3>2, <2>7, <1>1 DEF Redeemed
  <2>8. RedeemedOnce'
    <3>1. SUFFICES ASSUME NEW j \in DOMAIN jobs', NEW k \in DOMAIN jobs', j # k,
                          jobs'[j].from = jobs'[k].from, jobs'[j].from # 0
                   PROVE  <<"invitation", jobs'[j].from>> \in raced /\ jobs'[j].venue = NoVenue
      BY <1>2 DEF RedeemedOnce
    <3>2. CASE j = m
      <4>1. k \in DOMAIN jobs /\ jobs[k].from = n
        BY <3>1, <3>2, <2>1, <2>2, <2>4
      <4>2. QED  BY <3>2, <4>1, <2>2, <2>4, <2>7
    <3>3. CASE k = m
      <4>1. j \in DOMAIN jobs /\ jobs[j].from = n /\ jobs'[j] = jobs[j]
        BY <3>1, <3>3, <2>1, <2>2, <2>4
      <4>2. QED  BY <4>1, <2>7
    <3>4. CASE j # m /\ k # m
      <4>1. /\ j \in DOMAIN jobs /\ jobs'[j] = jobs[j]
            /\ k \in DOMAIN jobs /\ jobs'[k] = jobs[k]
        BY <3>4, <2>1, <2>4
      <4>2. QED  BY <3>1, <4>1 DEF StaffInv, RedeemedOnce
    <3>5. QED  BY <3>2, <3>3, <3>4
  <2>9. QED  BY <1>2, <2>3, <2>4, <2>5, <2>6, <2>8 DEF StaffInv
<1>5. QED  BY <1>3, <1>4 DEF Redeem

LEMMA StaffStep == StaffIsRight /\ [Next]_vars => StaffIsRight'
<1> SUFFICES ASSUME StaffIsRight, [Next]_vars PROVE StaffIsRight'
  OBVIOUS
<1>1. CASE UNCHANGED vars
  <2>1. /\ calls' = calls /\ raced' = raced /\ area' = area
        /\ jobs' = jobs /\ invitations' = invitations
    BY <1>1 DEF vars, requests, staff
  <2>2. QED
    BY <2>1 DEF StaffIsRight, StaffInv, NobodyInvited, RequestsInv, JobOfInvitation,
       AboutInvitation, Redeemed, RedeemedOnce
<1>2. CASE Next /\ area = "staff"
  <2>1. StaffInv /\ StaffNext /\ area' = area
    BY <1>2, StepOfArea DEF StaffIsRight
  <2>2. StaffInv'
    BY <2>1, InvitingKeeps, SettingActiveKeeps, ExpiryKeeps, AcceptanceKeeps, RedemptionKeeps
       DEF StaffNext
  <2>3. QED  BY <1>2, <2>1, <2>2 DEF StaffIsRight
<1>3. CASE Next /\ area # "staff"
  BY <1>3, StepOfArea DEF StaffIsRight, NobodyInvited, staff
<1>4. QED  BY <1>1, <1>2, <1>3

\* For any number of invitations, people and requests in flight: an invitation
\* makes two employments only by two redemptions that overlapped, and only for
\* the whole chain (accept_invitation, staff_service).
THEOREM InvitationsRedeemedOnce == Spec => []RedeemedOnce
<1>1. Init => StaffIsRight
  BY StaffInitially DEF StaffIsRight
<1>2. StaffIsRight => RedeemedOnce
  BY DEF StaffIsRight, StaffInv, NobodyInvited, RedeemedOnce
<1>3. QED  BY <1>1, <1>2, StaffStep, PTL DEF Spec
-----------------------------------------------------------------------------
(* Chains and branches.                                                       *)

Steps == 0..STEP_DONE
BranchRow == [group : Nat, owner : User, status : {"draft", "active", "closed"}, step : Steps,
              zones : {DEFAULT_ZONES}]
GroupRow == [owner : User]
Days == UNION Weeks

Owns(u) == \E g \in DOMAIN groups : groups[g].owner = u

VenuesTyped ==
    /\ groups \in Seq(GroupRow)
    /\ branches \in Seq(BranchRow) /\ Len(branches) <= MaxBranches
    /\ hours = [b \in BranchIds |-> hours[b]]
    /\ \A b \in BranchIds : \A r \in hours[b] : r.day \in Days
    /\ tables \in [BranchIds -> Seq(Nat)]

ChainsKept ==
    /\ \A b \in DOMAIN branches : branches[b].group \in DOMAIN groups
    /\ ChainsAreWhole

TablesKept == \A b \in BranchIds : tables[b] = [i \in 1..Len(tables[b]) |-> i]

\* What a request in flight has read of branch b's step still holds, unless
\* another one was about that step.
StepRead(c, b, was) ==
    /\ b \in DOMAIN branches /\ <<"step", b>> \in calls[c].keys
    /\ was \in Steps
    /\ was # branches[b].step => <<"step", b>> \in raced

AboutBranch(c) ==
    LET r == calls[c].read IN
        /\ calls[c].op = "start" =>
            /\ r \in User /\ <<"owner", r>> \in calls[c].keys
            /\ Owns(r) => <<"owner", r>> \in raced
        /\ calls[c].op = "step" => r.step \in Steps /\ StepRead(c, r.branch, r.was)
        /\ calls[c].op = "replace" =>
            /\ calls[c] = [op |-> "replace", keys |-> calls[c].keys, read |-> r]
            /\ r = [branch |-> r.branch, was |-> r.was, old |-> r.old, new |-> r.new]
            /\ r.branch \in DOMAIN branches /\ <<"step", r.branch>> \in calls[c].keys
            /\ \A n \in r.new : n.day \in Days
        /\ calls[c].op = "hours" =>
            /\ StepRead(c, r.branch, r.was)
            /\ \A n \in r.new : n.day \in Days
        /\ calls[c].op = "finish" => r \in DOMAIN branches /\ <<"step", r>> \in calls[c].keys
        /\ calls[c].op = "tables" =>
            /\ r.branch \in BranchIds /\ r.count \in Nat \ {0}
            /\ r.next \in 1..(Len(tables[r.branch]) + 1)

BranchesInv ==
    /\ RequestsInv /\ VenuesTyped /\ ChainsKept /\ TablesKept
    /\ \A c \in Client : AboutBranch(c)

BranchesAreRight == IF area = "branches" THEN BranchesInv ELSE BranchesInit

\* The step of a branch never falls unless two requests were about it.
NoRewind ==
    \A b \in DOMAIN branches : branches'[b].step < branches[b].step => <<"step", b>> \in raced

LEMMA BranchesInitially ==
  ASSUME BranchesInit
  PROVE  VenuesTyped /\ ChainsKept /\ TablesKept
<1>1. /\ groups = <<[owner |-> Owner]>> /\ branches = <<Branch(1, Owner)>>
      /\ Branch(1, Owner) \in BranchRow /\ [owner |-> Owner] \in GroupRow
  BY BranchesAssumption DEF BranchesInit, Branch, BranchRow, GroupRow, Steps, STEP_DONE
<1>2. /\ groups \in Seq(GroupRow) /\ DOMAIN groups = {1} /\ groups[1].owner = Owner
      /\ branches \in Seq(BranchRow) /\ DOMAIN branches = {1} /\ Len(branches) = 1
      /\ branches[1].group = 1 /\ branches[1].owner = Owner /\ branches[1].zones = DEFAULT_ZONES
  BY <1>1 DEF Branch
<1>3. \A b \in BranchIds : hours[b] = {} /\ tables[b] = <<>> /\ tables[b] \in Seq(Nat)
  BY DEF BranchesInit
<1>4. TablesKept
  BY <1>3 DEF TablesKept
<1>5. ChainsKept
  BY <1>2 DEF BranchesInit, ChainsKept, ChainsAreWhole
<1>6. VenuesTyped
  BY <1>2, <1>3, BranchesAssumption DEF BranchesInit, VenuesTyped
<1>7. QED  BY <1>4, <1>5, <1>6

\* The requests of other connections are not harmed by what c does.
LEMMA OthersUnharmed ==
  ASSUME BranchesInv, VenuesTyped', raced \subseteq raced',
         NEW c \in Client, NEW d \in Client \ {c}, calls'[d] = calls[d],
         Len(branches) <= Len(branches'),
         \A b \in DOMAIN branches :
            branches'[b].step = branches[b].step \/ <<"step", b>> \in calls[c].keys,
         \A u \in User : Owns(u)' => Owns(u) \/ <<"owner", u>> \in calls[c].keys,
         \A b \in BranchIds : Len(tables[b]) <= Len(tables'[b])
  PROVE  AboutBranch(d)'
<1>1. AboutBranch(d) /\ calls[d].keys \cap calls[c].keys \subseteq raced
  BY DEF BranchesInv, RequestsInv
<1>2. /\ \A b \in DOMAIN branches : b \in DOMAIN branches'
      /\ \A b \in BranchIds : Len(tables[b]) \in Nat /\ Len(tables'[b]) \in Nat
  BY DEF BranchesInv, VenuesTyped
<1>3. ASSUME NEW b, NEW was, StepRead(d, b, was)
      PROVE  /\ b \in DOMAIN branches' /\ <<"step", b>> \in calls'[d].keys /\ was \in Steps
             /\ was # branches'[b].step => <<"step", b>> \in raced'
  BY <1>1, <1>2, <1>3 DEF StepRead
<1>4. CASE calls[d].op = "start"
  <2>1. calls[d].read \in User /\ <<"owner", calls[d].read>> \in calls[d].keys
        /\ (Owns(calls[d].read) => <<"owner", calls[d].read>> \in raced)
    BY <1>1, <1>4 DEF AboutBranch
  <2>2. ASSUME Owns(calls[d].read)'  PROVE <<"owner", calls[d].read>> \in raced
    BY <1>1, <2>1, <2>2 DEF Owns
  <2>3. QED  BY <1>4, <2>1, <2>2 DEF AboutBranch, Owns
<1>5. CASE calls[d].op = "step"
  <2>1. calls[d].read.step \in Steps /\ StepRead(d, calls[d].read.branch, calls[d].read.was)
    BY <1>1, <1>5 DEF AboutBranch
  <2>2. QED  BY <1>3, <1>5, <2>1 DEF AboutBranch, StepRead
<1>6. CASE calls[d].op = "replace"
  BY <1>1, <1>2, <1>6 DEF AboutBranch
<1>7. CASE calls[d].op = "hours"
  <2>1. /\ StepRead(d, calls[d].read.branch, calls[d].read.was)
        /\ \A n \in calls[d].read.new : n.day \in Days
    BY <1>1, <1>7 DEF AboutBranch
  <2>2. QED  BY <1>3, <1>7, <2>1 DEF AboutBranch, StepRead
<1>8. CASE calls[d].op = "finish"
  BY <1>1, <1>2, <1>8 DEF AboutBranch
<1>9. CASE calls[d].op = "tables"
  <2>1. /\ calls[d].read.branch \in BranchIds /\ calls[d].read.count \in Nat \ {0}
        /\ calls[d].read.next \in 1..(Len(tables[calls[d].read.branch]) + 1)
    BY <1>1, <1>9 DEF AboutBranch
  <2> DEFINE b == calls[d].read.branch
  <2>2. /\ Len(tables[b]) \in Nat /\ Len(tables'[b]) \in Nat
        /\ Len(tables[b]) <= Len(tables'[b])
    BY <1>2, <2>1
  <2>3. calls[d].read.next \in 1..(Len(tables'[b]) + 1)
    <3> HIDE DEF b
    <3>1. calls[d].read.next \in 1..(Len(tables[b]) + 1)
      BY <2>1 DEF b
    <3>2. QED  BY <2>2, <3>1
  <2>4. QED  BY <1>9, <2>1, <2>3 DEF AboutBranch
<1>10. CASE calls[d].op \notin {"start", "step", "replace", "hours", "finish", "tables"}
  BY <1>10 DEF AboutBranch
<1>11. QED  BY <1>4, <1>5, <1>6, <1>7, <1>8, <1>9, <1>10

LEMMA RowsOfBranches ==
  ASSUME VenuesTyped, NEW b \in DOMAIN branches
  PROVE  /\ branches[b] \in BranchRow /\ branches[b].step \in Steps
         /\ branches[b].group \in Nat /\ branches[b].owner \in User
         /\ b \in BranchIds
<1>1. branches[b] \in BranchRow /\ b \in BranchIds
  BY BranchesAssumption DEF VenuesTyped, BranchIds
<1>2. QED  BY <1>1 DEF BranchRow

LEMMA StepsKept ==
  ASSUME VenuesTyped, \A b \in DOMAIN branches : branches'[b].step = branches[b].step
  PROVE  NoRewind
<1>1. ASSUME NEW b \in DOMAIN branches  PROVE ~(branches'[b].step < branches[b].step)
  BY RowsOfBranches DEF Steps, STEP_DONE
<1>2. QED  BY <1>1 DEF NoRewind

\* A request that leaves the venues alone.
LEMMA OnlyBegins ==
  ASSUME BranchesInv, UNCHANGED venues, NEW c \in Client,
         NEW STATE op, NEW STATE keys, NEW STATE read, Begin(c, op, keys, read), AboutBranch(c)'
  PROVE  BranchesInv' /\ NoRewind
<1>1. /\ RequestsInv' /\ raced \subseteq raced'
      /\ \A d \in Client \ {c} : calls'[d] = calls[d]
  BY BeginRequest DEF BranchesInv
<1>2. /\ groups' = groups /\ employments' = employments /\ branches' = branches
      /\ hours' = hours /\ tables' = tables
  BY DEF venues
<1>3. VenuesTyped' /\ TablesKept'
  BY <1>2 DEF BranchesInv, VenuesTyped, TablesKept
<1>4. ChainsKept'
  BY <1>1, <1>2 DEF BranchesInv, ChainsKept, ChainsAreWhole
<1>5. ASSUME NEW d \in Client \ {c}  PROVE AboutBranch(d)'
  <2>1. /\ Len(branches) <= Len(branches')
        /\ \A b \in BranchIds : Len(tables[b]) <= Len(tables'[b])
    BY <1>2 DEF BranchesInv, VenuesTyped
  <2>2. \A u \in User : Owns(u)' => Owns(u)
    BY <1>2 DEF Owns
  <2>3. QED  BY <1>1, <1>2, <1>3, <2>1, <2>2, OthersUnharmed
<1>6. NoRewind
  BY <1>2, RowsOfBranches DEF NoRewind, BranchesInv, Steps, STEP_DONE
<1>7. QED  BY <1>1, <1>3, <1>4, <1>5, <1>6 DEF BranchesInv

\* One that is answered, with the venues as they then are.
LEMMA AnswersKeep ==
  ASSUME BranchesInv, NEW c \in Client, NEW STATE answer,
         Answer(c, answer) \/ AnswerAtOnce(c, answer),
         VenuesTyped', ChainsKept', TablesKept',
         Len(branches) <= Len(branches'),
         \A b \in DOMAIN branches :
            branches'[b].step = branches[b].step \/ <<"step", b>> \in calls[c].keys,
         \A u \in User : Owns(u)' => Owns(u) \/ <<"owner", u>> \in calls[c].keys,
         \A b \in BranchIds : Len(tables[b]) <= Len(tables'[b])
  PROVE  BranchesInv'
<1>1. /\ RequestsInv' /\ raced' = raced
      /\ calls'[c] = [op |-> "idle", keys |-> {}, answer |-> answer]
      /\ \A d \in Client \ {c} : calls'[d] = calls[d]
  BY AnswerRequest DEF BranchesInv
<1>2. AboutBranch(c)'
  BY <1>1 DEF AboutBranch
<1>3. ASSUME NEW d \in Client \ {c}  PROVE AboutBranch(d)'
  BY <1>1, OthersUnharmed
<1>4. QED  BY <1>1, <1>2, <1>3 DEF BranchesInv

\* One that is answered by a refusal.
LEMMA RefusalsKeep ==
  ASSUME BranchesInv, UNCHANGED venues, NEW c \in Client, NEW STATE answer,
         Answer(c, answer) \/ AnswerAtOnce(c, answer)
  PROVE  BranchesInv' /\ NoRewind
<1>1. /\ groups' = groups /\ employments' = employments /\ branches' = branches
      /\ hours' = hours /\ tables' = tables /\ raced' = raced
  BY AnswerRequest DEF venues, BranchesInv
<1>2. VenuesTyped' /\ TablesKept' /\ ChainsKept'
  BY <1>1 DEF BranchesInv, VenuesTyped, TablesKept, ChainsKept, ChainsAreWhole
<1>3. /\ Len(branches) <= Len(branches')
      /\ \A b \in BranchIds : Len(tables[b]) <= Len(tables'[b])
  BY <1>1 DEF BranchesInv, VenuesTyped
<1>4. \A u \in User : Owns(u)' => Owns(u)
  BY <1>1 DEF Owns
<1>5. NoRewind
  BY <1>1, RowsOfBranches DEF NoRewind, BranchesInv, Steps, STEP_DONE
<1>6. QED  BY <1>1, <1>2, <1>3, <1>4, <1>5, AnswersKeep

\* The rows of one branch rewritten, as the wizard, finish and update_details do.
LEMMA BranchWritten ==
  ASSUME BranchesInv, NEW c \in Client, NEW STATE answer,
         Answer(c, answer) \/ AnswerAtOnce(c, answer),
         NEW STATE b, b \in DOMAIN branches, NEW STATE row,
         row \in BranchRow, row.group = branches[b].group, row.owner = branches[b].owner,
         row.step = branches[b].step \/ <<"step", b>> \in calls[c].keys,
         branches' = [branches EXCEPT ![b] = row],
         UNCHANGED <<groups, employments, tables>>,
         hours' = [a \in BranchIds |-> hours'[a]],
         \A a \in BranchIds : \A r \in hours'[a] : r.day \in Days
  PROVE  BranchesInv'
<1>1. /\ branches' \in Seq(BranchRow) /\ Len(branches') = Len(branches)
      /\ DOMAIN branches' = DOMAIN branches
      /\ branches'[b] = row /\ \A a \in DOMAIN branches \ {b} : branches'[a] = branches[a]
  BY DEF BranchesInv, VenuesTyped
<1>2. raced' = raced /\ groups' = groups /\ employments' = employments /\ tables' = tables
  BY AnswerRequest DEF BranchesInv
<1>3. VenuesTyped' /\ TablesKept'
  BY <1>1, <1>2 DEF BranchesInv, VenuesTyped, TablesKept
<1>4. \A a \in DOMAIN branches : /\ branches'[a].group = branches[a].group
                                 /\ branches'[a].owner = branches[a].owner
                                 /\ branches'[a].zones = DEFAULT_ZONES
  <2>1. row.zones = DEFAULT_ZONES
    BY DEF BranchRow
  <2>2. QED  BY <1>1, <2>1 DEF BranchesInv, ChainsKept, ChainsAreWhole
<1>5. ChainsKept'
  BY <1>1, <1>2, <1>4 DEF BranchesInv, ChainsKept, ChainsAreWhole
<1>6. \A a \in DOMAIN branches :
        branches'[a].step = branches[a].step \/ <<"step", a>> \in calls[c].keys
  BY <1>1
<1>7. /\ Len(branches) <= Len(branches')
      /\ \A a \in BranchIds : Len(tables[a]) <= Len(tables'[a])
  BY <1>1, <1>2 DEF BranchesInv, VenuesTyped
<1>8. \A u \in User : Owns(u)' => Owns(u)
  BY <1>2 DEF Owns
<1>9. QED  BY <1>3, <1>5, <1>6, <1>7, <1>8, AnswersKeep

LEMMA LaterOf ==
  ASSUME NEW x \in Steps, NEW y \in Steps
  PROVE  StepAfter(x, y) \in Steps /\ StepAfter(x, y) >= x
  BY DEF StepAfter, Later, Steps, STEP_DONE

\* The founding of a chain.
LEMMA FoundingKeeps ==
  ASSUME BranchesInv, NEW c \in Client, FoundChain(c)
  PROVE  BranchesInv' /\ NoRewind
<1> DEFINE u == calls[c].read
           g == Len(groups) + 1
           b == Len(branches) + 1
           chain == [owner |-> u]
           row == Branch(g, u)
<1>1. /\ Answer(c, Served) /\ Len(branches) < MaxBranches /\ calls[c].op = "start"
      /\ groups' = Append(groups, chain) /\ branches' = Append(branches, row)
      /\ employments' = employments \cup {<<u, g>>}
      /\ hours' = hours /\ tables' = tables
  BY DEF FoundChain
<1>2. /\ u \in User /\ <<"owner", u>> \in calls[c].keys
      /\ Owns(u) => <<"owner", u>> \in raced
  BY <1>1 DEF BranchesInv, AboutBranch
<1>3. Len(groups) \in Nat /\ Len(branches) \in Nat /\ VenuesTyped /\ g \in Nat
  BY DEF BranchesInv, VenuesTyped
<1>4. row \in BranchRow /\ row.group = g /\ row.owner = u /\ row.zones = DEFAULT_ZONES
  BY <1>2, <1>3 DEF Branch, BranchRow, Steps, STEP_DONE
<1>5. chain \in GroupRow /\ chain.owner = u
  BY <1>2 DEF GroupRow
<1> HIDE DEF row, chain
<1>6. /\ groups' \in Seq(GroupRow) /\ DOMAIN groups' = 1..g /\ groups'[g] = chain
      /\ DOMAIN groups = 1..Len(groups) /\ \A h \in DOMAIN groups : groups'[h] = groups[h]
      /\ branches' \in Seq(BranchRow) /\ DOMAIN branches' = 1..b /\ branches'[b] = row
      /\ DOMAIN branches = 1..Len(branches) /\ \A a \in DOMAIN branches : branches'[a] = branches[a]
      /\ Len(branches') = Len(branches) + 1
  BY <1>1, <1>3, <1>4, <1>5 DEF VenuesTyped
<1>o. groups'[g].owner = u
  BY <1>5, <1>6
<1>7. VenuesTyped' /\ TablesKept' /\ raced' = raced
  <2>1. Len(branches') <= MaxBranches
    BY <1>1, <1>3, <1>6, BranchesAssumption
  <2>2. raced' = raced
    BY <1>1 DEF Answer
  <2>3. QED  BY <1>1, <1>6, <2>1, <2>2 DEF BranchesInv, VenuesTyped, TablesKept
<1>8. ChainsKept'
  <2>1. \A a \in DOMAIN branches' : branches'[a].group \in DOMAIN groups'
    BY <1>3, <1>4, <1>6 DEF BranchesInv, ChainsKept
  <2>2. ASSUME NEW h \in DOMAIN groups', NEW k \in DOMAIN groups', h # k,
               groups'[h].owner = groups'[k].owner
        PROVE  <<"owner", groups'[h].owner>> \in raced
    <3>1. ASSUME NEW x \in DOMAIN groups, groups[x].owner = u  PROVE <<"owner", u>> \in raced
      BY <3>1, <1>2 DEF Owns
    <3>2. CASE h = g
      <4>1. k \in DOMAIN groups /\ groups[k].owner = u /\ groups'[h].owner = u
        BY <2>2, <3>2, <1>3, <1>o, <1>6
      <4>2. QED  BY <4>1, <3>1
    <3>3. CASE k = g
      <4>1. h \in DOMAIN groups /\ groups[h].owner = u /\ groups'[h].owner = u
        BY <2>2, <3>3, <1>3, <1>o, <1>6
      <4>2. QED  BY <4>1, <3>1
    <3>4. CASE h # g /\ k # g
      BY <2>2, <3>4, <1>3, <1>6 DEF BranchesInv, ChainsKept, ChainsAreWhole
    <3>5. QED  BY <3>2, <3>3, <3>4
  <2>3. ASSUME NEW h \in DOMAIN groups'
        PROVE  /\ <<groups'[h].owner, h>> \in employments'
               /\ \E a \in DOMAIN branches' : branches'[a].group = h
    <3>1. CASE h = g
      <4>1. b \in DOMAIN branches' /\ branches'[b].group = h
        BY <3>1, <1>3, <1>4, <1>6
      <4>2. <<groups'[h].owner, h>> \in employments'
        BY <3>1, <1>1, <1>o
      <4>3. QED  BY <4>1, <4>2
    <3>2. CASE h \in DOMAIN groups
      <4>1. /\ <<groups[h].owner, h>> \in employments
            /\ \E a \in DOMAIN branches : branches[a].group = h
        BY <3>2 DEF BranchesInv, ChainsKept, ChainsAreWhole
      <4>2. PICK a \in DOMAIN branches : branches[a].group = h
        BY <4>1
      <4>3. a \in DOMAIN branches' /\ branches'[a].group = h
        BY <4>2, <1>3, <1>6
      <4>4. QED  BY <3>2, <4>1, <4>3, <1>1, <1>6
    <3>3. QED  BY <3>1, <3>2, <1>3, <1>6
  <2>4. ASSUME NEW a \in DOMAIN branches'
        PROVE  /\ branches'[a].owner = groups'[branches'[a].group].owner
               /\ branches'[a].zones = DEFAULT_ZONES
    <3>1. CASE a = b
      BY <3>1, <1>4, <1>5, <1>6
    <3>2. CASE a \in DOMAIN branches
      BY <3>2, <1>6 DEF BranchesInv, ChainsKept, ChainsAreWhole
    <3>3. QED  BY <3>1, <3>2, <1>3, <1>6
  <2>5. QED  BY <2>1, <2>2, <2>3, <2>4, <1>7 DEF ChainsKept, ChainsAreWhole
<1>9. ASSUME NEW w \in User, Owns(w)'  PROVE Owns(w) \/ <<"owner", w>> \in calls[c].keys
  <2>1. PICK h \in DOMAIN groups' : groups'[h].owner = w
    BY <1>9 DEF Owns
  <2>2. CASE h = g
    BY <2>1, <2>2, <1>2, <1>o
  <2>3. CASE h \in DOMAIN groups
    BY <2>1, <2>3, <1>6 DEF Owns
  <2>4. QED  BY <2>2, <2>3, <1>3, <1>6
<1>10. /\ Len(branches) <= Len(branches')
       /\ \A a \in BranchIds : Len(tables[a]) <= Len(tables'[a])
       /\ \A a \in DOMAIN branches : branches'[a].step = branches[a].step
  BY <1>1, <1>3, <1>6 DEF VenuesTyped
<1>11. BranchesInv'
  BY <1>1, <1>7, <1>8, <1>9, <1>10, AnswersKeep
<1>12. NoRewind
  BY <1>3, <1>10, StepsKept
<1>13. QED  BY <1>11, <1>12

\* A further branch of a chain.
LEMMA AddingKeeps ==
  ASSUME BranchesInv, NEW c \in Client, NEW u \in User, NEW g \in DOMAIN groups, AddBranch(c, u, g)
  PROVE  BranchesInv' /\ NoRewind
<1> DEFINE b == Len(branches) + 1
           row == Branch(g, groups[g].owner)
<1>1. /\ AnswerAtOnce(c, Served) /\ Len(branches) < MaxBranches
      /\ branches' = Append(branches, row)
      /\ groups' = groups /\ employments' = employments /\ hours' = hours /\ tables' = tables
  BY DEF AddBranch
<1>2. Len(branches) \in Nat /\ VenuesTyped /\ g \in Nat /\ groups[g].owner \in User
  <2>1. groups \in Seq(GroupRow) /\ VenuesTyped /\ Len(branches) \in Nat
    BY DEF BranchesInv, VenuesTyped
  <2>2. g \in Nat /\ groups[g] \in GroupRow
    BY <2>1
  <2>3. QED  BY <2>1, <2>2 DEF GroupRow
<1>3. row \in BranchRow /\ row.group = g /\ row.owner = groups[g].owner /\ row.zones = DEFAULT_ZONES
  BY <1>2 DEF Branch, BranchRow, Steps, STEP_DONE
<1> HIDE DEF row
<1>4. /\ branches' \in Seq(BranchRow) /\ DOMAIN branches' = 1..b /\ branches'[b] = row
      /\ DOMAIN branches = 1..Len(branches) /\ \A a \in DOMAIN branches : branches'[a] = branches[a]
      /\ Len(branches') = Len(branches) + 1
  BY <1>1, <1>2, <1>3 DEF VenuesTyped
<1>5. VenuesTyped' /\ TablesKept' /\ raced' = raced
  <2>1. Len(branches') <= MaxBranches
    BY <1>1, <1>2, <1>4, BranchesAssumption
  <2>2. raced' = raced
    BY <1>1 DEF AnswerAtOnce
  <2>3. QED  BY <1>1, <1>4, <2>1, <2>2 DEF BranchesInv, VenuesTyped, TablesKept
<1>6. ChainsKept'
  <2>1. ASSUME NEW a \in DOMAIN branches'
        PROVE  /\ branches'[a].group \in DOMAIN groups
               /\ branches'[a].owner = groups[branches'[a].group].owner
               /\ branches'[a].zones = DEFAULT_ZONES
    <3>1. CASE a = b
      BY <3>1, <1>3, <1>4
    <3>2. CASE a \in DOMAIN branches
      BY <3>2, <1>4 DEF BranchesInv, ChainsKept, ChainsAreWhole
    <3>3. QED  BY <3>1, <3>2, <1>2, <1>4
  <2>2. ASSUME NEW h \in DOMAIN groups
        PROVE  \E a \in DOMAIN branches' : branches'[a].group = h
    <3>1. PICK a \in DOMAIN branches : branches[a].group = h
      BY DEF BranchesInv, ChainsKept, ChainsAreWhole
    <3>2. QED  BY <3>1, <1>2, <1>4
  <2>3. QED  BY <2>1, <2>2, <1>1, <1>5 DEF BranchesInv, ChainsKept, ChainsAreWhole
<1>7. \A w \in User : Owns(w)' => Owns(w)
  BY <1>1 DEF Owns
<1>8. /\ Len(branches) <= Len(branches')
      /\ \A a \in BranchIds : Len(tables[a]) <= Len(tables'[a])
      /\ \A a \in DOMAIN branches : branches'[a].step = branches[a].step
  BY <1>1, <1>2, <1>4 DEF VenuesTyped
<1>9. BranchesInv'
  BY <1>1, <1>5, <1>6, <1>7, <1>8, AnswersKeep
<1>10. NoRewind
  BY <1>2, <1>8, StepsKept
<1>11. QED  BY <1>9, <1>10

\* What a request about branch b has just begun knows.
LEMMA JustBegun ==
  ASSUME BranchesInv, UNCHANGED venues, NEW c \in Client,
         NEW STATE op, NEW STATE keys, NEW STATE read, Begin(c, op, keys, read)
  PROVE  /\ calls'[c] = [op |-> op, keys |-> keys, read |-> read]
         /\ branches' = branches /\ groups' = groups /\ tables' = tables
         /\ raced \subseteq raced'
  BY BeginRequest DEF BranchesInv, venues

\* The requests that begin.
LEMMA StartKeeps ==
  ASSUME BranchesInv, NEW c \in Client, NEW u \in User, Start(c, u)
  PROVE  BranchesInv' /\ NoRewind
<1>1. UNCHANGED venues
  BY DEF Start
<1>2. CASE \E why \in {"group_exists", "failed"} : AnswerAtOnce(c, Refused(why, u))
  BY <1>1, <1>2, RefusalsKeep
<1>3. CASE /\ {g \in DOMAIN groups : groups[g].owner = u} = {}
           /\ Begin(c, "start", {<<"owner", u>>}, u)
  <2>1. /\ calls'[c] = [op |-> "start", keys |-> {<<"owner", u>>}, read |-> u]
        /\ groups' = groups
    BY <1>1, <1>3, JustBegun
  <2>2. ~(\E g \in DOMAIN groups : groups[g].owner = u)
    BY <1>3
  <2>3. AboutBranch(c)'
    BY <2>1, <2>2 DEF AboutBranch, Owns
  <2>4. QED  BY <1>1, <1>3, <2>3, OnlyBegins
<1>4. QED  BY <1>2, <1>3 DEF Start

LEMMA WizardBegins ==
  ASSUME BranchesInv, NEW c \in Client, NEW b \in DOMAIN branches,
         \/ \E s \in {STEP_ADDRESS, STEP_TABLES, STEP_SERVICES, STEP_MEDIA} : TakeStep(c, b, s)
         \/ \E week \in Weeks : ReplaceHours(c, b, week)
         \/ Finish(c, b)
  PROVE  BranchesInv' /\ NoRewind
<1>1. ASSUME NEW s \in {STEP_ADDRESS, STEP_TABLES, STEP_SERVICES, STEP_MEDIA}, TakeStep(c, b, s)
      PROVE  BranchesInv' /\ NoRewind
  <2>1. /\ Begin(c, "step", {<<"step", b>>}, [branch |-> b, step |-> s, was |-> branches[b].step])
        /\ UNCHANGED venues
    BY <1>1 DEF TakeStep
  <2>2. /\ calls'[c] = [op |-> "step", keys |-> {<<"step", b>>},
                        read |-> [branch |-> b, step |-> s, was |-> branches[b].step]]
        /\ branches' = branches
    BY <2>1, JustBegun
  <2>3. s \in Steps /\ branches[b].step \in Steps
    BY RowsOfBranches DEF BranchesInv, Steps, STEP_ADDRESS, STEP_TABLES, STEP_SERVICES, STEP_MEDIA,
       STEP_DONE
  <2>4. AboutBranch(c)'
    BY <2>2, <2>3 DEF AboutBranch, StepRead
  <2>5. QED  BY <2>1, <2>4, OnlyBegins
<1>2. ASSUME NEW week \in Weeks, ReplaceHours(c, b, week)  PROVE BranchesInv' /\ NoRewind
  <2> DEFINE keys == {<<"hours", b>>, <<"step", b>>}
             rows == {[day |-> d, by |-> begun] : d \in week}
             read == [branch |-> b, was |-> 0, old |-> hours[b], new |-> rows]
  <2>1. Begin(c, "replace", keys, read) /\ UNCHANGED venues
    BY <1>2 DEF ReplaceHours
  <2>2. \A n \in rows : n.day \in Days
    BY DEF Days
  <2> HIDE DEF rows
  <2>3. calls'[c] = [op |-> "replace", keys |-> keys, read |-> read] /\ branches' = branches
    BY <2>1, JustBegun
  <2>4. AboutBranch(c)'
    BY <2>2, <2>3 DEF AboutBranch
  <2>5. QED  BY <2>1, <2>4, OnlyBegins
<1>3. ASSUME Finish(c, b)  PROVE BranchesInv' /\ NoRewind
  <2>1. CASE AnswerAtOnce(c, Refused("unfinished", b)) /\ UNCHANGED venues
    BY <2>1, RefusalsKeep
  <2>2. CASE Begin(c, "finish", {<<"step", b>>}, b) /\ UNCHANGED venues
    <3>1. /\ calls'[c] = [op |-> "finish", keys |-> {<<"step", b>>}, read |-> b]
          /\ branches' = branches
      BY <2>2, JustBegun
    <3>2. AboutBranch(c)'
      BY <3>1 DEF AboutBranch
    <3>3. QED  BY <2>2, <3>2, OnlyBegins
  <2>3. QED  BY <1>3, <2>1, <2>2 DEF Finish
<1>4. QED  BY <1>1, <1>2, <1>3

\* The highest number of tables that are numbered from one is how many they are.
LEMMA HighestIsLength ==
  ASSUME BranchesInv, NEW b \in BranchIds
  PROVE  Highest(tables[b]) = Len(tables[b])
<1> DEFINE n == Len(tables[b])
           taken == {tables[b][i] : i \in DOMAIN tables[b]}
<1>1. tables[b] \in Seq(Nat) /\ n \in Nat /\ tables[b] = [i \in 1..n |-> i]
  BY DEF BranchesInv, VenuesTyped, TablesKept
<1>2. CASE n = 0
  <2>1. tables[b] = <<>>
    BY <1>1, <1>2
  <2>2. QED  BY <1>2, <2>1 DEF Highest
<1>3. CASE n # 0
  <2>1. taken = 1..n /\ tables[b] # <<>>
    BY <1>1, <1>3
  <2>2. n \in taken /\ \A m \in taken : m <= n
    BY <1>1, <1>3, <2>1
  <2>3. ASSUME NEW x \in taken, \A m \in taken : m <= x  PROVE x = n
    <3> HIDE DEF taken
    <3>1. n <= x /\ x <= n /\ x \in 1..n
      BY <2>1, <2>2, <2>3
    <3>2. QED  BY <1>1, <3>1
  <2> HIDE DEF taken
  <2>4. (CHOOSE x \in taken : \A m \in taken : m <= x) = n
    BY <2>2, <2>3
  <2>5. QED  BY <2>1, <2>4 DEF Highest, taken
<1>4. QED  BY <1>2, <1>3

LEMMA TablesBegin ==
  ASSUME BranchesInv, NEW c \in Client, NEW b \in DOMAIN branches, NEW n \in 1..MaxTables,
         CreateTables(c, b, n)
  PROVE  BranchesInv' /\ NoRewind
<1> DEFINE read == [branch |-> b, next |-> Highest(tables[b]) + 1, count |-> n]
<1>1. Begin(c, "tables", {<<"tables", b>>}, read) /\ UNCHANGED venues
  BY DEF CreateTables
<1>2. /\ b \in BranchIds /\ n \in Nat \ {0} /\ Len(tables[b]) \in Nat
      /\ Highest(tables[b]) + 1 \in 1..(Len(tables[b]) + 1)
  <2>1. b \in BranchIds /\ n \in Nat \ {0}
    BY RowsOfBranches, BranchesAssumption DEF BranchesInv
  <2>2. Len(tables[b]) \in Nat /\ Highest(tables[b]) = Len(tables[b])
    BY <2>1, HighestIsLength DEF BranchesInv, VenuesTyped
  <2>3. QED  BY <2>1, <2>2
<1>3. calls'[c] = [op |-> "tables", keys |-> {<<"tables", b>>}, read |-> read] /\ tables' = tables
  BY <1>1, JustBegun
<1>4. AboutBranch(c)'
  BY <1>2, <1>3 DEF AboutBranch
<1>5. QED  BY <1>1, <1>4, OnlyBegins

\* The unique numbers let a request through only with the next ones.
LEMMA TablesInserted ==
  ASSUME BranchesInv, NEW c \in Client, InsertTables(c)
  PROVE  BranchesInv' /\ NoRewind
<1> DEFINE b == calls[c].read.branch
           k == calls[c].read.next
           n == calls[c].read.count
           len == Len(tables[b])
           new == [i \in 1..n |-> k + i - 1]
<1>1. b \in BranchIds /\ n \in Nat \ {0} /\ k \in 1..(len + 1) /\ len \in Nat
  <2>1. calls[c].op = "tables"
    BY DEF InsertTables
  <2>2. b \in BranchIds /\ n \in Nat \ {0} /\ k \in 1..(len + 1)
    BY <2>1 DEF BranchesInv, AboutBranch
  <2>3. QED  BY <2>2 DEF BranchesInv, VenuesTyped
<1>2. CASE Answer(c, Refused("duplicate", b)) /\ UNCHANGED venues
  BY <1>2, RefusalsKeep
<1>3. CASE /\ ~\E i \in DOMAIN new : Numbered(b, new[i])
           /\ Answer(c, Served) /\ tables' = [tables EXCEPT ![b] = @ \o new]
           /\ UNCHANGED <<groups, employments, branches, hours>>
  <2>1. tables[b] = [i \in 1..len |-> i] /\ DOMAIN tables[b] = 1..len
    BY <1>1 DEF BranchesInv, TablesKept, VenuesTyped
  <2>2. k = len + 1
    <3>1. 1 \in DOMAIN new /\ new[1] = k
      BY <1>1
    <3>2. ASSUME k <= len  PROVE FALSE
      <4>1. k \in DOMAIN tables[b] /\ tables[b][k] = k
        BY <1>1, <2>1, <3>2
      <4>2. Numbered(b, new[1])
        BY <3>1, <4>1 DEF Numbered
      <4>3. QED  BY <1>3, <3>1, <4>2
    <3>3. QED  BY <1>1, <3>2
  <2>3. new \in Seq(Nat) /\ Len(new) = n
    BY <1>1
  <2>4. /\ tables[b] \o new \in Seq(Nat) /\ Len(tables[b] \o new) = len + n
        /\ \A i \in 1..(len + n) : (tables[b] \o new)[i] = i
    <3>1. tables[b] \in Seq(Nat) /\ Len(tables[b]) = len
      BY <1>1 DEF BranchesInv, VenuesTyped
    <3>2. \A i \in 1..len : tables[b][i] = i
      BY <2>1
    <3>3. \A i \in 1..n : new[i] = len + i
      BY <1>1, <2>2
    <3> HIDE DEF new
    <3> DEFINE old == tables[b]
    <3>4. \A x, y \in Seq(Nat) :
            /\ x \o y \in Seq(Nat) /\ Len(x \o y) = Len(x) + Len(y)
            /\ \A i \in 1..(Len(x) + Len(y)) :
                    (x \o y)[i] = IF i <= Len(x) THEN x[i] ELSE y[i - Len(x)]
      BY ConcatProperties
    <3> HIDE DEF old
    <3>5. /\ old \o new \in Seq(Nat) /\ Len(old \o new) = len + n
          /\ \A i \in 1..(len + n) : (old \o new)[i] = IF i <= len THEN old[i] ELSE new[i - len]
      <4>1. old \in Seq(Nat) /\ new \in Seq(Nat) /\ Len(old) = len /\ Len(new) = n
        BY <2>3, <3>1 DEF old
      <4> HIDE DEF len, n
      <4>2. QED  BY <3>4, <4>1
    <3>6. ASSUME NEW i \in 1..(len + n)  PROVE (old \o new)[i] = i
      <4>1. CASE i <= len
        <5>1. i \in 1..len
          BY <1>1, <4>1
        <5>2. old[i] = i
          BY <5>1, <3>2 DEF old
        <5>3. QED  BY <3>5, <4>1, <5>2
      <4>2. CASE ~(i <= len)
        <5>1. i - len \in 1..n /\ len + (i - len) = i
          <6>1. len \in Nat /\ n \in Nat /\ i \in 1..(len + n) /\ ~(i <= len)
            BY <1>1, <4>2
          <6> HIDE DEF len, n
          <6>2. QED  BY <6>1
        <5>2. new[i - len] = i
          BY <5>1, <3>3
        <5>3. QED  BY <3>5, <4>2, <5>2
      <4>3. QED  BY <4>1, <4>2
    <3>7. QED  BY <3>5, <3>6 DEF old
  <2>5. tables[b] \o new = [i \in 1..(len + n) |-> i]
    <3> DEFINE longer == tables[b] \o new
    <3> HIDE DEF longer
    <3>1. longer \in Seq(Nat) /\ Len(longer) = len + n /\ \A i \in 1..(len + n) : longer[i] = i
      BY <2>4 DEF longer
    <3>2. longer = [i \in 1..(len + n) |-> longer[i]]
      BY <3>1
    <3>3. QED  BY <3>1, <3>2 DEF longer
  <2>6. /\ tables' \in [BranchIds -> Seq(Nat)] /\ TablesKept'
        /\ \A a \in BranchIds : Len(tables[a]) <= Len(tables'[a])
    <3> DEFINE longer == tables[b] \o new
    <3>1. tables' = [tables EXCEPT ![b] = longer]
      BY <1>3
    <3>2. longer \in Seq(Nat) /\ Len(longer) = len + n /\ longer = [i \in 1..Len(longer) |-> i]
      BY <2>4, <2>5
    <3> HIDE DEF longer
    <3>3. tables \in [BranchIds -> Seq(Nat)] /\ TablesKept
      BY DEF BranchesInv, VenuesTyped
    <3>4. tables'[b] = longer /\ \A a \in BranchIds \ {b} : tables'[a] = tables[a]
      BY <1>1, <3>1, <3>3
    <3>5. ASSUME NEW a \in BranchIds
          PROVE  /\ tables'[a] = [i \in 1..Len(tables'[a]) |-> i]
                 /\ Len(tables[a]) <= Len(tables'[a])
      <4>1. CASE a = b
        <5>1. Len(tables[a]) <= Len(longer)
          BY <1>1, <3>2, <4>1
        <5>2. QED  BY <3>2, <3>4, <4>1, <5>1
      <4>2. CASE a # b
        BY <3>3, <3>4, <4>2 DEF TablesKept
      <4>3. QED  BY <4>1, <4>2
    <3>6. tables' \in [BranchIds -> Seq(Nat)]
      BY <3>1, <3>2, <3>3
    <3>7. QED  BY <3>5, <3>6 DEF TablesKept
  <2>7. VenuesTyped' /\ ChainsKept'
    <3>1. raced' = raced
      BY <1>3 DEF Answer
    <3>2. QED  BY <1>3, <2>6, <3>1 DEF BranchesInv, VenuesTyped, ChainsKept, ChainsAreWhole
  <2>8. /\ \A u \in User : Owns(u)' => Owns(u)
        /\ Len(branches) <= Len(branches')
        /\ \A a \in DOMAIN branches : branches'[a].step = branches[a].step
    BY <1>3 DEF BranchesInv, VenuesTyped, Owns
  <2>9. BranchesInv'
    BY <1>3, <2>6, <2>7, <2>8, AnswersKeep
  <2>10. NoRewind
    BY <2>8, StepsKept DEF BranchesInv
  <2>11. QED  BY <2>9, <2>10
<1>4. QED  BY <1>2, <1>3 DEF InsertTables, venues

\* Only branch b is written, and its step does not fall but by a race.
LEMMA OneBranchMoves ==
  ASSUME VenuesTyped, NEW b \in DOMAIN branches, NEW STATE row, row \in BranchRow,
         branches' = [branches EXCEPT ![b] = row],
         row.step < branches[b].step => <<"step", b>> \in raced
  PROVE  NoRewind
<1>1. ASSUME NEW a \in DOMAIN branches, branches'[a].step < branches[a].step
      PROVE  <<"step", a>> \in raced
  <2>1. CASE a = b
    BY <1>1, <2>1 DEF VenuesTyped
  <2>2. CASE a # b
    <3>1. branches'[a].step = branches[a].step
      BY <2>2 DEF VenuesTyped
    <3>2. branches[a].step \in Nat
      BY RowsOfBranches DEF Steps, STEP_DONE
    <3>3. QED  BY <1>1, <3>1, <3>2
  <2>3. QED  BY <2>1, <2>2
<1>2. QED  BY <1>1 DEF NoRewind

\* A screen of the wizard, whose step was read before.
LEMMA ScreenKeeps ==
  ASSUME BranchesInv, NEW c \in Client, ApplyStep(c) \/ CommitHours(c)
  PROVE  BranchesInv' /\ NoRewind
<1> DEFINE b == calls[c].read.branch
           was == calls[c].read.was
           step == IF calls[c].op = "step" THEN calls[c].read.step ELSE STEP_HOURS
           next == StepAfter(was, step)
           row == [branches[b] EXCEPT !.step = next]
<1>1. /\ StepRead(c, b, was) /\ step \in Steps
      /\ Answer(c, Served) /\ UNCHANGED <<groups, employments, tables>>
      /\ branches' = [branches EXCEPT ![b].step = next]
  <2>1. CASE ApplyStep(c)
    <3>1. calls[c].op = "step" /\ AboutBranch(c)
      BY <2>1 DEF ApplyStep, BranchesInv
    <3>2. StepRead(c, b, was) /\ calls[c].read.step \in Steps
      BY <3>1 DEF AboutBranch
    <3>3. QED  BY <2>1, <3>1, <3>2 DEF ApplyStep
  <2>2. CASE CommitHours(c)
    <3>1. calls[c].op = "hours" /\ AboutBranch(c)
      BY <2>2 DEF CommitHours, BranchesInv
    <3>2. StepRead(c, b, was)
      BY <3>1 DEF AboutBranch
    <3>3. STEP_HOURS \in Steps
      BY DEF STEP_HOURS, Steps, STEP_DONE
    <3>4. QED  BY <2>2, <3>1, <3>2, <3>3 DEF CommitHours
  <2>3. QED  BY <2>1, <2>2
<1>2. /\ b \in DOMAIN branches /\ <<"step", b>> \in calls[c].keys /\ was \in Steps
      /\ was # branches[b].step => <<"step", b>> \in raced
  BY <1>1 DEF StepRead
<1>3. next \in Steps /\ next >= was
  BY <1>1, <1>2, LaterOf
<1>4. branches[b] \in BranchRow /\ branches[b].step \in Steps /\ VenuesTyped
  BY <1>2, RowsOfBranches DEF BranchesInv
<1>5. /\ hours' = [a \in BranchIds |-> hours'[a]]
      /\ \A a \in BranchIds : \A r \in hours'[a] : r.day \in Days
  <2>1. CASE ApplyStep(c)
    BY <2>1 DEF ApplyStep, BranchesInv, VenuesTyped
  <2>2. CASE CommitHours(c)
    <3> DEFINE rows == Replaced(hours[b], calls[c].read.old, calls[c].read.new)
    <3>1. calls[c].op = "hours" /\ AboutBranch(c) /\ hours' = [hours EXCEPT ![b] = rows]
      BY <2>2 DEF CommitHours, BranchesInv
    <3>2. \A n \in calls[c].read.new : n.day \in Days
      BY <3>1 DEF AboutBranch
    <3>3. b \in BranchIds
      BY <1>2, <1>4, RowsOfBranches
    <3>4. \A r \in rows : r.day \in Days
      BY <1>4, <3>2, <3>3 DEF Replaced, VenuesTyped
    <3> HIDE DEF rows, b
    <3>5. QED  BY <1>4, <3>1, <3>3, <3>4 DEF VenuesTyped
  <2>3. QED  BY <2>1, <2>2
<1> HIDE DEF b, was, step, next
<1>6. /\ row \in BranchRow /\ row.group = branches[b].group /\ row.owner = branches[b].owner
      /\ row.step = next /\ branches' = [branches EXCEPT ![b] = row]
  BY <1>1, <1>2, <1>3, <1>4 DEF BranchRow
<1> HIDE DEF row
<1>7. BranchesInv'
  BY <1>1, <1>2, <1>5, <1>6, BranchWritten
<1>8. row.step < branches[b].step => <<"step", b>> \in raced
  BY <1>2, <1>3, <1>4, <1>6 DEF Steps, STEP_DONE
<1>9. NoRewind
  BY <1>2, <1>4, <1>6, <1>8, OneBranchMoves
<1>10. QED  BY <1>7, <1>9

\* finish: the last step there is.
LEMMA GoingLiveKeeps ==
  ASSUME BranchesInv, NEW c \in Client, GoLive(c)
  PROVE  BranchesInv' /\ NoRewind
<1> DEFINE b == calls[c].read
           live == [branches[b] EXCEPT !.status = "active"]
           row == [live EXCEPT !.step = STEP_DONE]
<1>1. /\ b \in DOMAIN branches /\ <<"step", b>> \in calls[c].keys
      /\ Answer(c, Served) /\ UNCHANGED <<groups, employments, tables, hours>>
      /\ branches' = [branches EXCEPT ![b].status = "active", ![b].step = STEP_DONE]
  BY DEF GoLive, BranchesInv, AboutBranch
<1>2. branches[b] \in BranchRow /\ branches[b].step \in Steps /\ VenuesTyped
  BY <1>1, RowsOfBranches DEF BranchesInv
<1> HIDE DEF b
<1>3. /\ row \in BranchRow /\ row.group = branches[b].group /\ row.owner = branches[b].owner
      /\ row.step = STEP_DONE /\ branches' = [branches EXCEPT ![b] = row]
  <2>1. branches' = [branches EXCEPT ![b] = row]
    <3>1. branches = [a \in DOMAIN branches |-> branches[a]]
      BY <1>2 DEF VenuesTyped
    <3>2. QED  BY <1>1, <3>1
  <2>2. live \in BranchRow /\ live.group = branches[b].group /\ live.owner = branches[b].owner
    BY <1>2 DEF BranchRow
  <2> HIDE DEF live
  <2>3. /\ row \in BranchRow /\ row.group = live.group /\ row.owner = live.owner
        /\ row.step = STEP_DONE
    BY <2>2 DEF BranchRow, Steps, STEP_DONE
  <2>4. QED  BY <2>1, <2>2, <2>3
<1> HIDE DEF row, live
<1>4. /\ hours' = [a \in BranchIds |-> hours'[a]]
      /\ \A a \in BranchIds : \A r \in hours'[a] : r.day \in Days
  BY <1>1, <1>2 DEF VenuesTyped
<1>5. BranchesInv'
  BY <1>1, <1>3, <1>4, BranchWritten, ZenonT(60)
<1>6. ~(row.step < branches[b].step)
  BY <1>2, <1>3 DEF Steps, STEP_DONE
<1>7. NoRewind
  BY <1>1, <1>2, <1>3, <1>6, OneBranchMoves
<1>8. QED  BY <1>5, <1>7

\* update_details
LEMMA DetailsKeep ==
  ASSUME BranchesInv, NEW c \in Client, NEW b \in DOMAIN branches,
         NEW status \in {"active", "closed"}, UpdateDetails(c, b, status)
  PROVE  BranchesInv' /\ NoRewind
<1> DEFINE row == [branches[b] EXCEPT !.status = status]
<1>1. branches[b] \in BranchRow /\ branches[b].step \in Steps /\ VenuesTyped
  BY RowsOfBranches DEF BranchesInv
<1>2. /\ AnswerAtOnce(c, Served) /\ UNCHANGED <<groups, employments, tables, hours>>
      /\ branches' = [branches EXCEPT ![b] = row]
  BY DEF UpdateDetails
<1>3. /\ row \in BranchRow /\ row.group = branches[b].group /\ row.owner = branches[b].owner
      /\ row.step = branches[b].step
  BY <1>1 DEF BranchRow
<1> HIDE DEF row
<1>4. /\ hours' = [a \in BranchIds |-> hours'[a]]
      /\ \A a \in BranchIds : \A r \in hours'[a] : r.day \in Days
  BY <1>1, <1>2 DEF VenuesTyped
<1>5. BranchesInv'
  BY <1>2, <1>3, <1>4, BranchWritten
<1>6. ~(row.step < branches[b].step)
  BY <1>1, <1>3 DEF Steps, STEP_DONE
<1>7. NoRewind
  BY <1>1, <1>2, <1>3, <1>6, OneBranchMoves
<1>8. QED  BY <1>5, <1>7

\* The wizard's step is read, after the hours are replaced.
LEMMA ReadingReads ==
  ASSUME BranchesInv, NEW c \in Client, ReadStep(c)
  PROVE  LET r == calls[c].read
             read == [branch |-> r.branch, was |-> branches[r.branch].step, old |-> r.old, new |-> r.new]
         IN  /\ RequestsInv' /\ raced' = raced
             /\ calls'[c] = [op |-> "hours", keys |-> calls[c].keys, read |-> read]
             /\ \A d \in Client \ {c} : calls'[d] = calls[d]
             /\ calls[c].op = "replace" /\ UNCHANGED venues
<1> DEFINE r == calls[c].read
           keys == calls[c].keys
           step == branches[r.branch].step
           read == [branch |-> r.branch, was |-> step, old |-> r.old, new |-> r.new]
<1>1. /\ Proceed(c, "hours", [r EXCEPT !.was = step]) /\ UNCHANGED venues
      /\ calls[c].op = "replace" /\ AboutBranch(c)
  BY DEF ReadStep, BranchesInv
<1>2. /\ calls[c] = [op |-> "replace", keys |-> keys, read |-> r]
      /\ r = [branch |-> r.branch, was |-> r.was, old |-> r.old, new |-> r.new]
      /\ r.branch \in DOMAIN branches /\ <<"step", r.branch>> \in keys
      /\ \A n \in r.new : n.day \in Days
  BY <1>1 DEF AboutBranch
<1>3. [r EXCEPT !.was = step] = read
  <2> DEFINE b == r.branch
             w == r.was
             o == r.old
             n == r.new
  <2>1. r = [branch |-> b, was |-> w, old |-> o, new |-> n]
    BY <1>2
  <2> HIDE DEF b, w, o, n, step
  <2>2. [[branch |-> b, was |-> w, old |-> o, new |-> n] EXCEPT !.was = step]
          = [branch |-> b, was |-> step, old |-> o, new |-> n]
    OBVIOUS
  <2>3. [r EXCEPT !.was = step] = [branch |-> b, was |-> step, old |-> o, new |-> n]
    BY <2>1, <2>2
  <2>4. QED  BY <2>3 DEF b, o, n
<1>4. RequestsInv /\ Proceed(c, "hours", read)
  BY <1>1, <1>3 DEF BranchesInv
<1>5. /\ RequestsInv' /\ raced' = raced
      /\ calls'[c] = [op |-> "hours", keys |-> keys, read |-> read]
      /\ \A d \in Client \ {c} : calls'[d] = calls[d]
  <2> DEFINE x == read
  <2> HIDE DEF x
  <2>1. /\ RequestsInv' /\ raced' = raced
        /\ calls'[c] = [op |-> "hours", keys |-> calls[c].keys, read |-> x]
        /\ \A d \in Client \ {c} : calls'[d] = calls[d]
    BY <1>2, <1>4, ProceedRequest DEF x
  <2>2. QED  BY <2>1 DEF x
<1>6. QED  BY <1>1, <1>5

LEMMA ReadingKeeps ==
  ASSUME BranchesInv, NEW c \in Client, ReadStep(c)
  PROVE  BranchesInv' /\ NoRewind
<1> DEFINE r == calls[c].read
           keys == calls[c].keys
           step == branches[r.branch].step
           read == [branch |-> r.branch, was |-> step, old |-> r.old, new |-> r.new]
<1>1. calls[c].op = "replace" /\ UNCHANGED venues
  BY ReadingReads
<1>2. /\ r.branch \in DOMAIN branches /\ <<"step", r.branch>> \in keys
      /\ \A n \in r.new : n.day \in Days
  BY <1>1 DEF AboutBranch, BranchesInv
<1>5. /\ RequestsInv' /\ raced' = raced
      /\ calls'[c] = [op |-> "hours", keys |-> keys, read |-> read]
      /\ \A d \in Client \ {c} : calls'[d] = calls[d]
  BY ReadingReads
<1>7. /\ groups' = groups /\ employments' = employments /\ branches' = branches
      /\ hours' = hours /\ tables' = tables
  BY <1>1 DEF venues
<1>8. VenuesTyped' /\ TablesKept' /\ ChainsKept'
  BY <1>5, <1>7 DEF BranchesInv, VenuesTyped, TablesKept, ChainsKept, ChainsAreWhole
<1>9. step \in Steps
  BY <1>2, RowsOfBranches DEF BranchesInv
<1>10. AboutBranch(c)'
  BY <1>2, <1>5, <1>7, <1>9 DEF AboutBranch, StepRead
<1>11. ASSUME NEW d \in Client \ {c}  PROVE AboutBranch(d)'
  <2>1. /\ Len(branches) <= Len(branches')
        /\ \A b \in BranchIds : Len(tables[b]) <= Len(tables'[b])
    BY <1>7 DEF BranchesInv, VenuesTyped
  <2>2. \A u \in User : Owns(u)' => Owns(u)
    BY <1>7 DEF Owns
  <2>3. QED  BY <1>5, <1>7, <1>8, <2>1, <2>2, OthersUnharmed
<1>12. NoRewind
  BY <1>7, StepsKept DEF BranchesInv
<1>13. QED  BY <1>5, <1>8, <1>10, <1>11, <1>12 DEF BranchesInv

LEMMA BranchesNextKeeps ==
  ASSUME BranchesInv, BranchesNext
  PROVE  BranchesInv' /\ NoRewind
  BY StartKeeps, AddingKeeps, WizardBegins, TablesBegin, DetailsKeep, FoundingKeeps, ScreenKeeps,
     ReadingKeeps, GoingLiveKeeps, TablesInserted DEF BranchesNext

LEMMA BranchesStart == Init => BranchesAreRight
<1> SUFFICES ASSUME Init PROVE BranchesInv /\ BranchesInit
  BY DEF BranchesAreRight
<1>1. BranchesInit /\ RequestsInv /\ \A c \in Client : calls[c].op = "idle"
  BY RequestsInitially DEF Init, RequestsInit, Idle
<1>2. QED  BY <1>1, BranchesInitially DEF BranchesInv, AboutBranch

LEMMA BranchesStep ==
  BranchesAreRight /\ [Next]_vars => BranchesAreRight' /\ (UNCHANGED venues \/ NoRewind)
<1> SUFFICES ASSUME BranchesAreRight, [Next]_vars
             PROVE  BranchesAreRight' /\ (UNCHANGED venues \/ NoRewind)
  OBVIOUS
<1>1. CASE UNCHANGED vars
  <2>1. /\ calls' = calls /\ raced' = raced /\ area' = area /\ UNCHANGED venues
        /\ groups' = groups /\ employments' = employments /\ branches' = branches
        /\ hours' = hours /\ tables' = tables
    BY <1>1 DEF vars, requests, venues
  <2>2. BranchesInit => BranchesInit'
    BY <2>1 DEF BranchesInit
  <2>3. ASSUME BranchesInv  PROVE BranchesInv'
    <3>1. RequestsInv' /\ VenuesTyped' /\ ChainsKept' /\ TablesKept'
      BY <2>1, <2>3 DEF BranchesInv, RequestsInv, VenuesTyped, ChainsKept, ChainsAreWhole, TablesKept
    <3>2. \A c \in Client : AboutBranch(c)'
      BY <2>1, <2>3 DEF BranchesInv, AboutBranch, Owns, StepRead
    <3>3. QED  BY <3>1, <3>2 DEF BranchesInv
  <2>4. QED  BY <2>1, <2>2, <2>3 DEF BranchesAreRight
<1>2. CASE Next /\ area = "branches"
  <2>1. BranchesInv /\ BranchesNext /\ area' = area
    BY <1>2, StepOfArea DEF BranchesAreRight
  <2>2. QED  BY <1>2, <2>1, BranchesNextKeeps DEF BranchesAreRight
<1>3. CASE Next /\ area # "branches"
  BY <1>3, StepOfArea DEF BranchesAreRight, BranchesInit, venues
<1>4. QED  BY <1>1, <1>2, <1>3

LEMMA BranchesInvariant == Spec => []BranchesAreRight
  BY BranchesStart, BranchesStep, PTL DEF Spec

LEMMA AlwaysKept == BranchesAreRight => VenuesTyped /\ ChainsKept /\ TablesKept
  BY BranchesInitially DEF BranchesAreRight, BranchesInv

\* For any number of requests in flight: the tables of a branch are numbered
\* from one without gaps (bulk_create_from_counts and its unique constraint).
THEOREM TablesAreNumberedOnce == Spec => []TablesNumberedOnce
<1>1. BranchesAreRight => TablesNumberedOnce
  BY AlwaysKept, RowsOfBranches DEF TablesKept, TablesNumberedOnce
<1>2. QED  BY <1>1, BranchesInvariant, PTL

\* A second chain of one owner comes only of two requests that overlapped; every
\* branch belongs to its chain's owner, who works there, and has its zones
\* (start and add_branch, venue_onboarding_service).
THEOREM ChainsStayWhole == Spec => []ChainsAreWhole
<1>1. BranchesAreRight => ChainsAreWhole
  BY AlwaysKept DEF ChainsKept
<1>2. QED  BY <1>1, BranchesInvariant, PTL

\* The step of the wizard falls only if two requests about it overlapped
\* (venue_onboarding_service, the maximum of the step read and the screen's).
THEOREM WizardGoesForward == Spec => WizardNeverRewinds
<1>1. BranchesAreRight /\ [Next]_vars =>
        [NoRewind]_<<venues, requests>>
  <2> SUFFICES ASSUME BranchesAreRight, [Next]_vars  PROVE NoRewind
    OBVIOUS
  <2>1. VenuesTyped
    BY AlwaysKept
  <2>2. CASE UNCHANGED venues
    BY <2>1, <2>2, StepsKept DEF venues
  <2>3. QED  BY <2>2, BranchesStep
<1>2. Spec => [][NoRewind]_<<venues, requests>>
  BY <1>1, BranchesInvariant, PTL DEF Spec
<1>3. QED  BY <1>2 DEF WizardNeverRewinds, NoRewind

\* A yes is a yes of one row that names the weekday and the time of the moment.
LEMMA OpenByARow ==
  ASSUME BranchesAreRight, NEW b \in DOMAIN branches, NEW m \in Nat, TRUE \in IsOpenAt(b, m)
  PROVE  OpenAsEntered(b, m)
<1>1. VenuesTyped /\ b \in BranchIds
  BY AlwaysKept, RowsOfBranches
<1>2. PICK r \in hours[b] : r.day.weekday = WeekdayAt(m) /\ Between(TimeAt(m), r.day)
  BY DEF IsOpenAt
<1>3. r.day.opens \in Nat /\ r.day.closes \in Nat /\ TimeAt(m) \in Nat
  BY <1>1, <1>2, BranchesAssumption DEF VenuesTyped, Days, TimeAt
<1>4. /\ ~r.day.closed /\ r.day.opens <= TimeAt(m) /\ TimeAt(m) <= r.day.closes
  BY <1>2 DEF Between
<1>5. r.day.opens <= r.day.closes
  BY <1>3, <1>4
<1>6. WeekdayAt(m) \notin Holidays
  BY DEF IsOpenAt
<1>7. QED  BY <1>2, <1>4, <1>5, <1>6 DEF OpenAsEntered

\* Whatever rows two replacements of a week leave behind: for a local moment the
\* hours never open a branch that is shut as entered (_is_open_now_expression),
\* and the badge, which is asked in UTC (search, get_detail), opens one that has
\* shut only within the hours that the branch's clock is ahead.
THEOREM BadgeErrsOnOneSide == Spec => []OpenOnlyAsEntered
<1>1. BranchesAreRight => OpenOnlyAsEntered
  <2> SUFFICES ASSUME BranchesAreRight, NEW b \in DOMAIN branches, NEW t \in Times
               PROVE  /\ TRUE \in IsOpenAt(b, t) => OpenAsEntered(b, t)
                      /\ TRUE \in Badges(b, t) => \E m \in t - Ahead .. t : OpenAsEntered(b, m)
    BY DEF OpenOnlyAsEntered
  <2>1. t \in Nat /\ t - Ahead \in Nat /\ t - Ahead \in t - Ahead .. t
    BY BranchesAssumption
  <2>2. QED  BY <2>1, OpenByARow DEF Badges
<1>2. QED  BY <1>1, BranchesInvariant, PTL
-----------------------------------------------------------------------------
(* The week of a branch.                                                      *)

\* A replacement in flight has one author, and the rows that its DELETE saw are
\* all the rows there are, unless another one is about that week.
WeekRead(c) ==
    LET r == calls[c].read IN
        calls[c].op \in {"replace", "hours"} =>
            /\ <<"hours", r.branch>> \in calls[c].keys
            /\ <<"hours", r.branch>> \notin raced => r.old = hours[r.branch]
            /\ \A n, m \in r.new : n.by = m.by

OneAuthor == \A b \in BranchIds : <<"hours", b>> \notin raced => \A r, s \in hours[b] : r.by = s.by

WeekInv == BranchesInv /\ OneAuthor /\ \A c \in Client : WeekRead(c)

WeeksAreRight == IF area = "branches" THEN WeekInv ELSE BranchesInit

\* What leaves every week alone, and on c what it says of its own.
LEMMA WeekStays ==
  ASSUME WeekInv, BranchesInv', hours' = hours, raced \subseteq raced',
         NEW c \in Client, WeekRead(c)', \A d \in Client \ {c} : calls'[d] = calls[d]
  PROVE  WeekInv'
<1>1. OneAuthor'
  BY DEF WeekInv, OneAuthor
<1>2. \A d \in Client \ {c} : WeekRead(d)'
  BY DEF WeekInv, WeekRead
<1>3. QED  BY <1>1, <1>2 DEF WeekInv

LEMMA AnsweredWeek ==
  ASSUME WeekInv, BranchesInv', hours' = hours, NEW c \in Client, NEW STATE answer,
         Answer(c, answer) \/ AnswerAtOnce(c, answer)
  PROVE  WeekInv'
<1>1. /\ raced' = raced
      /\ calls'[c] = [op |-> "idle", keys |-> {}, answer |-> answer]
      /\ \A d \in Client \ {c} : calls'[d] = calls[d]
  BY AnswerRequest DEF WeekInv, BranchesInv
<1>2. WeekRead(c)'
  BY <1>1 DEF WeekRead
<1>3. QED  BY <1>1, <1>2, WeekStays

LEMMA BegunWeek ==
  ASSUME WeekInv, BranchesInv', hours' = hours, NEW c \in Client, NEW STATE op, NEW STATE keys,
         NEW STATE read, op \notin {"replace", "hours"}, Begin(c, op, keys, read)
  PROVE  WeekInv'
<1>1. /\ raced \subseteq raced'
      /\ calls'[c] = [op |-> op, keys |-> keys, read |-> read]
      /\ \A d \in Client \ {c} : calls'[d] = calls[d]
  BY BeginRequest DEF WeekInv, BranchesInv
<1>2. PICK o : o = op /\ o \notin {"replace", "hours"}
  OBVIOUS
<1>3. WeekRead(c)'
  BY <1>1, <1>2 DEF WeekRead
<1>4. QED  BY <1>1, <1>3, WeekStays

LEMMA ReplacingWeek ==
  ASSUME WeekInv, NEW c \in Client, NEW b \in DOMAIN branches, NEW week \in Weeks,
         ReplaceHours(c, b, week)
  PROVE  WeekInv'
<1>1. BranchesInv' /\ hours' = hours
  BY WizardBegins DEF WeekInv, ReplaceHours, venues
<1>2. PICK new : new = {[day |-> d, by |-> begun] : d \in week} /\ \A n, m \in new : n.by = m.by
  <2>1. \A n \in {[day |-> d, by |-> begun] : d \in week} : n.by = begun
    OBVIOUS
  <2>2. QED  BY <2>1
<1>3. PICK read : read = [branch |-> b, was |-> 0, old |-> hours[b], new |-> new]
  OBVIOUS
<1>4. PICK keys : keys = {<<"hours", b>>, <<"step", b>>}
  OBVIOUS
<1>5. Begin(c, "replace", keys, read) /\ RequestsInv
  BY <1>2, <1>3, <1>4 DEF ReplaceHours, WeekInv, BranchesInv
<1>6. /\ raced \subseteq raced'
      /\ calls'[c] = [op |-> "replace", keys |-> keys, read |-> read]
      /\ \A d \in Client \ {c} : calls'[d] = calls[d]
  BY <1>5, BeginRequest
<1>7. WeekRead(c)'
  BY <1>1, <1>2, <1>3, <1>4, <1>6 DEF WeekRead
<1>8. QED  BY <1>1, <1>6, <1>7, WeekStays

LEMMA ReadingWeek ==
  ASSUME WeekInv, NEW c \in Client, ReadStep(c)
  PROVE  WeekInv'
<1>1. BranchesInv' /\ BranchesInv
  BY ReadingKeeps DEF WeekInv
<1>2. PICK r : r = calls[c].read
  OBVIOUS
<1>3. PICK read : read = [branch |-> r.branch, was |-> branches[r.branch].step, old |-> r.old,
                          new |-> r.new]
  OBVIOUS
<1>4. /\ raced' = raced /\ calls[c].op = "replace" /\ hours' = hours
      /\ calls'[c] = [op |-> "hours", keys |-> calls[c].keys, read |-> read]
      /\ \A d \in Client \ {c} : calls'[d] = calls[d]
  BY <1>1, <1>2, <1>3, ReadingReads DEF venues
<1>5. WeekRead(c)'
  BY <1>2, <1>3, <1>4 DEF WeekRead, WeekInv
<1>6. QED  BY <1>1, <1>4, <1>5, WeekStays

\* Of a week that one request is about, the rows of that request are left.
LEMMA CommittingWeek ==
  ASSUME WeekInv, NEW c \in Client, CommitHours(c)
  PROVE  WeekInv'
<1>1. BranchesInv' /\ BranchesInv
  BY ScreenKeeps DEF WeekInv
<1>2. PICK r : r = calls[c].read
  OBVIOUS
<1>3. /\ calls[c].op = "hours" /\ Answer(c, Served)
      /\ hours' = [hours EXCEPT ![r.branch] = Replaced(@, r.old, r.new)]
  BY <1>2 DEF CommitHours
<1>4. /\ raced' = raced /\ calls'[c] = [op |-> "idle", keys |-> {}, answer |-> Served]
      /\ \A d \in Client \ {c} : calls'[d] = calls[d]
  BY <1>1, <1>3, AnswerRequest DEF BranchesInv
<1>5. /\ <<"hours", r.branch>> \in calls[c].keys
      /\ <<"hours", r.branch>> \notin raced => r.old = hours[r.branch]
      /\ \A n, m \in r.new : n.by = m.by
  BY <1>2, <1>3 DEF WeekInv, WeekRead
<1>6. hours = [b \in BranchIds |-> hours[b]]
  BY <1>1 DEF BranchesInv, VenuesTyped
<1>7. /\ \A b \in BranchIds : b # r.branch => hours'[b] = hours[b]
      /\ r.branch \in BranchIds => hours'[r.branch] = Replaced(hours[r.branch], r.old, r.new)
  BY <1>3, <1>6
<1>8. OneAuthor'
  <2>1. SUFFICES ASSUME NEW b \in BranchIds, <<"hours", b>> \notin raced
                 PROVE  \A x, y \in hours'[b] : x.by = y.by
    BY <1>4 DEF OneAuthor
  <2>2. CASE b = r.branch
    BY <1>5, <1>7, <2>1, <2>2 DEF Replaced
  <2>3. CASE b # r.branch
    BY <1>7, <2>1, <2>3 DEF WeekInv, OneAuthor
  <2>4. QED  BY <2>2, <2>3
<1>9. ASSUME NEW d \in Client \ {c}  PROVE WeekRead(d)'
  <2>1. WeekRead(d) /\ calls'[d] = calls[d] /\ calls[d].keys \cap calls[c].keys \subseteq raced
    BY <1>1, <1>4 DEF WeekInv, BranchesInv, RequestsInv
  <2>2. PICK s : s = calls[d].read
    OBVIOUS
  <2>3. CASE calls[d].op \in {"replace", "hours"} /\ s.branch # r.branch
    <3>1. hours'[s.branch] = hours[s.branch]
      BY <1>3, <1>6, <2>3
    <3>2. QED  BY <1>4, <2>1, <2>2, <3>1 DEF WeekRead
  <2>4. CASE calls[d].op \in {"replace", "hours"} /\ s.branch = r.branch
    <3>1. <<"hours", s.branch>> \in raced
      BY <1>5, <2>1, <2>2, <2>4 DEF WeekRead
    <3>2. QED  BY <1>4, <2>1, <2>2, <3>1 DEF WeekRead
  <2>5. CASE calls[d].op \notin {"replace", "hours"}
    BY <2>1, <2>5 DEF WeekRead
  <2>6. QED  BY <2>3, <2>4, <2>5
<1>10. WeekRead(c)'
  BY <1>4 DEF WeekRead
<1>11. QED  BY <1>1, <1>8, <1>9, <1>10 DEF WeekInv

LEMMA WeekStep ==
  ASSUME WeekInv, BranchesNext
  PROVE  WeekInv'
<1>1. BranchesInv'
  BY BranchesNextKeeps DEF WeekInv
<1>2. ASSUME NEW c \in Client, NEW u, NEW g, Start(c, u) \/ AddBranch(c, u, g)  PROVE WeekInv'
  BY <1>1, <1>2, AnsweredWeek, BegunWeek DEF Start, AddBranch, venues
<1>3. ASSUME NEW c \in Client, NEW b, NEW s, TakeStep(c, b, s) \/ CreateTables(c, b, s)
      PROVE  WeekInv'
  BY <1>1, <1>3, BegunWeek DEF TakeStep, CreateTables, venues
<1>4. ASSUME NEW c \in Client, NEW b, NEW s, Finish(c, b) \/ UpdateDetails(c, b, s)
      PROVE  WeekInv'
  BY <1>1, <1>4, AnsweredWeek, BegunWeek DEF Finish, UpdateDetails, venues
<1>5. ASSUME NEW c \in Client, FoundChain(c) \/ ApplyStep(c) \/ GoLive(c)
      PROVE  WeekInv'
  BY <1>1, <1>5, AnsweredWeek DEF FoundChain, ApplyStep, GoLive
<1>6. ASSUME NEW c \in Client, InsertTables(c)  PROVE WeekInv'
  BY <1>1, <1>6, AnsweredWeek DEF InsertTables
<1>7. QED
  BY <1>2, <1>3, <1>4, <1>5, <1>6, ReplacingWeek, ReadingWeek, CommittingWeek DEF BranchesNext

LEMMA WeekInitially == BranchesInit => OneAuthor
  BY DEF BranchesInit, OneAuthor

LEMMA WeeksStart == Init => WeeksAreRight
<1> SUFFICES ASSUME Init PROVE WeekInv /\ BranchesInit
  BY DEF WeeksAreRight
<1>1. BranchesInit /\ RequestsInv /\ \A c \in Client : calls[c].op = "idle"
  BY RequestsInitially DEF Init, RequestsInit, Idle
<1>2. QED  BY <1>1, BranchesInitially, WeekInitially DEF WeekInv, BranchesInv, AboutBranch, WeekRead

LEMMA WeeksStep == WeeksAreRight /\ [Next]_vars => WeeksAreRight'
<1> SUFFICES ASSUME WeeksAreRight, [Next]_vars PROVE WeeksAreRight'
  OBVIOUS
<1>1. CASE UNCHANGED vars
  <2>1. /\ calls' = calls /\ raced' = raced /\ area' = area /\ UNCHANGED venues
        /\ hours' = hours
    BY <1>1 DEF vars, requests, venues
  <2>2. BranchesInit => BranchesInit'
    BY <2>1 DEF BranchesInit, venues
  <2>3. CASE area = "branches"
    <3>1. WeekInv /\ BranchesAreRight
      BY <2>3 DEF WeeksAreRight, WeekInv, BranchesAreRight
    <3>2. BranchesInv'
      BY <2>1, <2>3, <3>1, BranchesStep DEF BranchesAreRight
    <3>3. WeekInv'
      BY <2>1, <3>1, <3>2 DEF WeekInv, OneAuthor, WeekRead
    <3>4. QED  BY <2>1, <2>3, <3>3 DEF WeeksAreRight
  <2>4. CASE area # "branches"
    BY <2>1, <2>2, <2>4 DEF WeeksAreRight
  <2>5. QED  BY <2>3, <2>4
<1>2. CASE Next /\ area = "branches"
  BY <1>2, StepOfArea, WeekStep DEF WeeksAreRight
<1>3. CASE Next /\ area # "branches"
  BY <1>3, StepOfArea DEF WeeksAreRight, BranchesInit, venues
<1>4. QED  BY <1>1, <1>2, <1>3

LEMMA WeeksInvariant == Spec => []WeeksAreRight
  BY WeeksStart, WeeksStep, PTL DEF Spec

\* A removed day does not survive (replace_working_hours): whatever the bodies
\* and however many requests, a week that two of them never raced for is that
\* of one.
LEMMA WeeksFromOneCall == WeeksAreRight => WeekFromOneCall
<1> SUFFICES ASSUME WeeksAreRight PROVE WeekFromOneCall
  OBVIOUS
<1>1. VenuesTyped /\ OneAuthor
  BY BranchesInitially, WeekInitially DEF WeeksAreRight, WeekInv, BranchesInv
<1>2. QED  BY <1>1, RowsOfBranches DEF OneAuthor, WeekFromOneCall
-----------------------------------------------------------------------------
(* The menu.                                                                  *)

OnePerBranch(rows) == \A r, s \in rows : r.at = s.at => r = s

\* The rows that the DELETE of a save in flight saw are all those that it has
\* to remove, unless another save of the dish is under way.
ShelfRead(c) ==
    LET r == calls[c].read IN
        calls[c].op = "shelve" =>
            /\ r.dish \in Dish /\ DOMAIN r.ticks \subseteq Outlet
            /\ <<"dish", r.dish>> \in calls[c].keys
            /\ <<"dish", r.dish>> \notin raced =>
                  r.gone = {<<s.at, s.row>> : s \in {t \in shelf[r.dish] : t.at \notin DOMAIN r.ticks}}

MenuInv ==
    /\ RequestsInv
    /\ dishes \in Dish /\ shelf = [d \in Dish |-> shelf[d]]
    /\ \A d \in Dish : /\ \A r \in shelf[d] : r.at \in Outlet
                       /\ OnePerBranch(shelf[d])
    /\ ShelfFromOneSave
    /\ \A c \in Client : ShelfRead(c)

\* What the other areas leave: the menu as it was.
MenuAtRest ==
    /\ dishes \in Dish
    /\ \A d \in Dish : /\ \A r \in shelf[d] : r.at \in Outlet
                       /\ OnePerBranch(shelf[d])
                       /\ \A r, s \in shelf[d] : r.by = s.by

MenuIsRight == IF area = "menu" THEN MenuInv ELSE MenuAtRest

LEMMA MenuInitially == Init => MenuInv /\ MenuAtRest
<1> SUFFICES ASSUME Init PROVE MenuInv /\ MenuAtRest
  OBVIOUS
<1>1. PICK t \in Ticks : DOMAIN t = Outlet /\ shelf = [d \in Dish |-> IF d = 1 THEN Rows(t, 0) ELSE {}]
  BY MenuAssumption DEF Init, MenuInit
<1>2. \A r \in Rows(t, 0) : r.at \in DOMAIN t /\ r = [at |-> r.at, price |-> t[r.at], row |-> 0, by |-> 0]
  BY DEF Rows
<1>3. \A r \in Rows(t, 0) : r.at \in Outlet /\ r.by = 0
  BY <1>1, <1>2
<1>4. OnePerBranch(Rows(t, 0))
  BY <1>2 DEF OnePerBranch
<1>5. \A d \in Dish : shelf[d] \in {Rows(t, 0), {}}
  BY <1>1
<1>6. \A d \in Dish : \A r, s \in shelf[d] : r.at \in Outlet /\ r.by = s.by
  BY <1>3, <1>5
<1>7. \A d \in Dish : OnePerBranch(shelf[d])
  BY <1>4, <1>5 DEF OnePerBranch
<1>8. RequestsInv /\ \A c \in Client : calls[c].op = "idle"
  BY RequestsInitially DEF Init, RequestsInit, Idle
<1>9. dishes \in Dish
  BY MenuAssumption DEF Init, MenuInit
<1>10. QED
  BY <1>1, <1>6, <1>7, <1>8, <1>9 DEF MenuInv, MenuAtRest, ShelfFromOneSave, ShelfRead

\* A step of c that leaves the shelves alone.
LEMMA ShelvesStay ==
  ASSUME MenuInv, RequestsInv', shelf' = shelf, dishes' \in Dish, raced \subseteq raced',
         NEW c \in Client, ShelfRead(c)', \A d \in Client \ {c} : calls'[d] = calls[d]
  PROVE  MenuInv'
<1>1. \A d \in Client \ {c} : ShelfRead(d)'
  BY DEF MenuInv, ShelfRead
<1>2. ShelfFromOneSave'
  BY DEF MenuInv, ShelfFromOneSave
<1>3. QED  BY <1>1, <1>2 DEF MenuInv

LEMMA AnsweredMenu ==
  ASSUME MenuInv, shelf' = shelf, dishes' \in Dish, NEW c \in Client, NEW STATE answer,
         Answer(c, answer) \/ AnswerAtOnce(c, answer)
  PROVE  MenuInv'
<1>1. /\ RequestsInv' /\ raced' = raced
      /\ calls'[c] = [op |-> "idle", keys |-> {}, answer |-> answer]
      /\ \A d \in Client \ {c} : calls'[d] = calls[d]
  BY AnswerRequest DEF MenuInv
<1>2. ShelfRead(c)'
  BY <1>1 DEF ShelfRead
<1>3. QED  BY <1>1, <1>2, ShelvesStay

LEMMA ShelvingBegins ==
  ASSUME MenuInv, NEW c \in Client, NEW d \in 1..dishes, NEW ticks \in Ticks,
         SetBranchAvailability(c, d, ticks)
  PROVE  MenuInv'
<1>1. PICK read : read = [dish |-> d, ticks |-> ticks, by |-> begun + 1,
              gone |-> {<<r.at, r.row>> : r \in {s \in shelf[d] : s.at \notin DOMAIN ticks}}]
  OBVIOUS
<1>2. Begin(c, "shelve", {<<"dish", d>>}, read) /\ UNCHANGED menu /\ RequestsInv
  BY <1>1 DEF SetBranchAvailability, MenuInv
<1>3. /\ RequestsInv' /\ raced \subseteq raced'
      /\ calls'[c] = [op |-> "shelve", keys |-> {<<"dish", d>>}, read |-> read]
      /\ \A e \in Client \ {c} : calls'[e] = calls[e]
  BY <1>2, BeginRequest, SMTT(30)
<1>4. d \in Dish /\ DOMAIN ticks \subseteq Outlet
  BY MenuAssumption DEF MenuInv
<1>5. shelf' = shelf /\ dishes' = dishes
  BY <1>2 DEF menu
<1>6. ShelfRead(c)'
  <2>1. /\ read.dish = d /\ read.ticks = ticks
        /\ read.gone = {<<s.at, s.row>> : s \in {t \in shelf[d] : t.at \notin DOMAIN ticks}}
    BY <1>1
  <2>2. calls'[c].read = read /\ <<"dish", d>> \in calls'[c].keys
    BY <1>3
  <2>3. QED  BY <1>4, <1>5, <2>1, <2>2 DEF ShelfRead
<1>7. QED  BY <1>3, <1>5, <1>6, ShelvesStay DEF MenuInv

\* What a save leaves in the rows of a dish.
LEMMA UpsertedRows ==
  ASSUME NEW rows, OnePerBranch(rows), NEW ticks, NEW by
  PROVE  /\ OnePerBranch(Upserted(rows, ticks, by))
         /\ \A r \in Upserted(rows, ticks, by) :
                \/ r \in rows /\ r.at \notin DOMAIN ticks
                \/ r.at \in DOMAIN ticks /\ r.by = by
<1> DEFINE row(v) == IF \E r \in rows : r.at = v THEN (CHOOSE r \in rows : r.at = v).row ELSE by
           kept == {r \in rows : r.at \notin DOMAIN ticks}
           written == {[at |-> v, price |-> ticks[v], by |-> by, row |-> row(v)] : v \in DOMAIN ticks}
<1>1. Upserted(rows, ticks, by) = kept \cup written
  BY DEF Upserted
<1> HIDE DEF row
<1>2. \A r \in written : r.at \in DOMAIN ticks /\ r.by = by
        /\ r = [at |-> r.at, price |-> ticks[r.at], by |-> by, row |-> row(r.at)]
  OBVIOUS
<1> HIDE DEF written
<1>3. \A r, s \in written : r.at = s.at => r = s
  BY <1>2
<1>4. QED  BY <1>1, <1>2, <1>3 DEF OnePerBranch

LEMMA ShelvingCommits ==
  ASSUME MenuInv, NEW c \in Client, CommitShelf(c)
  PROVE  MenuInv'
<1>1. PICK r : r = calls[c].read
  OBVIOUS
<1>2. PICK rows, left : rows = shelf[r.dish] /\ left = Unticked(rows, r.gone)
  OBVIOUS
<1>3. /\ calls[c].op = "shelve" /\ Answer(c, Served) /\ dishes' = dishes
      /\ shelf' = [shelf EXCEPT ![r.dish] = Upserted(Unticked(@, r.gone), r.ticks, r.by)]
  BY <1>1 DEF CommitShelf
<1>4. /\ RequestsInv' /\ raced' = raced /\ calls'[c] = [op |-> "idle", keys |-> {}, answer |-> Served]
      /\ \A d \in Client \ {c} : calls'[d] = calls[d]
  BY <1>3, AnswerRequest DEF MenuInv
<1>5. /\ r.dish \in Dish /\ DOMAIN r.ticks \subseteq Outlet /\ <<"dish", r.dish>> \in calls[c].keys
      /\ <<"dish", r.dish>> \notin raced =>
            r.gone = {<<s.at, s.row>> : s \in {t \in rows : t.at \notin DOMAIN r.ticks}}
  BY <1>1, <1>2, <1>3 DEF MenuInv, ShelfRead
<1>6. /\ shelf' = [d \in Dish |-> shelf'[d]]
      /\ shelf'[r.dish] = Upserted(left, r.ticks, r.by)
      /\ \A d \in Dish \ {r.dish} : shelf'[d] = shelf[d]
  BY <1>2, <1>3, <1>5 DEF MenuInv
<1>7. left \subseteq rows /\ OnePerBranch(left) /\ \A s \in left : s.at \in Outlet
  BY <1>2, <1>5 DEF MenuInv, Unticked, OnePerBranch
<1>8. OnePerBranch(shelf'[r.dish]) /\ \A s \in shelf'[r.dish] : s.at \in Outlet
  BY <1>5, <1>6, <1>7, UpsertedRows
<1>9. \A d \in Dish : OnePerBranch(shelf'[d]) /\ \A s \in shelf'[d] : s.at \in Outlet
  BY <1>6, <1>8 DEF MenuInv
<1>10. ASSUME <<"dish", r.dish>> \notin raced, NEW s \in left  PROVE s.at \in DOMAIN r.ticks
  <2>1. s \in rows /\ <<s.at, s.row>> \notin r.gone
    BY <1>2, <1>10 DEF Unticked
  <2>2. QED  BY <1>5, <1>10, <2>1
<1>11. <<"dish", r.dish>> \notin raced => \A s \in shelf'[r.dish] : s.by = r.by
  BY <1>6, <1>7, <1>10, UpsertedRows
<1>12. ShelfFromOneSave'
  BY <1>4, <1>6, <1>11 DEF MenuInv, ShelfFromOneSave
<1>13. ShelfRead(c)'
  BY <1>4 DEF ShelfRead
<1>14. ASSUME NEW d \in Client \ {c}  PROVE ShelfRead(d)'
  <2>1. ShelfRead(d) /\ calls'[d] = calls[d] /\ calls[d].keys \cap calls[c].keys \subseteq raced
    BY <1>4 DEF MenuInv, RequestsInv
  <2>2. PICK s : s = calls[d].read
    OBVIOUS
  <2>3. CASE calls[d].op = "shelve" /\ s.dish # r.dish
    <3>1. shelf'[s.dish] = shelf[s.dish]
      BY <1>6, <2>1, <2>2, <2>3 DEF ShelfRead
    <3>2. QED  BY <1>4, <2>1, <2>2, <3>1 DEF ShelfRead
  <2>4. CASE calls[d].op = "shelve" /\ s.dish = r.dish
    <3>1. <<"dish", s.dish>> \in raced
      BY <1>5, <2>1, <2>2, <2>4 DEF ShelfRead
    <3>2. QED  BY <1>4, <2>1, <2>2, <3>1 DEF ShelfRead
  <2>5. CASE calls[d].op # "shelve"
    BY <2>1, <2>5 DEF ShelfRead
  <2>6. QED  BY <2>3, <2>4, <2>5
<1>15. QED  BY <1>3, <1>4, <1>6, <1>9, <1>12, <1>13, <1>14 DEF MenuInv

LEMMA MenuStep ==
  ASSUME MenuInv, MenuNext
  PROVE  MenuInv'
<1>1. ASSUME NEW c \in Client, CreateItem(c)  PROVE MenuInv'
  <2>1. dishes' \in Dish /\ shelf' = shelf
    BY <1>1 DEF CreateItem
  <2>2. PICK n : n = dishes'
    OBVIOUS
  <2>3. AnswerAtOnce(c, Refused("not_found", n))
    BY <1>1, <2>2 DEF CreateItem
  <2>4. QED  BY <2>1, <2>3, AnsweredMenu
<1>2. ASSUME NEW c \in Client, NEW d \in 1..dishes, NEW v, ResolvePrice(c, d, v)  PROVE MenuInv'
  BY <1>2, AnsweredMenu DEF ResolvePrice, menu, MenuInv
<1>3. ASSUME NEW c \in Client, ShelfDeadlock(c)  PROVE MenuInv'
  BY <1>3, AnsweredMenu DEF ShelfDeadlock, menu, MenuInv
<1>4. QED
  BY <1>1, <1>2, <1>3, ShelvingBegins, ShelvingCommits DEF MenuNext

LEMMA MenuInvariant == Spec => []MenuIsRight
<1>1. Init => MenuIsRight
  BY MenuInitially DEF MenuIsRight
<1>2. MenuIsRight /\ [Next]_vars => MenuIsRight'
  <2> SUFFICES ASSUME MenuIsRight, [Next]_vars PROVE MenuIsRight'
    OBVIOUS
  <2>1. CASE UNCHANGED vars
    BY <2>1 DEF vars, requests, menu, MenuIsRight, MenuInv, MenuAtRest, RequestsInv, OnePerBranch,
       ShelfFromOneSave, ShelfRead
  <2>2. CASE Next /\ area = "menu"
    BY <2>2, StepOfArea, MenuStep DEF MenuIsRight
  <2>3. CASE Next /\ area # "menu"
    BY <2>3, StepOfArea DEF MenuIsRight, MenuAtRest, OnePerBranch, menu
  <2>4. QED  BY <2>1, <2>2, <2>3
<1>3. QED  BY <1>1, <1>2, PTL DEF Spec

\* What a PUT replaces as a whole stays whole: the week of a branch and the rows
\* of a dish are those of one request, whatever the bodies and however many of
\* them, unless two of them overlapped (replace_working_hours,
\* set_branch_availability).
THEOREM ReplacedInOnePiece == Spec => []ReplacedAsAWhole
<1>1. MenuIsRight => ShelfFromOneSave
  BY DEF MenuIsRight, MenuInv, MenuAtRest, ShelfFromOneSave
<1>2. QED  BY <1>1, WeeksFromOneCall, WeeksInvariant, MenuInvariant, PTL DEF ReplacedAsAWhole
-----------------------------------------------------------------------------
(* Types.                                                                     *)

LEMMA StaffTyped == Spec => []StaffTypeOK
<1> DEFINE PeopleTyped == people \in [Person -> {"none", "guest", "issued"}]
           Typed == PeopleTyped /\ StaffTypeOK
<1>1. ASSUME StaffInv, PeopleTyped  PROVE Typed
  <2>1. ASSUME NEW i \in DOMAIN jobs  PROVE jobs[i].group \in Groups /\ jobs[i].from \in 0..Len(invitations)
    <3>1. jobs[i] \in JobRow /\ JobOfInvitation(i) /\ Len(invitations) \in Nat
      BY <1>1, <2>1 DEF StaffInv
    <3>2. jobs[i].from # 0 => jobs[i].from \in 1..Len(invitations)
      BY <1>1, <3>1 DEF StaffInv, JobOfInvitation
    <3>3. QED  BY <3>1, <3>2 DEF JobRow
  <2>2. ASSUME NEW i \in DOMAIN invitations  PROVE invitations[i].state \in {"open", "accepted", "expired"}
    <3>1. invitations[i] \in InvitationRow
      BY <1>1, <2>2 DEF StaffInv
    <3>2. QED  BY <3>1 DEF InvitationRow
  <2>3. QED  BY <1>1, <2>1, <2>2 DEF StaffTypeOK
<1>2. Init => Typed /\ StaffIsRight
  BY <1>1, StaffInitially DEF Init, StaffInit, StaffIsRight
<1>3. Typed /\ StaffIsRight /\ StaffIsRight' /\ [Next]_vars => Typed'
  <2> SUFFICES ASSUME Typed, StaffIsRight, StaffIsRight', [Next]_vars  PROVE Typed'
    OBVIOUS
  <2>1. CASE UNCHANGED staff
    BY <2>1 DEF staff, StaffTypeOK
  <2>2. CASE Next /\ area = "staff"
    <3>1. StaffInv /\ StaffInv' /\ StaffNext
      BY <2>2, StepOfArea DEF StaffIsRight
    <3>2. people' = people \/ \E p : people' = [people EXCEPT ![p] = "issued"]
      BY <3>1, ZenonT(60) DEF StaffNext, Invite, SetActive, Accept, Redeem, Expire, staff
    <3>3. PeopleTyped'
      BY <3>2
    <3>4. (StaffInv /\ PeopleTyped => Typed)'
      BY <1>1, PTL
    <3>5. QED  BY <3>1, <3>3, <3>4
  <2>3. CASE Next /\ area # "staff"
    BY <2>1, <2>3, StepOfArea
  <2>4. CASE UNCHANGED vars
    BY <2>1, <2>4 DEF vars
  <2>5. QED  BY <2>2, <2>3, <2>4
<1>4. Spec => []StaffIsRight
  <2>1. Init => StaffIsRight
    BY StaffInitially DEF StaffIsRight
  <2>2. QED  BY <2>1, StaffStep, PTL DEF Spec
<1>5. Typed => StaffTypeOK
  OBVIOUS
<1> HIDE DEF Typed
<1>6. QED  BY <1>2, <1>3, <1>4, <1>5, PTL DEF Spec

\* A week is that of a branch, since nothing is removed from branches.
LEMMA BranchesTyped == Spec => []BranchesTypeOK
<1> DEFINE Placed == \A b \in BranchIds : hours[b] # {} => b \in DOMAIN branches
<1>1. BranchesAreRight /\ Placed => BranchesTypeOK
  <2> SUFFICES ASSUME BranchesAreRight, Placed  PROVE BranchesTypeOK
    OBVIOUS
  <2>1. VenuesTyped /\ ChainsKept
    BY AlwaysKept
  <2>2. ASSUME NEW b \in DOMAIN branches
        PROVE  /\ branches[b].step \in 0..STEP_DONE
               /\ branches[b].status \in {"draft", "active", "closed"}
    <3>1. branches[b] \in BranchRow
      BY <2>1 DEF VenuesTyped
    <3>2. QED  BY <3>1 DEF BranchRow, Steps
  <2>3. QED  BY <2>1, <2>2 DEF ChainsKept, BranchesTypeOK
<1>2. Init => Placed
  BY DEF Init, BranchesInit
<1>3. BranchesAreRight /\ BranchesAreRight' /\ Placed /\ [Next]_vars => Placed'
  <2> SUFFICES ASSUME BranchesAreRight, BranchesAreRight', Placed, [Next]_vars  PROVE Placed'
    OBVIOUS
  <2>1. CASE UNCHANGED venues
    BY <2>1 DEF venues
  <2>2. CASE Next /\ area = "branches"
    <3>1. BranchesInv /\ BranchesNext /\ VenuesTyped
      BY <2>2, StepOfArea DEF BranchesAreRight, BranchesInv
    <3>2. DOMAIN branches \subseteq DOMAIN branches'
      <4>1. ASSUME NEW row, branches' = Append(branches, row)  PROVE DOMAIN branches \subseteq DOMAIN branches'
        BY <3>1, <4>1 DEF VenuesTyped
      <4>2. CASE \E c \in Client : FoundChain(c)
        BY <4>1, <4>2 DEF FoundChain
      <4>3. CASE \E c \in Client : \E u, g : AddBranch(c, u, g)
        BY <4>1, <4>3 DEF AddBranch
      <4>4. CASE \E c \in Client : ApplyStep(c) \/ CommitHours(c) \/ GoLive(c)
        BY <4>4 DEF ApplyStep, CommitHours, GoLive
      <4>5. CASE \E c \in Client : \E b, status : UpdateDetails(c, b, status)
        BY <4>5 DEF UpdateDetails
      <4>6. CASE \E c \in Client : \/ InsertTables(c) \/ ReadStep(c) \/ \E u : Start(c, u) \/ Finish(c, u)
                                  \/ \E b, x : TakeStep(c, b, x) \/ ReplaceHours(c, b, x) \/ CreateTables(c, b, x)
        BY <4>6 DEF InsertTables, ReadStep, Start, Finish, TakeStep, ReplaceHours, CreateTables, venues
      <4>7. QED  BY <3>1, <4>2, <4>3, <4>4, <4>5, <4>6 DEF BranchesNext
    <3>3. CASE hours' = hours
      BY <3>2, <3>3
    <3>4. ASSUME NEW c \in Client, CommitHours(c)  PROVE Placed'
      <4>1. PICK b : b = calls[c].read.branch /\ b \in DOMAIN branches
        BY <3>1, <3>4 DEF CommitHours, BranchesInv, AboutBranch, StepRead
      <4>2. \A e \in BranchIds : e # b => hours'[e] = hours[e]
        BY <3>1, <3>4, <4>1 DEF CommitHours, VenuesTyped
      <4>3. QED  BY <3>2, <4>1, <4>2
    <3>5. hours' = hours \/ \E c \in Client : CommitHours(c)
      BY <3>1 DEF BranchesNext, Start, FoundChain, AddBranch, TakeStep, ApplyStep, ReplaceHours, ReadStep,
         Finish, GoLive, UpdateDetails, CreateTables, InsertTables, venues
    <3>6. QED  BY <3>3, <3>4, <3>5
  <2>3. CASE Next /\ area # "branches"
    BY <2>1, <2>3, StepOfArea
  <2>4. CASE UNCHANGED vars
    BY <2>1, <2>4 DEF vars
  <2>5. QED  BY <2>2, <2>3, <2>4
<1> HIDE DEF Placed
<1>4. QED  BY <1>1, <1>2, <1>3, BranchesInvariant, PTL DEF Spec

LEMMA MenuTyped == Spec => []MenuTypeOK
<1>1. MenuIsRight => MenuTypeOK
  BY DEF MenuIsRight, MenuInv, MenuAtRest, OnePerBranch, MenuTypeOK
<1>2. QED  BY <1>1, MenuInvariant, PTL
=============================================================================
