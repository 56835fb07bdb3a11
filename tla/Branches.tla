------------------------------ MODULE Branches ------------------------------
(***************************************************************************)
(* Chains and their branches (modules/venue_groups, modules/venues): the   *)
(* founding of a chain, further branches, the onboarding wizard, the week  *)
(* of opening hours with its open/closed badge, and the numbered tables.   *)
(* Addresses, prices and the other columns no rule looks at are left out.  *)
(***************************************************************************)
EXTENDS Requests

CONSTANTS
    User,        \* those who found chains
    Owner,       \* the one who has founded a chain already
    Admin,       \* a user who works in that chain with branch.create
    Weeks,       \* the bodies of PUT working-hours: sets of days
    Holidays,    \* the weekdays of the days with a special day that is closed
    DayHours,    \* the hours of a day
    Ahead,       \* how many hours the branches' clocks run ahead of the server's UTC
    Times,       \* the moments, by the branches' clocks, at which somebody asks
    MaxBranches,
    MaxTables    \* bound on the tables of one request

ASSUME BranchesAssumption ==
    /\ {Owner, Admin} \subseteq User /\ MaxBranches \in Nat \ {0} /\ MaxTables \in Nat
    /\ DayHours \in Nat \ {0} /\ Ahead \in Nat
    /\ \A t \in Times : t \in Nat /\ t >= Ahead
    /\ \A week \in Weeks : \A d \in week : d.opens \in Nat /\ d.closes \in Nat

VARIABLES
    groups,       \* the chains, in the order they were founded
    employments,  \* who works in which chain with branch.create
    branches,     \* the rows of venues
    hours,        \* hours[b]: the rows of venue_working_hours of branch b
    tables        \* tables[b]: the numbers of the tables of branch b

venues == <<groups, employments, branches, hours, tables>>

STEP_ADDRESS == 1
STEP_HOURS == 2
STEP_TABLES == 3
STEP_SERVICES == 4
STEP_MEDIA == 5
STEP_DONE == 6

DEFAULT_ZONES == {"ichkari", "tashqari"}

Branch(g, owner) ==
    [group |-> g, owner |-> owner, status |-> "draft", step |-> 0, zones |-> DEFAULT_ZONES]

BranchIds == 1..MaxBranches

BranchesInit ==
    /\ groups = <<[owner |-> Owner]>>
    /\ employments = {<<Owner, 1>>, <<Admin, 1>>}
    /\ branches = <<Branch(1, Owner)>>
    /\ hours = [b \in BranchIds |-> {}]
    /\ tables = [b \in BranchIds |-> <<>>]

Later(x, y) == IF x > y THEN x ELSE y

\* start: one chain per owner, by a check and no constraint; a second row makes
\* scalar_one_or_none raise.
Start(c, u) ==
    /\ LET owned == {g \in DOMAIN groups : groups[g].owner = u} IN
        CASE owned = {} -> Begin(c, "start", {<<"owner", u>>}, u)
          [] Cardinality(owned) = 1 -> AnswerAtOnce(c, Refused("group_exists", u))
          [] OTHER -> AnswerAtOnce(c, Refused("failed", u))
    /\ UNCHANGED venues

\* The chain, its first branch, the owner's employment and the zones.
FoundChain(c) ==
    /\ calls[c].op = "start"
    /\ Len(branches) < MaxBranches
    /\ LET u == calls[c].read
           g == Len(groups) + 1 IN
        /\ groups' = Append(groups, [owner |-> u])
        /\ employments' = employments \cup {<<u, g>>}
        /\ branches' = Append(branches, Branch(g, u))
    /\ Answer(c, Served)
    /\ UNCHANGED <<hours, tables>>

\* Mutant: the branch belongs to whoever opens it.
AddBranchOwnedByCaller(c, u, g) ==
    /\ Len(branches) < MaxBranches
    /\ <<u, g>> \in employments
    /\ AnswerAtOnce(c, Served)
    /\ branches' = Append(branches, Branch(g, u))
    /\ UNCHANGED <<groups, employments, hours, tables>>

\* add_branch, behind GroupPermissionRequired("branch.create"): owned by the
\* owner of the chain, whoever opens it.
AddBranch(c, u, g) ==
    /\ Len(branches) < MaxBranches
    /\ <<u, g>> \in employments
    /\ AnswerAtOnce(c, Served)
    /\ branches' = Append(branches, Branch(g, groups[g].owner))
    /\ UNCHANGED <<groups, employments, hours, tables>>

\* set_address and mark_*_done: read the step, then write the later of the two.
TakeStep(c, b, step) ==
    /\ Begin(c, "step", {<<"step", b>>}, [branch |-> b, step |-> step, was |-> branches[b].step])
    /\ UNCHANGED venues

\* Mutant: saving an earlier screen again goes back to it.
StepOfScreen(was, step) == step

\* The step a screen leaves behind: never an earlier one than it has read.
StepAfter(was, step) == Later(was, step)

ApplyStep(c) ==
    /\ calls[c].op = "step"
    /\ LET r == calls[c].read IN
        branches' = [branches EXCEPT ![r.branch].step = StepAfter(r.was, r.step)]
    /\ Answer(c, Served)
    /\ UNCHANGED <<groups, employments, hours, tables>>

\* PUT working-hours: the DELETE removes the rows it can see, the new ones are
\* added, and only then is the wizard's step read.
ReplaceHours(c, b, week) ==
    /\ Begin(c, "replace", {<<"hours", b>>, <<"step", b>>},
             [branch |-> b, was |-> 0, old |-> hours[b],
              new |-> {[day |-> d, by |-> begun] : d \in week}])
    /\ UNCHANGED venues

ReadStep(c) ==
    /\ calls[c].op = "replace"
    /\ Proceed(c, "hours", [calls[c].read EXCEPT !.was = branches[calls[c].read.branch].step])
    /\ UNCHANGED venues

\* Mutant: days that the new week does not name stay.
ReplacedDayByDay(rows, old, new) ==
    {r \in rows : ~\E n \in new : n.day.weekday = r.day.weekday} \cup new

\* The rows left after the DELETE with snapshot old, and the new ones.
Replaced(rows, old, new) == (rows \ old) \cup new

CommitHours(c) ==
    /\ calls[c].op = "hours"
    /\ LET r == calls[c].read IN
        /\ hours' = [hours EXCEPT ![r.branch] = Replaced(@, r.old, r.new)]
        /\ branches' = [branches EXCEPT ![r.branch].step = StepAfter(r.was, STEP_HOURS)]
    /\ Answer(c, Served)
    /\ UNCHANGED <<groups, employments, tables>>

\* finish: refused before the last screen; else live.
Finish(c, b) ==
    /\ IF branches[b].step < STEP_MEDIA THEN AnswerAtOnce(c, Refused("unfinished", b))
       ELSE Begin(c, "finish", {<<"step", b>>}, b)
    /\ UNCHANGED venues

GoLive(c) ==
    /\ calls[c].op = "finish"
    /\ branches' = [branches EXCEPT ![calls[c].read].status = "active",
                                    ![calls[c].read].step = STEP_DONE]
    /\ Answer(c, Served)
    /\ UNCHANGED <<groups, employments, hours, tables>>

\* update_details, whose body may carry a status.
UpdateDetails(c, b, status) ==
    /\ AnswerAtOnce(c, Served)
    /\ branches' = [branches EXCEPT ![b].status = status]
    /\ UNCHANGED <<groups, employments, hours, tables>>

\* coalesce(max(number), 0)
Highest(numbers) ==
    IF numbers = <<>> THEN 0
    ELSE LET taken == {numbers[i] : i \in DOMAIN numbers}
         IN  CHOOSE n \in taken : \A m \in taken : m <= n

\* bulk_create_from_counts: n tables from the highest number on.
CreateTables(c, b, n) ==
    /\ Begin(c, "tables", {<<"tables", b>>},
             [branch |-> b, next |-> Highest(tables[b]) + 1, count |-> n])
    /\ UNCHANGED venues

\* Mutant: no unique constraint on the numbers.
NumberedNever(b, n) == FALSE

\* UNIQUE (venue_id, number)
Numbered(b, n) == \E i \in DOMAIN tables[b] : tables[b][i] = n

\* All the rows or, if one number is taken by now, none of them.
InsertTables(c) ==
    /\ calls[c].op = "tables"
    /\ LET r == calls[c].read
           new == [i \in 1..r.count |-> r.next + i - 1] IN
        IF \E i \in DOMAIN new : Numbered(r.branch, new[i])
        THEN Answer(c, Refused("duplicate", r.branch)) /\ UNCHANGED tables
        ELSE Answer(c, Served) /\ tables' = [tables EXCEPT ![r.branch] = @ \o new]
    /\ UNCHANGED <<groups, employments, branches, hours>>

BranchesNext ==
    \E c \in Client :
        \/ \E u \in User : Start(c, u) \/ \E g \in DOMAIN groups : AddBranch(c, u, g)
        \/ \E b \in DOMAIN branches :
            \/ \E s \in {STEP_ADDRESS, STEP_TABLES, STEP_SERVICES, STEP_MEDIA} : TakeStep(c, b, s)
            \/ \E week \in Weeks : ReplaceHours(c, b, week)
            \/ Finish(c, b)
            \/ \E status \in {"active", "closed"} : UpdateDetails(c, b, status)
            \/ \E n \in 1..MaxTables : CreateTables(c, b, n)
        \/ FoundChain(c) \/ ApplyStep(c) \/ ReadStep(c) \/ CommitHours(c) \/ GoLive(c)
        \/ InsertTables(c)
-----------------------------------------------------------------------------
(* The badge.  A day is a weekday (Monday is 0) with its hours; closes before *)
(* opens means past midnight.  A moment is a number of hours since the start  *)
(* of some Monday, by one clock or another.                                   *)

WeekdayAt(m) == (m \div DayHours) % 7

TimeAt(m) == m % DayHours

Between(t, day) == ~day.closed /\ day.opens <= t /\ t <= day.closes

\* Mutant: the weekday's row is asked first.
OpenOnHolidays(b, m) ==
    LET today == {r \in hours[b] : r.day.weekday = WeekdayAt(m)}
    IN  IF today = {} THEN {FALSE} ELSE {Between(TimeAt(m), r.day) : r \in today}

\* _is_open_now_expression: a special day, else the row of the weekday, of which
\* the LIMIT 1 takes any, else closed.  It compares what it is given.
IsOpenAt(b, m) ==
    IF WeekdayAt(m) \in Holidays THEN {FALSE}
    ELSE LET today == {r \in hours[b] : r.day.weekday = WeekdayAt(m)}
         IN  IF today = {} THEN {FALSE} ELSE {Between(TimeAt(m), r.day) : r \in today}

\* The badge of search and get_detail: no route passes a local moment, so the
\* question is put for the server's UTC, which is behind the branch's clock.
Badges(b, local) == IsOpenAt(b, local - Ahead)

\* What the partner entered, on the branch's own clock.
OpenAsEntered(b, m) ==
    /\ WeekdayAt(m) \notin Holidays
    /\ \E r \in hours[b] :
        /\ r.day.weekday = WeekdayAt(m) /\ ~r.day.closed
        /\ IF r.day.opens <= r.day.closes THEN Between(TimeAt(m), r.day)
           ELSE TimeAt(m) >= r.day.opens

BranchesTypeOK ==
    /\ \A b \in DOMAIN branches :
        /\ branches[b].group \in DOMAIN groups
        /\ branches[b].step \in 0..STEP_DONE
        /\ branches[b].status \in {"draft", "active", "closed"}
    /\ \A b \in BranchIds : hours[b] # {} => b \in DOMAIN branches

\* "One chain per owner", unless two requests founded one at the same time; and
\* a branch belongs to the owner of its chain, who works there, and has the two
\* zones, whichever of the two ways it was born.
ChainsAreWhole ==
    /\ \A g, h \in DOMAIN groups :
        g # h /\ groups[g].owner = groups[h].owner => <<"owner", groups[g].owner>> \in raced
    /\ \A g \in DOMAIN groups :
        /\ <<groups[g].owner, g>> \in employments
        /\ \E b \in DOMAIN branches : branches[b].group = g
    /\ \A b \in DOMAIN branches :
        /\ branches[b].owner = groups[branches[b].group].owner
        /\ branches[b].zones = DEFAULT_ZONES

\* "Going back and re-saving an earlier screen does not rewind it": the step of
\* a branch falls only if two requests about it overlapped.
WizardNeverRewinds ==
    [][\A b \in DOMAIN branches :
        branches'[b].step < branches[b].step => <<"step", b>> \in raced]_<<venues, requests>>

\* "A removed day cannot survive as a stale row": the week is the week of one
\* request, unless two of them overlapped, which no constraint prevents.
WeekFromOneCall ==
    \A b \in DOMAIN branches :
        <<"hours", b>> \notin raced => \A r, s \in hours[b] : r.by = s.by

\* The tables of a branch are numbered from one without gaps or repetitions,
\* however the requests overlap.
TablesNumberedOnce ==
    \A b \in DOMAIN branches : tables[b] = [i \in 1..Len(tables[b]) |-> i]

\* Asked about a local moment, as for a booking, the hours never open a branch
\* that is shut as entered, whatever rows two replacements left, though one that
\* is open past midnight they never open.  The badge, asked in UTC, can open a
\* shut branch, but only late: one that was open within the last Ahead hours.
OpenOnlyAsEntered ==
    \A b \in DOMAIN branches, t \in Times :
        /\ TRUE \in IsOpenAt(b, t) => OpenAsEntered(b, t)
        /\ TRUE \in Badges(b, t) => \E m \in t - Ahead .. t : OpenAsEntered(b, m)

\* "A branch cannot go live without the hours that the open/closed badge is
\* computed from" (venue_onboarding_service.py:285-286).
LiveBranchHasHours ==
    \A b \in DOMAIN branches : branches[b].status = "active" => hours[b] # {}
=============================================================================
