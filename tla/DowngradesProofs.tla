-------------------------- MODULE DowngradesProofs --------------------------
(* Machine-checked theorems about refusals: which ways up and which ways back  *)
(* PostgreSQL can refuse, for any releases, any rows that they write and erase *)
(* and any number of replicas, deployments, downgrades and crashes.            *)
EXTENDS MigrationsProofs
-----------------------------------------------------------------------------
(* A deployment is refused by rows only.                                      *)

\* A way that is under way has rows that fit where it is; the way up of a
\* deployment finds its obstacles among the committed rows.
WayFits(t, rows) ==
    /\ t.work.ok => RowsFit(t.work) /\ SeedsLate(t.work.rows, t.at)
    /\ t.by \in Container =>
           /\ t.at <= t.to
           /\ t.work.ok /\ t.at < 29 => t.work.rows \cap Obstacles \subseteq rows
           /\ ~t.work.ok => rows \cap Obstacles # {}

CauseInv ==
    /\ FollowsInv
    /\ RowsFit(db.state) /\ SeedsLate(db.state.rows, db.rev)
    /\ transaction # NoTransaction => WayFits(transaction, db.state.rows)
    /\ RefusedForCause

LEMMA CauseInitially == Init => CauseInv
<1> SUFFICES ASSUME Init  PROVE CauseInv
  OBVIOUS
<1>1. /\ db.state.schema = {} /\ db.state.rows = {} /\ db.rev = 0 /\ transaction = NoTransaction
      /\ \A c \in Container : containers[c] = Stopped
  BY DEF Init, Empty
<1>2. RowsFit(db.state) /\ SeedsLate(db.state.rows, db.rev)
  BY <1>1 DEF RowsFit, RowsStand, SeedsLate
<1>3. RefusedForCause
  BY <1>1 DEF RefusedForCause, Stopped
<1>4. QED  BY <1>1, <1>2, <1>3, FollowsInitially DEF CauseInv

LEMMA CauseRevising ==
  ASSUME CauseInv, Revise
  PROVE  CauseInv'
<1>1. FollowsInv' /\ FollowsInv
  BY FollowsRevising DEF CauseInv
<1>2. /\ transaction # NoTransaction /\ transaction.at # transaction.to /\ transaction.work.ok
      /\ db' = db /\ containers' = containers
  BY DEF Revise
<1>3. PICK by, at, to, work :
        /\ transaction = [by |-> by, at |-> at, to |-> to, work |-> work]
        /\ at \in 0..31 /\ to \in 0..31 /\ IsState(work) /\ work.ok /\ at # to
        /\ Follows(work.schema, at)
  BY <1>1, <1>2, NewestIsLast DEF FollowsInv, MigrationsInv, TransactionFits, InTransaction
<1>4. PICK rows : rows = db.state.rows
  OBVIOUS
<1>5. /\ RowsFit(work) /\ SeedsLate(work.rows, at)
      /\ by \in Container => at < to /\ (at < 29 => work.rows \cap Obstacles \subseteq rows)
  <2>1. WayFits([by |-> by, at |-> at, to |-> to, work |-> work], rows)
    BY <1>2, <1>3, <1>4 DEF CauseInv
  <2>2. QED  BY <1>3, <2>1 DEF WayFits
<1>6. /\ (RowsFit(db.state) /\ SeedsLate(db.state.rows, db.rev))'
      /\ RefusedForCause' /\ db'.state.rows = rows
  BY <1>2, <1>4 DEF CauseInv, RefusedForCause
<1>7. ASSUME NEW next \in Nat, NEW result,
             transaction' = [transaction EXCEPT !.at = next, !.work = result],
             result.ok => RowsFit(result) /\ SeedsLate(result.rows, next),
             by \in Container => /\ next <= to
                                 /\ result.ok /\ next < 29 => result.rows \cap Obstacles \subseteq rows
                                 /\ ~result.ok => rows \cap Obstacles # {}
      PROVE  CauseInv'
  <2>1. transaction' = [by |-> by, at |-> next, to |-> to, work |-> result]
    BY <1>3, <1>7
  <2>2. WayFits([by |-> by, at |-> next, to |-> to, work |-> result], rows)
    BY <1>7 DEF WayFits
  <2>3. WayFits(transaction', db'.state.rows)
    BY <1>6, <2>1, <2>2
  <2>4. QED  BY <1>1, <1>6, <2>3 DEF CauseInv
<1>8. CASE at < to
  <2>1. at \in 0..30 /\ at + 1 \in Nat
    BY <1>3, <1>8
  <2>2. PICK result : result = Run(Upgrades[at + 1], work)
    OBVIOUS
  <2>3. transaction' = [transaction EXCEPT !.at = at + 1, !.work = result]
    BY <1>3, <1>8, <2>2 DEF Revise
  <2>4. result.ok => /\ RowsFit(result) /\ SeedsLate(result.rows, at + 1)
                     /\ at + 1 < 29 => result.rows \cap Obstacles \subseteq work.rows
    BY <1>3, <1>5, <2>1, <2>2, UpFits
  <2>5. ~result.ok => at < 29 /\ work.rows \cap Obstacles # {}
    BY <1>3, <1>5, <2>1, <2>2, UpAccepted
  <2>6. by \in Container => /\ at + 1 <= to
                            /\ result.ok /\ at + 1 < 29 => result.rows \cap Obstacles \subseteq rows
                            /\ ~result.ok => rows \cap Obstacles # {}
    BY <1>3, <1>5, <1>8, <2>4, <2>5
  <2>7. QED  BY <1>7, <2>1, <2>3, <2>4, <2>6
<1>9. CASE ~(at < to)
  <2>1. at \in 1..31 /\ at - 1 \in Nat
    BY <1>3, <1>9
  <2>2. PICK result : result = Run(Downgrades[at], work)
    OBVIOUS
  <2>3. transaction' = [transaction EXCEPT !.at = at - 1, !.work = result]
    BY <1>3, <1>9, <2>2 DEF Revise
  <2>4. result.ok => RowsFit(result) /\ SeedsLate(result.rows, at - 1)
    BY <1>3, <1>5, <2>1, <2>2, DownFits
  <2>5. by \notin Container
    BY <1>5, <1>9
  <2>6. QED  BY <1>7, <2>1, <2>3, <2>4, <2>5
<1>10. QED  BY <1>8, <1>9

\* A row that the application leaves passes the checks, in a table that is there.
LEMMA CauseWriting ==
  ASSUME CauseInv, NEW c \in Container, NEW w \in Written, WriteRow(c, w)
  PROVE  CauseInv'
<1>1. MigrationsInv /\ FollowsInv
  BY DEF CauseInv, FollowsInv
<1>2. PICK rev, schema,
        rows : db = [rev |-> rev, state |-> [schema |-> schema, rows |-> rows, ok |-> TRUE]]
  BY <1>1 DEF MigrationsInv, IsState
<1>3. /\ db' = [rev |-> rev, state |-> [schema |-> schema, rows |-> rows \cup {w}, ok |-> TRUE]]
      /\ transaction' = NoTransaction /\ containers' = containers
  BY <1>2 DEF WriteRow
<1>4. db.state.rows = rows /\ db.state.schema = schema /\ db.rev = rev
  BY <1>2
<1>5. db'.state.rows = rows \cup {w} /\ db'.state.schema = schema /\ db'.rev = rev
  BY <1>3
<1>6. w.table \in Tables(schema) /\ \A o \in schema : Admits(o, {w})
  BY <1>4 DEF WriteRow
<1>7. w \in RowsThatMatter
  BY MigrationsAssumption DEF Written
<1>8. /\ rows \subseteq RowsThatMatter \cup SeedRows /\ SeedsLate(rows, rev)
      /\ \A v \in rows : v.table \in Tables(schema)
      /\ \A o \in schema : Admits(o, rows)
  BY <1>4 DEF CauseInv, RowsFit, RowsStand
<1>9. \A o \in schema : Admits(o, rows \cup {w})
  BY <1>6, <1>8, AdmitsBoth
<1>10. RowsFit(db'.state)
  BY <1>5, <1>6, <1>7, <1>8, <1>9 DEF RowsFit, RowsStand
<1>11. SeedsLate(db'.state.rows, db'.rev)
  <2>1. \A v \in FirstSeeds : v.column = "slug"
    BY SeedIs DEF FirstSeeds
  <2>2. w.column # "slug"
    BY <1>7, SeedsDiffer
  <2>3. QED  BY <1>5, <1>8, <2>1, <2>2, SeedIs DEF SeedsLate
<1>12. FollowsInv'
  <2>1. Next
    BY DEF Next
  <2>2. QED  BY <1>1, <2>1, FollowsNext
<1>13. RefusedForCause'
  BY <1>3 DEF CauseInv, RefusedForCause
<1>14. QED  BY <1>3, <1>10, <1>11, <1>12, <1>13 DEF CauseInv

\* Fewer rows fit where more did.
LEMMA CauseErasing ==
  ASSUME CauseInv, NEW c \in Container, NEW w \in Erased, EraseRow(c, w)
  PROVE  CauseInv'
<1>1. MigrationsInv /\ FollowsInv
  BY DEF CauseInv, FollowsInv
<1>2. PICK rev, schema, rows : rev = db.rev /\ schema = db.state.schema /\ rows = db.state.rows
  OBVIOUS
<1>3. /\ db'.state.rows = rows \ {w} /\ db'.state.schema = schema /\ db'.rev = rev
      /\ transaction' = NoTransaction /\ containers' = containers
  BY <1>1, <1>2, ErasingIs
<1>4. /\ rows \subseteq RowsThatMatter \cup SeedRows /\ SeedsLate(rows, rev)
      /\ \A v \in rows : v.table \in Tables(schema)
      /\ \A o \in schema : Admits(o, rows)
  BY <1>2 DEF CauseInv, RowsFit, RowsStand
<1>5. \A o \in schema : Admits(o, rows \ {w})
  BY <1>4, AdmitsFewer
<1>6. RowsFit(db'.state)
  BY <1>3, <1>4, <1>5 DEF RowsFit, RowsStand
<1>7. SeedsLate(db'.state.rows, db'.rev)
  BY <1>3, <1>4 DEF SeedsLate
<1>8. FollowsInv'
  <2>1. Next
    BY DEF Next
  <2>2. QED  BY <1>1, <2>1, FollowsNext
<1>9. RefusedForCause'
  BY <1>3 DEF CauseInv, RefusedForCause
<1>10. QED  BY <1>3, <1>6, <1>7, <1>8, <1>9 DEF CauseInv

LEMMA CauseNext == CauseInv /\ [Next]_vars => CauseInv'
<1> SUFFICES ASSUME CauseInv, [Next]_vars PROVE CauseInv'
  OBVIOUS
<1>1. FollowsInv /\ FollowsInv' /\ MigrationsInv
  BY FollowsNext DEF CauseInv, FollowsInv
<1>2. PICK state, rev : state = db.state /\ rev = db.rev
  OBVIOUS
<1>3. RowsFit(state) /\ SeedsLate(state.rows, rev)
  BY <1>2 DEF CauseInv
<1>4. ASSUME NEW c, NEW what, Become(c, what), what.op # "refused"
      PROVE  RefusedForCause'
  <2>1. containers = [d \in Container |-> containers[d]]
    BY <1>1 DEF MigrationsInv, ReplicasTyped
  <2>2. \A d \in Container : containers'[d] = what \/ containers'[d] = containers[d]
    BY <1>4, <2>1 DEF Become
  <2>3. QED  BY <1>4, <2>2 DEF CauseInv, RefusedForCause
<1>5. containers' = containers => RefusedForCause'
  BY DEF CauseInv, RefusedForCause
<1>6. ASSUME db' = db, transaction' = transaction \/ transaction' = NoTransaction, RefusedForCause'
      PROVE  CauseInv'
  <2>1. PICK t : t = transaction
    OBVIOUS
  <2>2. t # NoTransaction => WayFits(t, state.rows)
    BY <1>2, <2>1 DEF CauseInv
  <2>3. db'.state = state /\ db'.rev = rev
    BY <1>2, <1>6
  <2>4. QED  BY <1>1, <1>3, <1>6, <2>1, <2>2, <2>3 DEF CauseInv
<1>7. ASSUME NEW by, NEW to, Begin(by, db.rev, to), db' = db, containers' = containers,
             by \in Container => rev <= to
      PROVE  CauseInv'
  <2>1. transaction' = [by |-> by, at |-> rev, to |-> to, work |-> state]
    BY <1>2, <1>7 DEF Begin
  <2>2. state.ok
    BY <1>1, <1>2 DEF MigrationsInv
  <2>3. WayFits([by |-> by, at |-> rev, to |-> to, work |-> state], state.rows)
    BY <1>3, <1>7, <2>2 DEF WayFits
  <2>4. db'.state = state /\ db'.rev = rev
    BY <1>2, <1>7
  <2>5. QED  BY <1>1, <1>3, <1>5, <1>7, <2>1, <2>3, <2>4 DEF CauseInv
<1>8. CASE Commit
  <2>1. PICK t : t = transaction
    OBVIOUS
  <2>2. /\ t # NoTransaction /\ t.at = t.to /\ t.work.ok
        /\ db' = [rev |-> t.to, state |-> t.work] /\ transaction' = NoTransaction
    BY <1>8, <2>1 DEF Commit
  <2>3. RowsFit(t.work) /\ SeedsLate(t.work.rows, t.at)
    BY <2>1, <2>2 DEF CauseInv, WayFits
  <2>4. PICK work, to : work = t.work /\ to = t.to
    OBVIOUS
  <2>5. db'.state = work /\ db'.rev = to
    BY <2>2, <2>4
  <2>6. RefusedForCause'
    <3>1. CASE transaction.by = Operator
      BY <1>5, <1>8, <3>1 DEF Commit
    <3>2. CASE transaction.by # Operator
      <4>1. Become(transaction.by, [op |-> "serving", image |-> transaction.to])
        BY <1>8, <3>2 DEF Commit
      <4>2. QED  BY <1>4, <4>1
    <3>3. QED  BY <3>1, <3>2
  <2>7. QED  BY <1>1, <2>2, <2>3, <2>4, <2>5, <2>6 DEF CauseInv
<1>9. CASE Rollback
  <2>1. /\ transaction # NoTransaction /\ ~transaction.work.ok
        /\ transaction' = NoTransaction /\ db' = db
    BY <1>9 DEF Rollback
  <2>2. CASE transaction.by = Operator
    BY <1>5, <1>6, <1>9, <2>1, <2>2 DEF Rollback
  <2>3. CASE transaction.by # Operator
    <3>1. PICK c, to : c = transaction.by /\ to = transaction.to
      OBVIOUS
    <3>2. c \in Container
      BY <1>1, <2>1, <2>3, <3>1 DEF MigrationsInv, TransactionFits, InTransaction
    <3>3. state.rows \cap Obstacles # {}
      BY <1>2, <2>1, <3>1, <3>2 DEF CauseInv, WayFits
    <3>4. Become(c, [op |-> "refused", image |-> to, rows |-> state.rows])
      BY <1>2, <1>9, <2>3, <3>1 DEF Rollback
    <3>5. containers = [d \in Container |-> containers[d]]
      BY <1>1 DEF MigrationsInv, ReplicasTyped
    <3>6. \A d \in Container :
            \/ containers'[d] = [op |-> "refused", image |-> to, rows |-> state.rows]
            \/ containers'[d] = containers[d]
      BY <3>4, <3>5 DEF Become
    <3>7. RefusedForCause'
      BY <3>3, <3>6 DEF CauseInv, RefusedForCause
    <3>8. QED  BY <1>6, <2>1, <3>7
  <2>4. QED  BY <2>2, <2>3
<1>10. ASSUME NEW c \in Container, BeginUpgrade(c)  PROVE CauseInv'
  <2>1. /\ containers[c].op = "migrating" /\ containers[c].from = db.rev
        /\ Begin(c, db.rev, containers[c].image) /\ db' = db /\ containers' = containers
    BY <1>10 DEF BeginUpgrade, Begin
  <2>2. containers[c].image \in Nat /\ db.rev \in Nat /\ db.rev < containers[c].image
    BY <1>1, <2>1, MigrationsAssumption DEF MigrationsInv, ReplicasTyped
  <2>3. QED  BY <1>2, <1>7, <2>1, <2>2
<1>11. ASSUME NEW to \in Targets, BeginDowngrade(to)  PROVE CauseInv'
  <2>1. Begin(Operator, db.rev, to) /\ db' = db /\ containers' = containers
    BY <1>11 DEF BeginDowngrade
  <2>2. Operator \notin Container
    BY MigrationsAssumption
  <2>3. QED  BY <1>7, <2>1, <2>2
<1>12. ASSUME NEW c \in Container, NEW image,
              Deploy(c, image) \/ ReadVersion(c) \/ LoseRace(c) \/ Crash(c)
       PROVE  CauseInv'
  <2>1. db' = db /\ (transaction' = transaction \/ transaction' = NoTransaction)
    BY <1>12 DEF Deploy, ReadVersion, LoseRace, Crash
  <2>2. PICK what : Become(c, what) /\ what.op # "refused"
    <3>1. ReadVersion(c) => \E what : Become(c, what) /\ what.op # "refused"
      <4> DEFINE image1 == containers[c].image
                 what == CASE db.rev = image1 -> [op |-> "serving", image |-> image1]
                    [] db.rev < image1 -> [op |-> "migrating", image |-> image1, from |-> db.rev]
                    [] OTHER          -> [op |-> "outdated", image |-> image1]
      <4>1. ReadVersion(c) => Become(c, what)
        BY DEF ReadVersion
      <4>2. what.op # "refused"
        OBVIOUS
      <4> HIDE DEF what
      <4>3. QED  BY <4>1, <4>2
    <3>2. Deploy(c, image) => \E what : Become(c, what) /\ what.op # "refused"
      BY DEF Deploy
    <3>3. LoseRace(c) \/ Crash(c) => Become(c, [op |-> "starting", image |-> containers[c].image])
      BY DEF LoseRace, Crash
    <3>4. [op |-> "starting", image |-> containers[c].image].op # "refused"
      OBVIOUS
    <3>5. QED  BY <1>12, <3>1, <3>2, <3>3, <3>4
  <2>3. QED  BY <1>4, <1>6, <2>1, <2>2
<1>13. CASE UNCHANGED vars
  BY <1>5, <1>6, <1>13 DEF vars
<1>14. CASE Next
  BY <1>8, <1>9, <1>10, <1>11, <1>12, <1>14, CauseRevising, CauseWriting, CauseErasing DEF Next
<1>15. QED  BY <1>13, <1>14

\* Whatever the releases, the rows they leave, the ways back and the crashes, a
\* deployment is refused by one of four rows only: the way up that stopped found
\* it among the committed ones.
THEOREM DeploymentsRefusedForCause == Spec => []RefusedForCause
<1>1. CauseInv => RefusedForCause
  BY DEF CauseInv
<1>2. QED  BY <1>1, CauseInitially, CauseNext, PTL DEF Spec
-----------------------------------------------------------------------------

(* Up to the twentieth revision, a way back drops in the reverse order what   *)
(* the way up has created: the numbers of the statements of the way up.       *)

Undone == <<
    <<>>, <<1>>, <<3, 2, 1>>, <<9, 8, 7, 6, 5, 3, 1>>, <<4, 3, 2, 1>>, <<3, 1>>,
    <<12, 11, 10, 9, 8, 7, 6, 5, 4, 3, 2, 1>>, <<7, 5, 4, 3, 2, 1>>, <<8, 7, 6, 5, 4, 3, 2, 1>>, <<5, 4, 3, 1>>,
    <<6, 5, 4, 2, 1>>, <<3, 2, 1>>, <<10, 9, 8, 7, 5, 4, 3, 1>>, <<5, 4, 3, 2, 1>>, <<4, 2, 1>>, <<3, 2, 1>>,
    <<5, 4, 3, 2, 1>>, <<1>>, <<>>, <<1>>>>

\* A statement of the way back takes back one of the way up.
TakesBack(d, u) ==
    \/ \E t, R, I, J : u = Create(t, R, I) /\ d = Drop(t, J) /\ J \subseteq I
    \/ \E t, q : u = Add({ForeignKey(t, q)}) /\ d = Remove({ForeignKey(t, q)})

LastFirst(r) ==
    /\ Len(Undone[r]) = Len(Downgrades[r])
    /\ \A k \in 1..Len(Downgrades[r]) :
           /\ Undone[r][k] \in 1..Len(Upgrades[r])
           /\ TakesBack(Downgrades[r][k], Upgrades[r][Undone[r][k]])
           /\ \A i \in 1..Len(Downgrades[r]) : i < k => Undone[r][i] > Undone[r][k]

LEMMA DropTakesBack ==
  ASSUME NEW t, NEW R, NEW I, NEW J, J \subseteq I
  PROVE  TakesBack(Drop(t, J), Create(t, R, I))
  BY DEF TakesBack

LEMMA KeyTakesBack == \A t, q : TakesBack(Remove({ForeignKey(t, q)}), Add({ForeignKey(t, q)}))
  BY DEF TakesBack

LEMMA FirstLastFirst == \A r \in 1..6 : r # 19 => LastFirst(r)
<1>1. LastFirst(1)
  <2>1. Upgrades[1] = ExtensionsUp /\ Downgrades[1] = ExtensionsDown /\ Undone[1] = <<>>
    BY DEF Upgrades, Downgrades, Undone
  <2>2. Len(ExtensionsUp) = 0 /\ Len(ExtensionsDown) = 0
    BY DEF ExtensionsUp, ExtensionsDown
  <2>4. \A k \in 1..0 : TakesBack(Downgrades[1][k], Upgrades[1][Undone[1][k]])
    BY <2>1, DropTakesBack, KeyTakesBack DEF ExtensionsUp, ExtensionsDown
  <2>5. QED  BY <2>1, <2>2, <2>4 DEF LastFirst
<1>2. LastFirst(2)
  <2>1. Upgrades[2] = LocalizationUp /\ Downgrades[2] = LocalizationDown /\ Undone[2] = <<1>>
    BY DEF Upgrades, Downgrades, Undone
  <2>2. Len(LocalizationUp) = 1 /\ Len(LocalizationDown) = 1
    BY DEF LocalizationUp, LocalizationDown
  <2>4. \A k \in 1..1 : TakesBack(Downgrades[2][k], Upgrades[2][Undone[2][k]])
    BY <2>1, DropTakesBack, KeyTakesBack DEF LocalizationUp, LocalizationDown
  <2>5. QED  BY <2>1, <2>2, <2>4 DEF LastFirst
<1>3. LastFirst(3)
  <2>1. Upgrades[3] = GeoUp /\ Downgrades[3] = GeoDown /\ Undone[3] = <<3, 2, 1>>
    BY DEF Upgrades, Downgrades, Undone
  <2>2. Len(GeoUp) = 3 /\ Len(GeoDown) = 3
    BY DEF GeoUp, GeoDown
  <2>4. \A k \in 1..3 : TakesBack(Downgrades[3][k], Upgrades[3][Undone[3][k]])
    BY <2>1, DropTakesBack, KeyTakesBack DEF GeoUp, GeoDown
  <2>5. QED  BY <2>1, <2>2, <2>4 DEF LastFirst
<1>4. LastFirst(4)
  <2>1. /\ Upgrades[4] = AuthUsers \o AuthSessions
        /\ Downgrades[4] = AuthDown
        /\ Undone[4] = <<9, 8, 7, 6, 5, 3, 1>>
    BY DEF Upgrades, Downgrades, Undone
  <2>2. Len(AuthUsers \o AuthSessions) = 9 /\ Len(AuthDown) = 7
    BY DEF AuthUsers, AuthSessions, AuthDown
  <2>3. /\ Upgrades[4][1] = Create("users", {"districts", "languages"}, {})
        /\ Upgrades[4][3] = Create("auth_identities", {"users"}, {"user_id"})
        /\ Upgrades[4][5] = Create("devices", {"users"}, {"user_id"})
        /\ Upgrades[4][6] = Create("friendships", {"users"}, {"addressee_id", "requester_id"})
        /\ Upgrades[4][7] = Create("verification_codes", {"users"}, {"destination_purpose_created_at"})
        /\ Upgrades[4][8] = Create("refresh_tokens", {"devices", "users"}, {"user_id"})
        /\ Upgrades[4][9] = Add({ForeignKey("user_recent_locations", "users")})
    BY <2>1 DEF AuthUsers, AuthSessions
  <2>4. /\ TakesBack(AuthDown[1], Add({ForeignKey("user_recent_locations", "users")}))
        /\ TakesBack(AuthDown[2], Create("refresh_tokens", {"devices", "users"}, {"user_id"}))
        /\ TakesBack(AuthDown[3], Create("verification_codes", {"users"},
                                        {"destination_purpose_created_at"}))
        /\ TakesBack(AuthDown[4], Create("friendships", {"users"}, {"addressee_id", "requester_id"}))
        /\ TakesBack(AuthDown[5], Create("devices", {"users"}, {"user_id"}))
        /\ TakesBack(AuthDown[6], Create("auth_identities", {"users"}, {"user_id"}))
        /\ TakesBack(AuthDown[7], Create("users", {"districts", "languages"}, {}))
    BY DropTakesBack, KeyTakesBack DEF AuthDown
  <2>5. \A k \in 1..7 : k \in {1, 2, 3, 4, 5, 6, 7}
    OBVIOUS
  <2>6. /\ Undone[4][1] = 9
        /\ Undone[4][2] = 8
        /\ Undone[4][3] = 7
        /\ Undone[4][4] = 6
        /\ Undone[4][5] = 5
        /\ Undone[4][6] = 3
        /\ Undone[4][7] = 1
    BY <2>1
  <2>7. /\ TakesBack(Downgrades[4][1], Upgrades[4][9])
         /\ TakesBack(Downgrades[4][2], Upgrades[4][8])
         /\ TakesBack(Downgrades[4][3], Upgrades[4][7])
         /\ TakesBack(Downgrades[4][4], Upgrades[4][6])
         /\ TakesBack(Downgrades[4][5], Upgrades[4][5])
         /\ TakesBack(Downgrades[4][6], Upgrades[4][3])
         /\ TakesBack(Downgrades[4][7], Upgrades[4][1])
    BY ONLY <2>1, <2>3, <2>4
  <2>8. \A k \in 1..7 : TakesBack(Downgrades[4][k], Upgrades[4][Undone[4][k]])
    BY ONLY <2>5, <2>6, <2>7
  <2>9. \A i, k \in 1..7 : i < k => Undone[4][i] > Undone[4][k]
    BY ONLY <2>5, <2>6
  <2>10. \A k \in 1..7 : Undone[4][k] \in 1..9
    BY ONLY <2>5, <2>6
  <2>11. Len(Undone[4]) = 7
    BY <2>1
  <2>12. QED  BY ONLY <2>1, <2>2, <2>8, <2>9, <2>10, <2>11 DEF LastFirst
<1>5. LastFirst(5)
  <2>1. Upgrades[5] = CatalogUp /\ Downgrades[5] = CatalogDown /\ Undone[5] = <<4, 3, 2, 1>>
    BY DEF Upgrades, Downgrades, Undone
  <2>2. Len(CatalogUp) = 4 /\ Len(CatalogDown) = 4
    BY DEF CatalogUp, CatalogDown
  <2>4. \A k \in 1..4 : TakesBack(Downgrades[5][k], Upgrades[5][Undone[5][k]])
    BY <2>1, DropTakesBack, KeyTakesBack DEF CatalogUp, CatalogDown
  <2>5. QED  BY <2>1, <2>2, <2>4 DEF LastFirst
<1>6. LastFirst(6)
  <2>1. Upgrades[6] = VenueGroupsUp /\ Downgrades[6] = VenueGroupsDown /\ Undone[6] = <<3, 1>>
    BY DEF Upgrades, Downgrades, Undone
  <2>2. Len(VenueGroupsUp) = 3 /\ Len(VenueGroupsDown) = 2
    BY DEF VenueGroupsUp, VenueGroupsDown
  <2>4. \A k \in 1..2 : TakesBack(Downgrades[6][k], Upgrades[6][Undone[6][k]])
    BY <2>1, DropTakesBack, KeyTakesBack DEF VenueGroupsUp, VenueGroupsDown
  <2>5. QED  BY <2>1, <2>2, <2>4 DEF LastFirst
<1>7. \A r \in 1..6 : r # 19 => r \in {1, 2, 3, 4, 5, 6}
  OBVIOUS
<1>8. QED  BY ONLY <1>1, <1>2, <1>3, <1>4, <1>5, <1>6, <1>7

LEMMA MiddleLastFirst == \A r \in 7..10 : r # 19 => LastFirst(r)
<1>1. LastFirst(7)
  <2>1. /\ Upgrades[7] = VenuesItself \o VenuesCalendar \o VenuesFloor
        /\ Downgrades[7] = VenuesDown
        /\ Undone[7] = <<12, 11, 10, 9, 8, 7, 6, 5, 4, 3, 2, 1>>
    BY DEF Upgrades, Downgrades, Undone
  <2>2. Len(VenuesItself \o VenuesCalendar \o VenuesFloor) = 12 /\ Len(VenuesDown) = 12
    BY DEF VenuesItself, VenuesCalendar, VenuesFloor, VenuesDown
  <2>3. /\ Upgrades[7][1] = Create("venues", {"districts", "users", "venue_groups"},
                                   {"owner_id", "venue_group_id_status"})
        /\ Upgrades[7][2] = Create("venue_amenities", {"amenities", "venues"}, {})
        /\ Upgrades[7][3] = Create("venue_guest_tiers", {"venues"}, {"venue_id"})
        /\ Upgrades[7][4] = Create("venue_photos", {"venues"}, {"venue_id"})
        /\ Upgrades[7][5] = Create("venue_special_days", {"venues"}, {"venue_id"})
        /\ Upgrades[7][6] = Create("venue_translations", {"languages", "venues"}, {"name_trgm"})
        /\ Upgrades[7][7] = Create("venue_venue_types", {"venues", "venue_types"}, {})
        /\ Upgrades[7][8] = Create("venue_working_hours", {"venues"}, {"venue_id"})
        /\ Upgrades[7][9] = Create("venue_zones", {"venues"}, {"venue_id"})
        /\ Upgrades[7][10] = Create("venue_tables", {"venues", "venue_zones"}, {"venue_id"})
        /\ Upgrades[7][11] = Create("venue_zone_translations", {"languages", "venue_zones"}, {})
        /\ Upgrades[7][12] = Create("venue_table_qrs", {"venue_tables"}, {"table_id"})
    BY <2>1 DEF VenuesItself, VenuesCalendar, VenuesFloor
  <2>4. /\ TakesBack(VenuesDown[1], Create("venue_table_qrs", {"venue_tables"}, {"table_id"}))
        /\ TakesBack(VenuesDown[2], Create("venue_zone_translations", {"languages", "venue_zones"}, {}))
        /\ TakesBack(VenuesDown[3], Create("venue_tables", {"venues", "venue_zones"}, {"venue_id"}))
        /\ TakesBack(VenuesDown[4], Create("venue_zones", {"venues"}, {"venue_id"}))
        /\ TakesBack(VenuesDown[5], Create("venue_working_hours", {"venues"}, {"venue_id"}))
        /\ TakesBack(VenuesDown[6], Create("venue_venue_types", {"venues", "venue_types"}, {}))
        /\ TakesBack(VenuesDown[7], Create("venue_translations", {"languages", "venues"}, {"name_trgm"}))
        /\ TakesBack(VenuesDown[8], Create("venue_special_days", {"venues"}, {"venue_id"}))
        /\ TakesBack(VenuesDown[9], Create("venue_photos", {"venues"}, {"venue_id"}))
        /\ TakesBack(VenuesDown[10], Create("venue_guest_tiers", {"venues"}, {"venue_id"}))
        /\ TakesBack(VenuesDown[11], Create("venue_amenities", {"amenities", "venues"}, {}))
        /\ TakesBack(VenuesDown[12], Create("venues", {"districts", "users", "venue_groups"},
                                        {"owner_id", "venue_group_id_status"}))
    BY DropTakesBack, KeyTakesBack DEF VenuesDown
  <2>5. \A k \in 1..12 : k \in {1, 2, 3, 4, 5, 6, 7, 8, 9, 10, 11, 12}
    OBVIOUS
  <2>6. /\ Undone[7][1] = 12
        /\ Undone[7][2] = 11
        /\ Undone[7][3] = 10
        /\ Undone[7][4] = 9
        /\ Undone[7][5] = 8
        /\ Undone[7][6] = 7
        /\ Undone[7][7] = 6
        /\ Undone[7][8] = 5
        /\ Undone[7][9] = 4
        /\ Undone[7][10] = 3
        /\ Undone[7][11] = 2
        /\ Undone[7][12] = 1
    BY <2>1
  <2>7. /\ TakesBack(Downgrades[7][1], Upgrades[7][12])
         /\ TakesBack(Downgrades[7][2], Upgrades[7][11])
         /\ TakesBack(Downgrades[7][3], Upgrades[7][10])
         /\ TakesBack(Downgrades[7][4], Upgrades[7][9])
         /\ TakesBack(Downgrades[7][5], Upgrades[7][8])
         /\ TakesBack(Downgrades[7][6], Upgrades[7][7])
         /\ TakesBack(Downgrades[7][7], Upgrades[7][6])
         /\ TakesBack(Downgrades[7][8], Upgrades[7][5])
         /\ TakesBack(Downgrades[7][9], Upgrades[7][4])
         /\ TakesBack(Downgrades[7][10], Upgrades[7][3])
         /\ TakesBack(Downgrades[7][11], Upgrades[7][2])
         /\ TakesBack(Downgrades[7][12], Upgrades[7][1])
    BY ONLY <2>1, <2>3, <2>4
  <2>8. \A k \in 1..12 : TakesBack(Downgrades[7][k], Upgrades[7][Undone[7][k]])
    BY ONLY <2>5, <2>6, <2>7
  <2>9. \A i, k \in 1..12 : i < k => Undone[7][i] > Undone[7][k]
    BY ONLY <2>5, <2>6
  <2>10. \A k \in 1..12 : Undone[7][k] \in 1..12
    BY ONLY <2>5, <2>6
  <2>11. Len(Undone[7]) = 12
    BY <2>1
  <2>12. QED  BY ONLY <2>1, <2>2, <2>8, <2>9, <2>10, <2>11 DEF LastFirst
<1>2. LastFirst(8)
  <2>1. /\ Upgrades[8] = StaffRoles \o StaffPeople
        /\ Downgrades[8] = StaffDown
        /\ Undone[8] = <<7, 5, 4, 3, 2, 1>>
    BY DEF Upgrades, Downgrades, Undone
  <2>2. Len(StaffRoles \o StaffPeople) = 7 /\ Len(StaffDown) = 6
    BY DEF StaffRoles, StaffPeople, StaffDown
  <2>3. /\ Upgrades[8][1] = Create("permissions", {}, {})
        /\ Upgrades[8][2] = Create("staff_roles", {}, {})
        /\ Upgrades[8][3] = Create("staff_role_permissions", {"permissions", "staff_roles"}, {})
        /\ Upgrades[8][4] = Create("staff_role_translations", {"languages", "staff_roles"}, {})
        /\ Upgrades[8][5] = Create("staff_invitations", {"staff_roles", "venue_groups", "venues"},
                                   {"phone_expires_at"})
        /\ Upgrades[8][7] = Create("venue_staff", {"users", "staff_roles", "venue_groups", "venues"},
                                   {"user_id", "venue_group_id_is_active", "venue_id_staff_role_id"})
    BY <2>1 DEF StaffRoles, StaffPeople
  <2>4. /\ TakesBack(StaffDown[1], Create("venue_staff",
                                        {"users", "staff_roles", "venue_groups", "venues"},
                                        {"user_id", "venue_group_id_is_active", "venue_id_staff_role_id"}))
        /\ TakesBack(StaffDown[2], Create("staff_invitations", {"staff_roles", "venue_groups", "venues"},
                                        {"phone_expires_at"}))
        /\ TakesBack(StaffDown[3], Create("staff_role_translations", {"languages", "staff_roles"}, {}))
        /\ TakesBack(StaffDown[4], Create("staff_role_permissions", {"permissions", "staff_roles"}, {}))
        /\ TakesBack(StaffDown[5], Create("staff_roles", {}, {}))
        /\ TakesBack(StaffDown[6], Create("permissions", {}, {}))
    BY DropTakesBack, KeyTakesBack DEF StaffDown
  <2>5. \A k \in 1..6 : k \in {1, 2, 3, 4, 5, 6}
    OBVIOUS
  <2>6. /\ Undone[8][1] = 7
        /\ Undone[8][2] = 5
        /\ Undone[8][3] = 4
        /\ Undone[8][4] = 3
        /\ Undone[8][5] = 2
        /\ Undone[8][6] = 1
    BY <2>1
  <2>7. /\ TakesBack(Downgrades[8][1], Upgrades[8][7])
         /\ TakesBack(Downgrades[8][2], Upgrades[8][5])
         /\ TakesBack(Downgrades[8][3], Upgrades[8][4])
         /\ TakesBack(Downgrades[8][4], Upgrades[8][3])
         /\ TakesBack(Downgrades[8][5], Upgrades[8][2])
         /\ TakesBack(Downgrades[8][6], Upgrades[8][1])
    BY ONLY <2>1, <2>3, <2>4
  <2>8. \A k \in 1..6 : TakesBack(Downgrades[8][k], Upgrades[8][Undone[8][k]])
    BY ONLY <2>5, <2>6, <2>7
  <2>9. \A i, k \in 1..6 : i < k => Undone[8][i] > Undone[8][k]
    BY ONLY <2>5, <2>6
  <2>10. \A k \in 1..6 : Undone[8][k] \in 1..7
    BY ONLY <2>5, <2>6
  <2>11. Len(Undone[8]) = 6
    BY <2>1
  <2>12. QED  BY ONLY <2>1, <2>2, <2>8, <2>9, <2>10, <2>11 DEF LastFirst
<1>3. LastFirst(9)
  <2>1. /\ Upgrades[9] = MenuDishes \o MenuVariants
        /\ Downgrades[9] = MenuDown
        /\ Undone[9] = <<8, 7, 6, 5, 4, 3, 2, 1>>
    BY DEF Upgrades, Downgrades, Undone
  <2>2. Len(MenuDishes \o MenuVariants) = 8 /\ Len(MenuDown) = 8
    BY DEF MenuDishes, MenuVariants, MenuDown
  <2>3. /\ Upgrades[9][1] = Create("menu_categories", {"venue_groups"}, {"venue_group_id_sort_order"})
        /\ Upgrades[9][2] = Create("menu_category_translations", {"languages", "menu_categories"}, {})
        /\ Upgrades[9][3] = Create("menu_items", {"menu_categories"}, {"menu_category_id"})
        /\ Upgrades[9][4] = Create("menu_item_branches", {"menu_items", "venues"}, {})
        /\ Upgrades[9][5] = Create("menu_item_translations", {"languages", "menu_items"}, {"name_trgm"})
        /\ Upgrades[9][6] = Create("menu_item_variants", {"menu_items"}, {"menu_item_id"})
        /\ Upgrades[9][7] = Create("menu_item_variant_branches", {"menu_item_variants", "venues"}, {})
        /\ Upgrades[9][8] = Create("menu_item_variant_translations", {"languages", "menu_item_variants"},
                                   {})
    BY <2>1 DEF MenuDishes, MenuVariants
  <2>4. /\ TakesBack(MenuDown[1], Create("menu_item_variant_translations",
                                        {"languages", "menu_item_variants"},
                                        {}))
        /\ TakesBack(MenuDown[2], Create("menu_item_variant_branches", {"menu_item_variants", "venues"},
                                        {}))
        /\ TakesBack(MenuDown[3], Create("menu_item_variants", {"menu_items"}, {"menu_item_id"}))
        /\ TakesBack(MenuDown[4], Create("menu_item_translations", {"languages", "menu_items"},
                                        {"name_trgm"}))
        /\ TakesBack(MenuDown[5], Create("menu_item_branches", {"menu_items", "venues"}, {}))
        /\ TakesBack(MenuDown[6], Create("menu_items", {"menu_categories"}, {"menu_category_id"}))
        /\ TakesBack(MenuDown[7], Create("menu_category_translations", {"languages", "menu_categories"},
                                        {}))
        /\ TakesBack(MenuDown[8], Create("menu_categories", {"venue_groups"},
                                        {"venue_group_id_sort_order"}))
    BY DropTakesBack, KeyTakesBack DEF MenuDown
  <2>5. \A k \in 1..8 : k \in {1, 2, 3, 4, 5, 6, 7, 8}
    OBVIOUS
  <2>6. /\ Undone[9][1] = 8
        /\ Undone[9][2] = 7
        /\ Undone[9][3] = 6
        /\ Undone[9][4] = 5
        /\ Undone[9][5] = 4
        /\ Undone[9][6] = 3
        /\ Undone[9][7] = 2
        /\ Undone[9][8] = 1
    BY <2>1
  <2>7. /\ TakesBack(Downgrades[9][1], Upgrades[9][8])
         /\ TakesBack(Downgrades[9][2], Upgrades[9][7])
         /\ TakesBack(Downgrades[9][3], Upgrades[9][6])
         /\ TakesBack(Downgrades[9][4], Upgrades[9][5])
         /\ TakesBack(Downgrades[9][5], Upgrades[9][4])
         /\ TakesBack(Downgrades[9][6], Upgrades[9][3])
         /\ TakesBack(Downgrades[9][7], Upgrades[9][2])
         /\ TakesBack(Downgrades[9][8], Upgrades[9][1])
    BY ONLY <2>1, <2>3, <2>4
  <2>8. \A k \in 1..8 : TakesBack(Downgrades[9][k], Upgrades[9][Undone[9][k]])
    BY ONLY <2>5, <2>6, <2>7
  <2>9. \A i, k \in 1..8 : i < k => Undone[9][i] > Undone[9][k]
    BY ONLY <2>5, <2>6
  <2>10. \A k \in 1..8 : Undone[9][k] \in 1..8
    BY ONLY <2>5, <2>6
  <2>11. Len(Undone[9]) = 8
    BY <2>1
  <2>12. QED  BY ONLY <2>1, <2>2, <2>8, <2>9, <2>10, <2>11 DEF LastFirst
<1>4. LastFirst(10)
  <2>1. Upgrades[10] = ServicesUp /\ Downgrades[10] = ServicesDown /\ Undone[10] = <<5, 4, 3, 1>>
    BY DEF Upgrades, Downgrades, Undone
  <2>2. Len(ServicesUp) = 5 /\ Len(ServicesDown) = 4
    BY DEF ServicesUp, ServicesDown
  <2>4. \A k \in 1..4 : TakesBack(Downgrades[10][k], Upgrades[10][Undone[10][k]])
    BY <2>1, DropTakesBack, KeyTakesBack DEF ServicesUp, ServicesDown
  <2>5. QED  BY <2>1, <2>2, <2>4 DEF LastFirst
<1>5. \A r \in 7..10 : r # 19 => r \in {7, 8, 9, 10}
  OBVIOUS
<1>6. QED  BY ONLY <1>1, <1>2, <1>3, <1>4, <1>5

LEMMA MoneyLastFirst == \A r \in 11..13 : r # 19 => LastFirst(r)
<1>1. LastFirst(11)
  <2>1. /\ Upgrades[11] = PromotionsUp
        /\ Downgrades[11] = PromotionsDown
        /\ Undone[11] = <<6, 5, 4, 2, 1>>
    BY DEF Upgrades, Downgrades, Undone
  <2>2. Len(PromotionsUp) = 7 /\ Len(PromotionsDown) = 5
    BY DEF PromotionsUp, PromotionsDown
  <2>4. \A k \in 1..5 : TakesBack(Downgrades[11][k], Upgrades[11][Undone[11][k]])
    BY <2>1, DropTakesBack, KeyTakesBack DEF PromotionsUp, PromotionsDown
  <2>5. QED  BY <2>1, <2>2, <2>4 DEF LastFirst
<1>2. LastFirst(12)
  <2>1. /\ Upgrades[12] = SubscriptionsUp
        /\ Downgrades[12] = SubscriptionsDown
        /\ Undone[12] = <<3, 2, 1>>
    BY DEF Upgrades, Downgrades, Undone
  <2>2. Len(SubscriptionsUp) = 3 /\ Len(SubscriptionsDown) = 3
    BY DEF SubscriptionsUp, SubscriptionsDown
  <2>4. \A k \in 1..3 : TakesBack(Downgrades[12][k], Upgrades[12][Undone[12][k]])
    BY <2>1, DropTakesBack, KeyTakesBack DEF SubscriptionsUp, SubscriptionsDown
  <2>5. QED  BY <2>1, <2>2, <2>4 DEF LastFirst
<1>3. LastFirst(13)
  <2>1. /\ Upgrades[13] = BookingsItself \o BookingsChildren
        /\ Downgrades[13] = BookingsDown
        /\ Undone[13] = <<10, 9, 8, 7, 5, 4, 3, 1>>
    BY DEF Upgrades, Downgrades, Undone
  <2>2. Len(BookingsItself \o BookingsChildren) = 10 /\ Len(BookingsDown) = 8
    BY DEF BookingsItself, BookingsChildren, BookingsDown
  <2>3. /\ Upgrades[13][1] = Create("bookings",
                                    {"venue_guest_tiers", "promo_codes", "venue_tables", "users", "venues", "venue_services"},
                                    {"user_id", "venue_id_booking_date_status", "one_hall_event_per_day"})
        /\ Upgrades[13][3] = Create("venue_blocked_slots", {"venue_tables", "venues"}, {"venue_id"})
        /\ Upgrades[13][4] = Create("booking_items", {"bookings", "menu_items"}, {"booking_id"})
        /\ Upgrades[13][5] = Create("booking_price_lines", {"bookings"}, {"booking_id"})
        /\ Upgrades[13][7] = Create("booking_services", {"bookings", "venue_services"}, {"booking_id"})
        /\ Upgrades[13][8] = Create("booking_status_history", {"bookings", "users"}, {"booking_id"})
        /\ Upgrades[13][9] = Add({ForeignKey("promo_code_redemptions", "bookings")})
        /\ Upgrades[13][10] = Add({ForeignKey("promo_code_redemptions", "user_subscriptions")})
    BY <2>1 DEF BookingsItself, BookingsChildren
  <2>4. /\ TakesBack(BookingsDown[1], Add({ForeignKey("promo_code_redemptions", "user_subscriptions")}))
        /\ TakesBack(BookingsDown[2], Add({ForeignKey("promo_code_redemptions", "bookings")}))
        /\ TakesBack(BookingsDown[3], Create("booking_status_history", {"bookings", "users"},
                                        {"booking_id"}))
        /\ TakesBack(BookingsDown[4], Create("booking_services", {"bookings", "venue_services"},
                                        {"booking_id"}))
        /\ TakesBack(BookingsDown[5], Create("booking_price_lines", {"bookings"}, {"booking_id"}))
        /\ TakesBack(BookingsDown[6], Create("booking_items", {"bookings", "menu_items"},
                                        {"booking_id"}))
        /\ TakesBack(BookingsDown[7], Create("venue_blocked_slots", {"venue_tables", "venues"},
                                        {"venue_id"}))
        /\ TakesBack(BookingsDown[8], Create("bookings",
                                        {"venue_guest_tiers", "promo_codes", "venue_tables", "users", "venues", "venue_services"},
                                        {"user_id", "venue_id_booking_date_status", "one_hall_event_per_day"}))
    BY DropTakesBack, KeyTakesBack DEF BookingsDown
  <2>5. \A k \in 1..8 : k \in {1, 2, 3, 4, 5, 6, 7, 8}
    OBVIOUS
  <2>6. /\ Undone[13][1] = 10
        /\ Undone[13][2] = 9
        /\ Undone[13][3] = 8
        /\ Undone[13][4] = 7
        /\ Undone[13][5] = 5
        /\ Undone[13][6] = 4
        /\ Undone[13][7] = 3
        /\ Undone[13][8] = 1
    BY <2>1
  <2>7. /\ TakesBack(Downgrades[13][1], Upgrades[13][10])
         /\ TakesBack(Downgrades[13][2], Upgrades[13][9])
         /\ TakesBack(Downgrades[13][3], Upgrades[13][8])
         /\ TakesBack(Downgrades[13][4], Upgrades[13][7])
         /\ TakesBack(Downgrades[13][5], Upgrades[13][5])
         /\ TakesBack(Downgrades[13][6], Upgrades[13][4])
         /\ TakesBack(Downgrades[13][7], Upgrades[13][3])
         /\ TakesBack(Downgrades[13][8], Upgrades[13][1])
    BY ONLY <2>1, <2>3, <2>4
  <2>8. \A k \in 1..8 : TakesBack(Downgrades[13][k], Upgrades[13][Undone[13][k]])
    BY ONLY <2>5, <2>6, <2>7
  <2>9. \A i, k \in 1..8 : i < k => Undone[13][i] > Undone[13][k]
    BY ONLY <2>5, <2>6
  <2>10. \A k \in 1..8 : Undone[13][k] \in 1..10
    BY ONLY <2>5, <2>6
  <2>11. Len(Undone[13]) = 8
    BY <2>1
  <2>12. QED  BY ONLY <2>1, <2>2, <2>8, <2>9, <2>10, <2>11 DEF LastFirst
<1>4. \A r \in 11..13 : r # 19 => r \in {11, 12, 13}
  OBVIOUS
<1>5. QED  BY ONLY <1>1, <1>2, <1>3, <1>4

LEMMA OtherLastFirst == \A r \in 14..20 : r # 19 => LastFirst(r)
<1>1. LastFirst(14)
  <2>1. /\ Upgrades[14] = OrdersItself \o OrdersMoney
        /\ Downgrades[14] = OrdersDown
        /\ Undone[14] = <<5, 4, 3, 2, 1>>
    BY DEF Upgrades, Downgrades, Undone
  <2>2. Len(OrdersItself \o OrdersMoney) = 5 /\ Len(OrdersDown) = 5
    BY DEF OrdersItself, OrdersMoney, OrdersDown
  <2>3. /\ Upgrades[14][1] = Create("orders", {"bookings", "venue_staff", "venue_tables", "venues"},
                                    {"venue_id_business_date", "venue_id_status_opened_at", "one_open_order_per_table"})
        /\ Upgrades[14][2] = Create("order_items",
                                    {"venue_staff", "menu_items", "orders", "menu_item_variants"},
                                    {"order_id_status"})
        /\ Upgrades[14][3] = Create("order_payments", {"orders", "venue_staff"}, {"order_id"})
        /\ Upgrades[14][4] = Create("order_status_history", {"venue_staff", "orders"}, {"order_id"})
        /\ Upgrades[14][5] = Create("receipts", {"orders", "venue_staff"}, {})
    BY <2>1 DEF OrdersItself, OrdersMoney
  <2>4. /\ TakesBack(OrdersDown[1], Create("receipts", {"orders", "venue_staff"}, {}))
        /\ TakesBack(OrdersDown[2], Create("order_status_history", {"venue_staff", "orders"},
                                        {"order_id"}))
        /\ TakesBack(OrdersDown[3], Create("order_payments", {"orders", "venue_staff"}, {"order_id"}))
        /\ TakesBack(OrdersDown[4], Create("order_items",
                                        {"venue_staff", "menu_items", "orders", "menu_item_variants"},
                                        {"order_id_status"}))
        /\ TakesBack(OrdersDown[5], Create("orders",
                                        {"bookings", "venue_staff", "venue_tables", "venues"},
                                        {"venue_id_business_date", "venue_id_status_opened_at", "one_open_order_per_table"}))
    BY DropTakesBack, KeyTakesBack DEF OrdersDown
  <2>5. \A k \in 1..5 : k \in {1, 2, 3, 4, 5}
    OBVIOUS
  <2>6. /\ Undone[14][1] = 5
        /\ Undone[14][2] = 4
        /\ Undone[14][3] = 3
        /\ Undone[14][4] = 2
        /\ Undone[14][5] = 1
    BY <2>1
  <2>7. /\ TakesBack(Downgrades[14][1], Upgrades[14][5])
         /\ TakesBack(Downgrades[14][2], Upgrades[14][4])
         /\ TakesBack(Downgrades[14][3], Upgrades[14][3])
         /\ TakesBack(Downgrades[14][4], Upgrades[14][2])
         /\ TakesBack(Downgrades[14][5], Upgrades[14][1])
    BY ONLY <2>1, <2>3, <2>4
  <2>8. \A k \in 1..5 : TakesBack(Downgrades[14][k], Upgrades[14][Undone[14][k]])
    BY ONLY <2>5, <2>6, <2>7
  <2>9. \A i, k \in 1..5 : i < k => Undone[14][i] > Undone[14][k]
    BY ONLY <2>5, <2>6
  <2>10. \A k \in 1..5 : Undone[14][k] \in 1..5
    BY ONLY <2>5, <2>6
  <2>11. Len(Undone[14]) = 5
    BY <2>1
  <2>12. QED  BY ONLY <2>1, <2>2, <2>8, <2>9, <2>10, <2>11 DEF LastFirst
<1>2. LastFirst(15)
  <2>1. Upgrades[15] = PaymentsUp /\ Downgrades[15] = PaymentsDown /\ Undone[15] = <<4, 2, 1>>
    BY DEF Upgrades, Downgrades, Undone
  <2>2. Len(PaymentsUp) = 4 /\ Len(PaymentsDown) = 3
    BY DEF PaymentsUp, PaymentsDown
  <2>4. \A k \in 1..3 : TakesBack(Downgrades[15][k], Upgrades[15][Undone[15][k]])
    BY <2>1, DropTakesBack, KeyTakesBack DEF PaymentsUp, PaymentsDown
  <2>5. QED  BY <2>1, <2>2, <2>4 DEF LastFirst
<1>3. LastFirst(16)
  <2>1. Upgrades[16] = ReviewsUp /\ Downgrades[16] = ReviewsDown /\ Undone[16] = <<3, 2, 1>>
    BY DEF Upgrades, Downgrades, Undone
  <2>2. Len(ReviewsUp) = 3 /\ Len(ReviewsDown) = 3
    BY DEF ReviewsUp, ReviewsDown
  <2>4. \A k \in 1..3 : TakesBack(Downgrades[16][k], Upgrades[16][Undone[16][k]])
    BY <2>1, DropTakesBack, KeyTakesBack DEF ReviewsUp, ReviewsDown
  <2>5. QED  BY <2>1, <2>2, <2>4 DEF LastFirst
<1>4. LastFirst(17)
  <2>1. /\ Upgrades[17] = EngagementUp
        /\ Downgrades[17] = EngagementDown
        /\ Undone[17] = <<5, 4, 3, 2, 1>>
    BY DEF Upgrades, Downgrades, Undone
  <2>2. Len(EngagementUp) = 5 /\ Len(EngagementDown) = 5
    BY DEF EngagementUp, EngagementDown
  <2>4. \A k \in 1..5 : TakesBack(Downgrades[17][k], Upgrades[17][Undone[17][k]])
    BY <2>1, DropTakesBack, KeyTakesBack DEF EngagementUp, EngagementDown
  <2>5. QED  BY <2>1, <2>2, <2>4 DEF LastFirst
<1>5. LastFirst(18)
  <2>1. Upgrades[18] = AnalyticsUp /\ Downgrades[18] = AnalyticsDown /\ Undone[18] = <<1>>
    BY DEF Upgrades, Downgrades, Undone
  <2>2. Len(AnalyticsUp) = 1 /\ Len(AnalyticsDown) = 1
    BY DEF AnalyticsUp, AnalyticsDown
  <2>4. \A k \in 1..1 : TakesBack(Downgrades[18][k], Upgrades[18][Undone[18][k]])
    BY <2>1, DropTakesBack, KeyTakesBack DEF AnalyticsUp, AnalyticsDown
  <2>5. QED  BY <2>1, <2>2, <2>4 DEF LastFirst
<1>6. LastFirst(20)
  <2>1. Upgrades[20] = SmsMessagesUp /\ Downgrades[20] = SmsMessagesDown /\ Undone[20] = <<1>>
    BY DEF Upgrades, Downgrades, Undone
  <2>2. Len(SmsMessagesUp) = 1 /\ Len(SmsMessagesDown) = 1
    BY DEF SmsMessagesUp, SmsMessagesDown
  <2>4. \A k \in 1..1 : TakesBack(Downgrades[20][k], Upgrades[20][Undone[20][k]])
    BY <2>1, DropTakesBack, KeyTakesBack DEF SmsMessagesUp, SmsMessagesDown
  <2>5. QED  BY <2>1, <2>2, <2>4 DEF LastFirst
<1>7. \A r \in 14..20 : r # 19 => r \in {14, 15, 16, 17, 18, 20}
  OBVIOUS
<1>8. QED  BY ONLY <1>1, <1>2, <1>3, <1>4, <1>5, <1>6, <1>7

LEMMA AllLastFirst == \A r \in 1..20 : r # 19 => LastFirst(r)
<1>1. \A r \in 1..20 : r \in 1..6 \/ r \in 7..10 \/ r \in 11..13 \/ r \in 14..20
  OBVIOUS
<1>2. QED  BY <1>1, FirstLastFirst, MiddleLastFirst, MoneyLastFirst, OtherLastFirst

\* What a statement of an early way back names, and whom it hits.
LEMMA TakenPlaced ==
  ASSUME NEW r \in 1..20, r # 19, NEW k \in 1..Len(Downgrades[r])
  PROVE  /\ Downgrades[r][k].do = "remove" /\ Undone[r][k] \in 1..Len(Upgrades[r])
         /\ Downgrades[r][k].what \subseteq Added(r)
         /\ \A o \in Downgrades[r][k].what :
                Placed(o, r, Undone[r][k]) /\ o.kind \in {"table", "key", "index"}
         /\ \A t \in Tables(Downgrades[r][k].what) : Birth(t) = r /\ Nth(t) = Undone[r][k]
<1> DEFINE j == Undone[r][k]
           d == Downgrades[r][k]
           u == Upgrades[r][j]
<1>1. LastFirst(r)
  BY AllLastFirst
<1>2. j \in 1..Len(Upgrades[r]) /\ TakesBack(d, u)
  BY <1>1 DEF LastFirst
<1> HIDE DEF j, d, u
<1>3. /\ d.do = "remove" /\ u.do = "add" /\ d.what \subseteq u.what
      /\ \A o \in d.what : o.kind \in {"table", "key", "index"}
  <2>1. CASE \E t, R, I, J : u = Create(t, R, I) /\ d = Drop(t, J) /\ J \subseteq I
    <3>1. PICK t, R, I, J : u = Create(t, R, I) /\ d = Drop(t, J) /\ J \subseteq I
      BY <2>1
    <3>2. d.do = "remove" /\ u.do = "add" /\ d.what = Made(t, {}, J) /\ u.what = Made(t, R, I)
      BY <3>1, Statements
    <3>3. Made(t, {}, J) \subseteq Made(t, R, I)
      BY <3>1 DEF Made
    <3>4. \A o \in Made(t, {}, J) : o.kind \in {"table", "key", "index"}
      BY MadeHas
    <3>5. QED  BY <3>2, <3>3, <3>4
  <2>2. CASE \E t, q : u = Add({ForeignKey(t, q)}) /\ d = Remove({ForeignKey(t, q)})
    BY <2>2, Statements, KeyIs
  <2>3. QED  BY <1>2, <2>1, <2>2 DEF TakesBack
<1>4. DOMAIN Upgrades[r] = 1..Len(Upgrades[r])
  <2>1. r \in 1..31
    OBVIOUS
  <2>2. QED  BY <2>1, ProgramsAreSequences
<1>5. d.what \subseteq Added(r)
  BY <1>2, <1>3, <1>4, InDone DEF Added, u
<1>6. \A o \in d.what : Placed(o, r, j)
  BY <1>2, <1>3, AddedPlaced DEF u
<1>7. ASSUME NEW t \in Tables(d.what)  PROVE Birth(t) = r /\ Nth(t) = j
  <2>1. PICK o \in d.what : o.kind = "table" /\ o.table = t
    BY DEF Tables
  <2>2. o \notin LaterKeys(r)
    BY <2>1, LaterKeysAre
  <2>3. QED  BY <1>6, <2>1, <2>2 DEF Placed
<1>8. QED  BY <1>2, <1>3, <1>5, <1>6, <1>7 DEF j, d

LEMMA HitPlaced ==
  ASSUME NEW r \in 1..20, r # 19, NEW k \in 1..Len(Downgrades[r]),
         NEW m \in Nat, NEW o, Placed(o, r, m), o.kind \in {"table", "key", "index"},
         Hits(Downgrades[r][k].what, o)
  PROVE  Undone[r][k] = m
<1> DEFINE j == Undone[r][k]
           d == Downgrades[r][k]
<1>1. /\ j \in Nat
      /\ \A p \in d.what : Placed(p, r, j)
      /\ \A t \in Tables(d.what) : Birth(t) = r /\ Nth(t) = j
  <2>1. j \in 1..Len(Upgrades[r]) /\ Len(Upgrades[r]) \in Nat
    <3>1. r \in 1..31
      OBVIOUS
    <3>2. QED  BY <3>1, TakenPlaced, ProgramsAreSequences
  <2>2. j \in Nat
    BY <2>1
  <2>3. QED  BY <2>2, TakenPlaced
<1> HIDE DEF j, d
<1>2. CASE o.table \in Tables(d.what)
  <2>1. Birth(o.table) = r /\ Nth(o.table) = j
    BY <1>1, <1>2
  <2>2. ASSUME o \in LaterKeys(r)  PROVE FALSE
    <3>1. Birth(o.table) < r
      BY <2>2, LaterKeysAre
    <3>2. QED  BY <2>1, <3>1
  <2>3. QED  BY <2>1, <2>2 DEF Placed, j
<1>3. CASE \E p \in d.what : SameName(o, p)
  <2>1. PICK p \in d.what : SameName(o, p)
    BY <1>3
  <2>2. Placed(p, r, j) /\ SameName(p, o)
    BY <1>1, <2>1 DEF SameName
  <2>3. ~(j < m) /\ ~(m < j)
    BY <1>1, <2>1, <2>2, NamedOnce
  <2>4. QED  BY <1>1, <2>3 DEF j
<1>4. QED  BY <1>2, <1>3 DEF Hits, d, SameName

\* An early way back is accepted where the indexes it drops are still there.
LEMMA EarlyBackAccepted ==
  ASSUME NEW r \in 1..20, r # 19, NEW state, IsState(state), state.ok, Follows(state.schema, r),
         Added(r) \cap LostIndexes \subseteq state.schema
  PROVE  Run(Downgrades[r], state).ok
<1> DEFINE P == Downgrades[r]
           n == Len(P)
           j(k) == Undone[r][k]
<1>1. r \in 1..31 /\ r \in 0..31
  OBVIOUS
<1>2. n \in Nat /\ DOMAIN P = 1..n
  BY <1>1, ProgramsAreSequences
<1>3. \A k \in 1..n : P[k].do = "remove"
  BY TakenPlaced
<1>4. KeepsItsOwn(P)
  BY EarlyAddNothing
<1>5. Added(r) \subseteq state.schema
  <2>1. Added(r) \subseteq Intended(r)
    BY <1>1, IntendedNext
  <2>2. QED  BY <2>1 DEF Follows
<1>6. \A i, k \in 1..n : i < k => j(i) > j(k)
  BY AllLastFirst DEF LastFirst
<1>7. \A k \in 1..n : j(k) \in Nat
  <2>1. Len(Upgrades[r]) \in Nat
    BY <1>1, ProgramsAreSequences
  <2>2. \A k \in 1..n : j(k) \in 1..Len(Upgrades[r])
    BY TakenPlaced
  <2>3. QED  BY <2>1, <2>2
<1>8. ASSUME NEW k \in 1..n, NEW s, Stage(P, k - 1, state, s), s.ok
      PROVE  CanExecute(P[k], s)
  <2>1. \A i : i \in 1..(k - 1) <=> i \in 1..n /\ i < k
    BY <1>2
  <2>2. \A o : Hits(UpTo(P, k - 1, "remove"), o) <=> TakenBefore(P, k, o)
    BY DEF Hits, UpTo, Tables, TakenBefore
  <2>3. UpTo(P, k - 1, "add") = {}
    BY <1>3, <2>1 DEF UpTo
  <2>4. \A o : o \in s.schema <=> o \in state.schema /\ ~TakenBefore(P, k, o)
    BY <1>8, <2>2, <2>3 DEF Stage, MovedBy
  <2>5. \A o \in P[k].what : o \in Added(r) /\ Placed(o, r, j(k)) /\ o.kind \in {"table", "key", "index"}
    BY TakenPlaced
  <2>6. \A t \in Tables(P[k].what) : Birth(t) = r /\ Nth(t) = j(k)
    BY TakenPlaced
  <2>7. ASSUME NEW i \in 1..n, NEW m \in Nat, NEW o, Placed(o, r, m),
               o.kind \in {"table", "key", "index"}, Hits(P[i].what, o)
        PROVE  j(i) = m
    BY <2>7, HitPlaced
  <2> HIDE DEF P, n, j
  <2>8. ASSUME NEW o \in P[k].what  PROVE \E p \in s.schema : SameName(o, p)
    <3>1. ASSUME NEW i \in 1..(k - 1), Hits(P[i].what, o)  PROVE FALSE
      <4>1. i \in 1..n /\ i < k /\ j(k) \in Nat
        BY <1>7, <2>1
      <4>2. j(i) = j(k)
        BY <2>5, <2>7, <3>1, <4>1
      <4>3. QED  BY <1>6, <1>7, <4>1, <4>2
    <3>2. o \in s.schema
      BY <1>5, <2>4, <2>5, <3>1 DEF TakenBefore
    <3>3. QED  BY <3>2 DEF SameName
  <2>9. ASSUME NEW p \in s.schema, p.kind = "key", p.table \notin Tables(P[k].what),
               NEW t \in p.to, t \in Tables(P[k].what)
        PROVE  FALSE
    <3>1. p \in Intended(r) /\ ~TakenBefore(P, k, p)
      BY <2>4 DEF Follows
    <3>2. PICK f \in 1..r : p \in Added(f)
      BY <1>1, <3>1, IntendedObjects
    <3>3. f \in 1..20 /\ f \in 1..31 /\ f <= r
      OBVIOUS
    <3>4. PICK m \in 1..Len(Upgrades[f]) : Upgrades[f][m].do = "add" /\ p \in Upgrades[f][m].what
      <4>1. DOMAIN Upgrades[f] = 1..Len(Upgrades[f])
        BY <3>3, ProgramsAreSequences
      <4>2. QED  BY <3>2, <4>1, InDone DEF Added
    <3>5. Placed(p, f, m)
      BY <3>3, <3>4, AddedPlaced
    <3>6. t = p.name /\ Came(t, f, m)
      BY <2>9, <3>5 DEF Placed
    <3>7. f = r /\ j(k) < m
      <4>1. Birth(t) = r /\ Nth(t) = j(k)
        BY <2>6, <2>9
      <4>2. ~(r < f)
        BY <3>3
      <4>3. QED  BY <3>6, <4>1, <4>2 DEF Came
    <3>8. Hits(Done(P, "remove"), p)
      BY <3>2, <3>7, EarlyAreUndone DEF P
    <3>9. PICK i \in 1..n : Hits(P[i].what, p)
      BY <1>2, <3>8, HitsDone
    <3>10. j(i) = m
      BY <2>7, <2>9, <3>5, <3>7, <3>9
    <3>11. i < k
      BY <1>2, <1>6, <1>7, <3>7, <3>10
    <3>12. QED  BY <1>3, <2>1, <3>1, <3>9, <3>11 DEF TakenBefore
  <2>10. CanRemove(P[k].what, s)
    BY <2>8, <2>9 DEF CanRemove
  <2>11. QED  BY <1>3, <2>10 DEF CanExecute
<1>9. QED  BY <1>2, <1>4, <1>8, RunAccepted
-----------------------------------------------------------------------------
(* The other ways back: what makes their statements acceptable.               *)

\* A table is there when the k-th statement of the way back from r has been executed.
Stands(t, r, k) ==
    \/ Relation(t) \in Intended(r)
    \/ \E i \in 1..k : Downgrades[r][i].do = "add" /\ Relation(t) \in Downgrades[r][i].what

\* The k-th statement removes what the way up has added, once, and no table.
RemovesBack(r, k) ==
    \A o \in Downgrades[r][k].what :
        /\ o.kind # "table"
        /\ \E p \in Added(r) \ LostIndexes : SameName(o, p) /\ ~TakenBefore(Downgrades[r], k, p)

\* It adds what the way up has taken, under a name that is free by then.
AddsBack(r, k) ==
    \A o \in Downgrades[r][k].what :
        /\ Takes(r, o)
        /\ Stands(o.table, r, k)
        /\ o.kind = "key" => o.to = {o.name} /\ Stands(o.name, r, k)
        /\ \A p \in Added(r) : SameName(o, p) => TakenBefore(Downgrades[r], k, p)
        /\ \A i \in 1..(k - 1) : Downgrades[r][i].do = "add" =>
               \A p \in Downgrades[r][i].what : ~SameName(o, p)

BackShaped(r) ==
    \A k \in 1..Len(Downgrades[r]) :
        \/ Downgrades[r][k].do = "remove" /\ RemovesBack(r, k)
        \/ Downgrades[r][k].do = "add" /\ AddsBack(r, k)
        \/ /\ Downgrades[r][k].do = "insert"
           /\ \A w \in Downgrades[r][k].what : Stands(w.table, r, k)
        \/ Downgrades[r][k].do = "delete" /\ r \in {19, 23, 29, 31}

\* What a statement asks of the rows.
RowsLeave(program, rows) ==
    \A k \in 1..Len(program) :
        /\ program[k].do = "delete" => program[k].held \cap RowsBy(program, k - 1, rows) = {}
        /\ program[k].do = "insert" => program[k].what \cap RowsBy(program, k - 1, rows) = {}
        /\ program[k].do = "add" =>
               \A o \in program[k].what : Admits(o, RowsBy(program, k - 1, rows))

LEMMA BackAccepted ==
  ASSUME NEW r \in 1..31, BackShaped(r), NEW state, IsState(state), state.ok,
         Follows(state.schema, r), RowsLeave(Downgrades[r], state.rows)
  PROVE  Run(Downgrades[r], state).ok
<1> DEFINE P == Downgrades[r]
           n == Len(P)
<1>1. n \in Nat /\ KeepsItsOwn(P)
  BY ProgramsAreSequences, ProgramsKeepTheirOwn
<1>2. ASSUME NEW k \in 1..n, NEW s, Stage(P, k - 1, state, s), s.ok
      PROVE  CanExecute(P[k], s)
  <2>1. \A i : i \in 1..(k - 1) <=> i \in 1..n /\ i < k
    BY <1>1
  <2>2. \A o : Hits(UpTo(P, k - 1, "remove"), o) <=> TakenBefore(P, k, o)
    BY DEF Hits, UpTo, Tables, TakenBefore
  <2>3. \A o : o \in s.schema <=>
          \/ o \in state.schema /\ ~TakenBefore(P, k, o)
          \/ \E i \in 1..(k - 1) : P[i].do = "add" /\ o \in P[i].what
    <3>1. s.schema = MovedBy(P, k - 1, state.schema)
      BY <1>2 DEF Stage
    <3>2. QED  BY <2>2, <3>1 DEF MovedBy, UpTo
  <2>4. s.rows \subseteq RowsBy(P, k - 1, state.rows)
    BY <1>2 DEF Stage
  <2>5. Intended(r) = {o \in Intended(r - 1) : ~Takes(r, o)} \cup Added(r)
    BY IntendedNext
  <2>6. state.schema \subseteq Intended(r) /\ Added(r) \ LostIndexes \subseteq state.schema
    BY <2>5 DEF Follows
  <2>7. ASSUME NEW t  PROVE ~TakenBefore(P, k, Relation(t))
    <3>1. ASSUME NEW i \in 1..(k - 1), P[i].do = "remove", Hits(P[i].what, Relation(t))
          PROVE  FALSE
      <4>1. \A o \in P[i].what : o.kind # "table"
        BY <2>1, <3>1 DEF BackShaped, RemovesBack
      <4>2. Relation(t).kind = "table"
        BY RelationIs
      <4>3. QED  BY <3>1, <4>1, <4>2 DEF Hits, Tables, SameName
    <3>2. QED  BY <3>1 DEF TakenBefore
  <2>8. ASSUME NEW t, Stands(t, r, k)
        PROVE  t \in Tables(s.schema \cup (IF P[k].do = "add" THEN P[k].what ELSE {}))
    <3>1. CASE Relation(t) \in Intended(r)
      <4>1. Relation(t) \in state.schema
        BY <3>1, FollowedTables
      <4>2. Relation(t) \in s.schema
        BY <2>3, <2>7, <4>1
      <4>3. QED  BY <4>2, TableIsThere
    <3>2. CASE \E i \in 1..k : P[i].do = "add" /\ Relation(t) \in P[i].what
      <4>1. \A i \in 1..k : i \in 1..(k - 1) \/ i = k
        OBVIOUS
      <4>2. Relation(t) \in s.schema \cup (IF P[k].do = "add" THEN P[k].what ELSE {})
        BY <2>3, <3>2, <4>1
      <4>3. QED  BY <4>2, TableIsThere
    <3>3. QED  BY <2>8, <3>1, <3>2 DEF Stands
  <2> HIDE DEF P, n
  <2>9. CASE P[k].do = "remove" /\ RemovesBack(r, k)
    <3>1. ASSUME NEW o \in P[k].what  PROVE \E p \in s.schema : SameName(o, p)
      BY <2>3, <2>6, <2>9 DEF RemovesBack, P
    <3>2. Tables(P[k].what) = {}
      BY <2>9 DEF RemovesBack, P, Tables
    <3>3. QED  BY <2>9, <3>1, <3>2 DEF CanExecute, CanRemove
  <2>10. CASE P[k].do = "add" /\ AddsBack(r, k)
    <3>1. ASSUME NEW o \in P[k].what, NEW p \in s.schema, SameName(o, p)  PROVE FALSE
      <4>1. /\ Takes(r, o)
            /\ p \in Added(r) => TakenBefore(P, k, p)
            /\ \A i \in 1..(k - 1) : P[i].do = "add" => p \notin P[i].what
        BY <2>10, <3>1 DEF AddsBack, P
      <4>2. p \in Intended(r) /\ p \notin Added(r)
        BY <2>3, <2>6, <4>1
      <4>3. ~Takes(r, p)
        BY <2>5, <4>2
      <4>4. QED  BY <3>1, <4>1, <4>3 DEF Takes, SameName
    <3>2. ASSUME NEW o \in P[k].what
          PROVE  /\ o.table \in Tables(s.schema \cup P[k].what)
                 /\ o.kind = "key" => o.to \subseteq Tables(s.schema \cup P[k].what)
      <4>1. Stands(o.table, r, k) /\ (o.kind = "key" => o.to = {o.name} /\ Stands(o.name, r, k))
        BY <2>10 DEF AddsBack, P
      <4>2. QED  BY <2>8, <2>10, <4>1
    <3>3. ASSUME NEW o \in P[k].what  PROVE Admits(o, s.rows)
      <4>1. Admits(o, RowsBy(P, k - 1, state.rows))
        BY <2>10 DEF RowsLeave, P, n
      <4>2. QED  BY <2>4, <4>1 DEF Admits
    <3>4. QED  BY <2>10, <3>1, <3>2, <3>3 DEF CanExecute, CanAdd
  <2>11. CASE P[k].do = "insert" /\ \A w \in P[k].what : Stands(w.table, r, k)
    <3>1. P[k].what \cap s.rows = {}
      BY <2>4, <2>11 DEF RowsLeave, P, n
    <3>2. \A w \in P[k].what : w.table \in Tables(s.schema)
      BY <2>8, <2>11
    <3>3. QED  BY <2>11, <3>1, <3>2 DEF CanExecute
  <2>12. CASE P[k].do = "delete"
    <3>1. P[k].held \cap s.rows = {}
      BY <2>4, <2>12 DEF RowsLeave, P, n
    <3>2. QED  BY <2>12, <3>1 DEF CanExecute
  <2>13. QED  BY <2>9, <2>10, <2>11, <2>12 DEF BackShaped, P, n
<1>3. QED  BY <1>1, <1>2, RunAccepted
-----------------------------------------------------------------------------
(* The way back of each later revision that moves objects.                    *)

LEMMA Back21 == BackShaped(21)
<1>1. PICK P : P = Downgrades[21]
  OBVIOUS
<1>2. /\ Len(P) = 11 /\ \A i : i \in 1..11 <=> i \in {1, 2, 3, 4, 5, 6, 7, 8, 9, 10, 11}
      /\ P[1] = Remove(BookingPaymentChecks)
      /\ P[2] = Remove({AppliesToBookings})
      /\ P[3] = Create("subscription_plans", {}, {})
      /\ P[4] = Create("user_subscriptions", {"subscription_plans", "users"}, {"user_id"})
      /\ P[5] = Create("subscription_plan_translations", {"languages", "subscription_plans"}, {})
      /\ P[6] = Add({Column("payments", "subscription_id")})
      /\ P[7] = Add({ForeignKey("payments", "user_subscriptions")})
      /\ P[8] = Add({Column("promo_code_redemptions", "subscription_id")})
      /\ P[9] = Add({ForeignKey("promo_code_redemptions", "user_subscriptions")})
      /\ P[10] = Add(PaymentChecks)
      /\ P[11] = Add({AppliesTo})
  BY <1>1 DEF Downgrades, DropSubscriptionsDownTables, DropSubscriptionsDownLinks
<1>3. /\ \A k \in {3, 4, 5, 6, 7, 8, 9, 10, 11} : P[k].do = "add"
      /\ \A k \in {1, 2} : P[k].do = "remove"
      /\ P[1].what = BookingPaymentChecks
      /\ P[2].what = {AppliesToBookings}
      /\ P[3].what = Made("subscription_plans", {}, {})
      /\ P[4].what = Made("user_subscriptions", {"subscription_plans", "users"}, {"user_id"})
      /\ P[5].what = Made("subscription_plan_translations", {"languages", "subscription_plans"}, {})
      /\ P[6].what = {Column("payments", "subscription_id")}
      /\ P[7].what = {ForeignKey("payments", "user_subscriptions")}
      /\ P[8].what = {Column("promo_code_redemptions", "subscription_id")}
      /\ P[9].what = {ForeignKey("promo_code_redemptions", "user_subscriptions")}
      /\ P[10].what = PaymentChecks
      /\ P[11].what = {AppliesTo}
  BY <1>2, Statements
<1>4. /\ \A o \in P[3].what : o.table = "subscription_plans" /\ o.kind \in {"table", "key", "index"}
      /\ \A o \in P[4].what : o.table = "user_subscriptions" /\ o.kind \in {"table", "key", "index"}
      /\ \A o \in P[5].what : o.table = "subscription_plan_translations" /\ o.kind \in {"table", "key", "index"}
      /\ \A o \in P[6].what :
             \/ Is(o, "column", "payments", "subscription_id")
      /\ \A o \in P[7].what :
             \/ Is(o, "key", "payments", "user_subscriptions")
      /\ \A o \in P[8].what :
             \/ Is(o, "column", "promo_code_redemptions", "subscription_id")
      /\ \A o \in P[9].what :
             \/ Is(o, "key", "promo_code_redemptions", "user_subscriptions")
      /\ \A o \in P[10].what :
             \/ Is(o, "check", "payments", "target")
             \/ Is(o, "check", "payments", "kind")
      /\ \A o \in P[11].what :
             \/ Is(o, "check", "promo_codes", "applies_to")
  BY <1>3, MadeHas, ColumnIs, CheckIs, KeyIs DEF AppliesTo, PaymentChecks, Is
<1> DEFINE At(o) ==
             IF o.table = "subscription_plans" /\ o.kind \in {"table", "key", "index"} THEN 3
             ELSE IF o.table = "user_subscriptions" /\ o.kind \in {"table", "key", "index"} THEN 4
             ELSE IF o.table = "subscription_plan_translations" /\ o.kind \in {"table", "key", "index"} THEN 5
             ELSE IF Is(o, "column", "payments", "subscription_id") THEN 6
             ELSE IF Is(o, "key", "payments", "user_subscriptions") THEN 7
             ELSE IF Is(o, "column", "promo_code_redemptions", "subscription_id") THEN 8
             ELSE IF Is(o, "key", "promo_code_redemptions", "user_subscriptions") THEN 9
             ELSE IF Is(o, "check", "payments", "target")
                        \/ Is(o, "check", "payments", "kind") THEN 10
             ELSE IF Is(o, "check", "promo_codes", "applies_to") THEN 11
             ELSE 0
<1>5. \A k \in {3, 4, 5, 6, 7, 8, 9, 10, 11} : \A o \in P[k].what : At(o) = k
  BY ONLY <1>4 DEF Is
<1>6. \A o, p : SameName(o, p) => At(o) = At(p)
  BY DEF SameName, Is
<1> HIDE DEF At
<1>7. \A k \in {3, 4, 5, 6, 7, 8, 9, 10, 11} : \A o \in P[k].what : Takes(21, o)
  BY <1>4, Up21 DEF PlanTables, Is
<1>8. /\ \A o \in P[3].what : o.kind = "key" => o.to = {o.name} /\ o.name \in {}
      /\ \A o \in P[4].what : o.kind = "key" => o.to = {o.name} /\ o.name \in {"subscription_plans", "users"}
      /\ \A o \in P[5].what : o.kind = "key" => o.to = {o.name} /\ o.name \in {"languages", "subscription_plans"}
      /\ \A o \in P[6].what : o.kind = "key" => o.to = {o.name} /\ o.name \in {}
      /\ \A o \in P[7].what : o.kind = "key" => o.to = {o.name} /\ o.name \in {"user_subscriptions"}
      /\ \A o \in P[8].what : o.kind = "key" => o.to = {o.name} /\ o.name \in {}
      /\ \A o \in P[9].what : o.kind = "key" => o.to = {o.name} /\ o.name \in {"user_subscriptions"}
      /\ \A o \in P[10].what : o.kind = "key" => o.to = {o.name} /\ o.name \in {}
      /\ \A o \in P[11].what : o.kind = "key" => o.to = {o.name} /\ o.name \in {}
  BY <1>3, MadeHas, ColumnIs, CheckIs, KeysAre DEF AppliesTo, PaymentChecks
<1>9. /\ Relation("languages") \in Intended(21)
      /\ Relation("payments") \in Intended(21)
      /\ Relation("promo_code_redemptions") \in Intended(21)
      /\ Relation("promo_codes") \in Intended(21)
      /\ Relation("users") \in Intended(21)
  <2>1. /\ Birth("languages") <= 20
        /\ Birth("payments") <= 20
        /\ Birth("promo_code_redemptions") <= 20
        /\ Birth("promo_codes") <= 20
        /\ Birth("users") <= 20
    BY DEF Birth
  <2>2. /\ "languages" \notin PassingTables
        /\ "payments" \in MoneyTables
        /\ "promo_code_redemptions" \in MoneyTables
        /\ "promo_codes" \in MoneyTables
        /\ "users" \notin PassingTables
    BY DEF PassingTables, PlanTables, TextTables, CodeTables, MoneyTables, TypeTables
  <2>3. 21 \in 20..30
    OBVIOUS
  <2>4. QED  BY <2>1, <2>2, <2>3, TablesStay
<1>10. /\ Relation("subscription_plans") \in P[3].what
       /\ Relation("user_subscriptions") \in P[4].what
       /\ Relation("subscription_plan_translations") \in P[5].what
  BY <1>3 DEF Made
<1>11. /\ \A k : Stands("languages", 21, k)
       /\ \A k : Stands("payments", 21, k)
       /\ \A k : Stands("promo_code_redemptions", 21, k)
       /\ \A k : Stands("promo_codes", 21, k)
       /\ \A k : Stands("users", 21, k)
       /\ \A k \in Nat : 3 <= k => Stands("subscription_plans", 21, k)
       /\ \A k \in Nat : 4 <= k => Stands("user_subscriptions", 21, k)
       /\ \A k \in Nat : 5 <= k => Stands("subscription_plan_translations", 21, k)
  BY <1>1, <1>3, <1>9, <1>10 DEF Stands
<1>12. \A p \in Added(21) :
         \/ Is(p, "check", "payments", "target")
         \/ Is(p, "check", "payments", "kind")
         \/ Is(p, "check", "promo_codes", "applies_to")
  BY Up21, ColumnIs, CheckIs, IndexIs DEF BookingPaymentChecks, AppliesToBookings, Is
<1>13. \A k \in {1, 2} : P[k].what \subseteq Added(21) \ LostIndexes
  <2>1. \A k \in {1, 2} : P[k].what \subseteq Added(21)
    BY <1>3, Up21
  <2>2. \A p \in Added(21) : p \notin LostIndexes
    BY <1>12, LostAre DEF Is
  <2>3. QED  BY <2>1, <2>2
<1>14. RemovesBack(21, 1)
  <2>1. \A o \in P[1].what : o.kind # "table"
    BY <1>12, <1>13 DEF Is
  <2>2. \A o \in P[1].what : ~TakenBefore(P, 1, o)
    <3>1. \A i \in 1..(1 - 1) : i \in {}
      OBVIOUS
    <3>2. QED  BY <1>3, <3>1 DEF TakenBefore
  <2>3. QED  BY <1>1, <1>13, <2>1, <2>2 DEF RemovesBack, SameName
<1>15. RemovesBack(21, 2)
  <2>1. \A o \in P[2].what : o.kind # "table"
    BY <1>12, <1>13 DEF Is
  <2>2. \A o \in P[2].what : ~TakenBefore(P, 2, o)
    <3>1. \A i \in 1..(2 - 1) : i \in {1}
      OBVIOUS
    <3>2. \A o \in P[2].what : ~Hits(P[1].what, o)
      BY <1>3, HitsNamed, CheckIs DEF BookingPaymentChecks, AppliesToBookings, SameName
    <3>3. QED  BY <1>3, <3>1, <3>2 DEF TakenBefore
  <2>3. QED  BY <1>1, <1>13, <2>1, <2>2 DEF RemovesBack, SameName
<1>16. AddsBack(21, 3)
  <2>1. \A o \in P[3].what : Stands(o.table, 21, 3)
    BY <1>4, <1>11 DEF Is
  <2>2. \A o \in P[3].what : o.kind = "key" => o.to = {o.name} /\ Stands(o.name, 21, 3)
    BY <1>8, <1>11
  <2>3. ASSUME NEW o \in P[3].what, NEW p \in Added(21), SameName(o, p)
        PROVE  TakenBefore(P, 3, p)
    <3>1. p \in P[1].what \/ p \in P[2].what
      BY <1>3, Up21
    <3>2. 1 \in 1..(3 - 1) /\ 2 \in 1..(3 - 1)
      OBVIOUS
    <3>3. QED  BY <1>3, <3>1, <3>2, MemberHit DEF TakenBefore
  <2>4. ASSUME NEW i \in 1..(3 - 1), P[i].do = "add", NEW o \in P[3].what, NEW p \in P[i].what
        PROVE  ~SameName(o, p)
    <3>1. i \in {1, 2}
      OBVIOUS
    <3>2. i \in {} /\ i # 3
      BY <1>3, <2>4, <3>1
    <3>3. At(p) = i /\ At(o) = 3
      BY <1>5, <2>4, <3>2
    <3>4. QED  BY <1>6, <3>2, <3>3
  <2>5. QED  BY <1>1, <1>7, <2>1, <2>2, <2>3, <2>4 DEF AddsBack
<1>17. AddsBack(21, 4)
  <2>1. \A o \in P[4].what : Stands(o.table, 21, 4)
    BY <1>4, <1>11 DEF Is
  <2>2. \A o \in P[4].what : o.kind = "key" => o.to = {o.name} /\ Stands(o.name, 21, 4)
    BY <1>8, <1>11
  <2>3. ASSUME NEW o \in P[4].what, NEW p \in Added(21), SameName(o, p)
        PROVE  TakenBefore(P, 4, p)
    <3>1. p \in P[1].what \/ p \in P[2].what
      BY <1>3, Up21
    <3>2. 1 \in 1..(4 - 1) /\ 2 \in 1..(4 - 1)
      OBVIOUS
    <3>3. QED  BY <1>3, <3>1, <3>2, MemberHit DEF TakenBefore
  <2>4. ASSUME NEW i \in 1..(4 - 1), P[i].do = "add", NEW o \in P[4].what, NEW p \in P[i].what
        PROVE  ~SameName(o, p)
    <3>1. i \in {1, 2, 3}
      OBVIOUS
    <3>2. i \in {3} /\ i # 4
      BY <1>3, <2>4, <3>1
    <3>3. At(p) = i /\ At(o) = 4
      BY <1>5, <2>4, <3>2
    <3>4. QED  BY <1>6, <3>2, <3>3
  <2>5. QED  BY <1>1, <1>7, <2>1, <2>2, <2>3, <2>4 DEF AddsBack
<1>18. AddsBack(21, 5)
  <2>1. \A o \in P[5].what : Stands(o.table, 21, 5)
    BY <1>4, <1>11 DEF Is
  <2>2. \A o \in P[5].what : o.kind = "key" => o.to = {o.name} /\ Stands(o.name, 21, 5)
    BY <1>8, <1>11
  <2>3. ASSUME NEW o \in P[5].what, NEW p \in Added(21), SameName(o, p)
        PROVE  TakenBefore(P, 5, p)
    <3>1. p \in P[1].what \/ p \in P[2].what
      BY <1>3, Up21
    <3>2. 1 \in 1..(5 - 1) /\ 2 \in 1..(5 - 1)
      OBVIOUS
    <3>3. QED  BY <1>3, <3>1, <3>2, MemberHit DEF TakenBefore
  <2>4. ASSUME NEW i \in 1..(5 - 1), P[i].do = "add", NEW o \in P[5].what, NEW p \in P[i].what
        PROVE  ~SameName(o, p)
    <3>1. i \in {1, 2, 3, 4}
      OBVIOUS
    <3>2. i \in {3, 4} /\ i # 5
      BY <1>3, <2>4, <3>1
    <3>3. At(p) = i /\ At(o) = 5
      BY <1>5, <2>4, <3>2
    <3>4. QED  BY <1>6, <3>2, <3>3
  <2>5. QED  BY <1>1, <1>7, <2>1, <2>2, <2>3, <2>4 DEF AddsBack
<1>19. AddsBack(21, 6)
  <2>1. \A o \in P[6].what : Stands(o.table, 21, 6)
    BY <1>4, <1>11 DEF Is
  <2>2. \A o \in P[6].what : o.kind = "key" => o.to = {o.name} /\ Stands(o.name, 21, 6)
    BY <1>8, <1>11
  <2>3. ASSUME NEW o \in P[6].what, NEW p \in Added(21), SameName(o, p)
        PROVE  TakenBefore(P, 6, p)
    <3>1. p \in P[1].what \/ p \in P[2].what
      BY <1>3, Up21
    <3>2. 1 \in 1..(6 - 1) /\ 2 \in 1..(6 - 1)
      OBVIOUS
    <3>3. QED  BY <1>3, <3>1, <3>2, MemberHit DEF TakenBefore
  <2>4. ASSUME NEW i \in 1..(6 - 1), P[i].do = "add", NEW o \in P[6].what, NEW p \in P[i].what
        PROVE  ~SameName(o, p)
    <3>1. i \in {1, 2, 3, 4, 5}
      OBVIOUS
    <3>2. i \in {3, 4, 5} /\ i # 6
      BY <1>3, <2>4, <3>1
    <3>3. At(p) = i /\ At(o) = 6
      BY <1>5, <2>4, <3>2
    <3>4. QED  BY <1>6, <3>2, <3>3
  <2>5. QED  BY <1>1, <1>7, <2>1, <2>2, <2>3, <2>4 DEF AddsBack
<1>20. AddsBack(21, 7)
  <2>1. \A o \in P[7].what : Stands(o.table, 21, 7)
    BY <1>4, <1>11 DEF Is
  <2>2. \A o \in P[7].what : o.kind = "key" => o.to = {o.name} /\ Stands(o.name, 21, 7)
    BY <1>8, <1>11
  <2>3. ASSUME NEW o \in P[7].what, NEW p \in Added(21), SameName(o, p)
        PROVE  TakenBefore(P, 7, p)
    <3>1. p \in P[1].what \/ p \in P[2].what
      BY <1>3, Up21
    <3>2. 1 \in 1..(7 - 1) /\ 2 \in 1..(7 - 1)
      OBVIOUS
    <3>3. QED  BY <1>3, <3>1, <3>2, MemberHit DEF TakenBefore
  <2>4. ASSUME NEW i \in 1..(7 - 1), P[i].do = "add", NEW o \in P[7].what, NEW p \in P[i].what
        PROVE  ~SameName(o, p)
    <3>1. i \in {1, 2, 3, 4, 5, 6}
      OBVIOUS
    <3>2. i \in {3, 4, 5, 6} /\ i # 7
      BY <1>3, <2>4, <3>1
    <3>3. At(p) = i /\ At(o) = 7
      BY <1>5, <2>4, <3>2
    <3>4. QED  BY <1>6, <3>2, <3>3
  <2>5. QED  BY <1>1, <1>7, <2>1, <2>2, <2>3, <2>4 DEF AddsBack
<1>21. AddsBack(21, 8)
  <2>1. \A o \in P[8].what : Stands(o.table, 21, 8)
    BY <1>4, <1>11 DEF Is
  <2>2. \A o \in P[8].what : o.kind = "key" => o.to = {o.name} /\ Stands(o.name, 21, 8)
    BY <1>8, <1>11
  <2>3. ASSUME NEW o \in P[8].what, NEW p \in Added(21), SameName(o, p)
        PROVE  TakenBefore(P, 8, p)
    <3>1. p \in P[1].what \/ p \in P[2].what
      BY <1>3, Up21
    <3>2. 1 \in 1..(8 - 1) /\ 2 \in 1..(8 - 1)
      OBVIOUS
    <3>3. QED  BY <1>3, <3>1, <3>2, MemberHit DEF TakenBefore
  <2>4. ASSUME NEW i \in 1..(8 - 1), P[i].do = "add", NEW o \in P[8].what, NEW p \in P[i].what
        PROVE  ~SameName(o, p)
    <3>1. i \in {1, 2, 3, 4, 5, 6, 7}
      OBVIOUS
    <3>2. i \in {3, 4, 5, 6, 7} /\ i # 8
      BY <1>3, <2>4, <3>1
    <3>3. At(p) = i /\ At(o) = 8
      BY <1>5, <2>4, <3>2
    <3>4. QED  BY <1>6, <3>2, <3>3
  <2>5. QED  BY <1>1, <1>7, <2>1, <2>2, <2>3, <2>4 DEF AddsBack
<1>22. AddsBack(21, 9)
  <2>1. \A o \in P[9].what : Stands(o.table, 21, 9)
    BY <1>4, <1>11 DEF Is
  <2>2. \A o \in P[9].what : o.kind = "key" => o.to = {o.name} /\ Stands(o.name, 21, 9)
    BY <1>8, <1>11
  <2>3. ASSUME NEW o \in P[9].what, NEW p \in Added(21), SameName(o, p)
        PROVE  TakenBefore(P, 9, p)
    <3>1. p \in P[1].what \/ p \in P[2].what
      BY <1>3, Up21
    <3>2. 1 \in 1..(9 - 1) /\ 2 \in 1..(9 - 1)
      OBVIOUS
    <3>3. QED  BY <1>3, <3>1, <3>2, MemberHit DEF TakenBefore
  <2>4. ASSUME NEW i \in 1..(9 - 1), P[i].do = "add", NEW o \in P[9].what, NEW p \in P[i].what
        PROVE  ~SameName(o, p)
    <3>1. i \in {1, 2, 3, 4, 5, 6, 7, 8}
      OBVIOUS
    <3>2. i \in {3, 4, 5, 6, 7, 8} /\ i # 9
      BY <1>3, <2>4, <3>1
    <3>3. At(p) = i /\ At(o) = 9
      BY <1>5, <2>4, <3>2
    <3>4. QED  BY <1>6, <3>2, <3>3
  <2>5. QED  BY <1>1, <1>7, <2>1, <2>2, <2>3, <2>4 DEF AddsBack
<1>23. AddsBack(21, 10)
  <2>1. \A o \in P[10].what : Stands(o.table, 21, 10)
    BY <1>4, <1>11 DEF Is
  <2>2. \A o \in P[10].what : o.kind = "key" => o.to = {o.name} /\ Stands(o.name, 21, 10)
    BY <1>8, <1>11
  <2>3. ASSUME NEW o \in P[10].what, NEW p \in Added(21), SameName(o, p)
        PROVE  TakenBefore(P, 10, p)
    <3>1. p \in P[1].what \/ p \in P[2].what
      BY <1>3, Up21
    <3>2. 1 \in 1..(10 - 1) /\ 2 \in 1..(10 - 1)
      OBVIOUS
    <3>3. QED  BY <1>3, <3>1, <3>2, MemberHit DEF TakenBefore
  <2>4. ASSUME NEW i \in 1..(10 - 1), P[i].do = "add", NEW o \in P[10].what, NEW p \in P[i].what
        PROVE  ~SameName(o, p)
    <3>1. i \in {1, 2, 3, 4, 5, 6, 7, 8, 9}
      OBVIOUS
    <3>2. i \in {3, 4, 5, 6, 7, 8, 9} /\ i # 10
      BY <1>3, <2>4, <3>1
    <3>3. At(p) = i /\ At(o) = 10
      BY <1>5, <2>4, <3>2
    <3>4. QED  BY <1>6, <3>2, <3>3
  <2>5. QED  BY <1>1, <1>7, <2>1, <2>2, <2>3, <2>4 DEF AddsBack
<1>24. AddsBack(21, 11)
  <2>1. \A o \in P[11].what : Stands(o.table, 21, 11)
    BY <1>4, <1>11 DEF Is
  <2>2. \A o \in P[11].what : o.kind = "key" => o.to = {o.name} /\ Stands(o.name, 21, 11)
    BY <1>8, <1>11
  <2>3. ASSUME NEW o \in P[11].what, NEW p \in Added(21), SameName(o, p)
        PROVE  TakenBefore(P, 11, p)
    <3>1. p \in P[1].what \/ p \in P[2].what
      BY <1>3, Up21
    <3>2. 1 \in 1..(11 - 1) /\ 2 \in 1..(11 - 1)
      OBVIOUS
    <3>3. QED  BY <1>3, <3>1, <3>2, MemberHit DEF TakenBefore
  <2>4. ASSUME NEW i \in 1..(11 - 1), P[i].do = "add", NEW o \in P[11].what, NEW p \in P[i].what
        PROVE  ~SameName(o, p)
    <3>1. i \in {1, 2, 3, 4, 5, 6, 7, 8, 9, 10}
      OBVIOUS
    <3>2. i \in {3, 4, 5, 6, 7, 8, 9, 10} /\ i # 11
      BY <1>3, <2>4, <3>1
    <3>3. At(p) = i /\ At(o) = 11
      BY <1>5, <2>4, <3>2
    <3>4. QED  BY <1>6, <3>2, <3>3
  <2>5. QED  BY <1>1, <1>7, <2>1, <2>2, <2>3, <2>4 DEF AddsBack
<1>25. QED
  <2>1. /\ P[1].do = "remove" /\ RemovesBack(21, 1)
        /\ P[2].do = "remove" /\ RemovesBack(21, 2)
        /\ P[3].do = "add" /\ AddsBack(21, 3)
        /\ P[4].do = "add" /\ AddsBack(21, 4)
        /\ P[5].do = "add" /\ AddsBack(21, 5)
        /\ P[6].do = "add" /\ AddsBack(21, 6)
        /\ P[7].do = "add" /\ AddsBack(21, 7)
        /\ P[8].do = "add" /\ AddsBack(21, 8)
        /\ P[9].do = "add" /\ AddsBack(21, 9)
        /\ P[10].do = "add" /\ AddsBack(21, 10)
        /\ P[11].do = "add" /\ AddsBack(21, 11)
    BY <1>3, <1>14, <1>15, <1>16, <1>17, <1>18, <1>19, <1>20, <1>21, <1>22, <1>23, <1>24
  <2>3. QED  BY ONLY <1>1, <1>2, <1>3, <2>1 DEF BackShaped

LEMMA Back24 == BackShaped(24)
<1>1. PICK P : P = Downgrades[24]
  OBVIOUS
<1>2. /\ Len(P) = 6 /\ \A i : i \in 1..6 <=> i \in {1, 2, 3, 4, 5, 6}
      /\ P[1] = Add(SmsColumns)
      /\ P[2] = Add(VerifiedColumns)
      /\ P[3] = Remove({GoogleOnly})
      /\ P[4] = Add({AnyProvider})
      /\ P[5] = Create("verification_codes", {"users"}, {"destination_purpose_created_at"})
      /\ P[6] = Create("sms_messages", {"users"}, {"phone_created_at", "status_created_at"})
  BY <1>1 DEF Downgrades, DropSmsDown
<1>3. /\ \A k \in {1, 2, 4, 5, 6} : P[k].do = "add"
      /\ \A k \in {3} : P[k].do = "remove"
      /\ P[1].what = SmsColumns
      /\ P[2].what = VerifiedColumns
      /\ P[3].what = {GoogleOnly}
      /\ P[4].what = {AnyProvider}
      /\ P[5].what = Made("verification_codes", {"users"}, {"destination_purpose_created_at"})
      /\ P[6].what = Made("sms_messages", {"users"}, {"phone_created_at", "status_created_at"})
  BY <1>2, Statements
<1>4. /\ \A o \in P[1].what :
             \/ Is(o, "column", "staff_invitations", "sms_sent_at")
             \/ Is(o, "column", "staff_invitations", "sms_provider_id")
      /\ \A o \in P[2].what :
             \/ Is(o, "column", "users", "phone_verified_at")
             \/ Is(o, "column", "users", "email_verified_at")
      /\ \A o \in P[4].what :
             \/ Is(o, "check", "auth_identities", "provider")
      /\ \A o \in P[5].what : o.table = "verification_codes" /\ o.kind \in {"table", "key", "index"}
      /\ \A o \in P[6].what : o.table = "sms_messages" /\ o.kind \in {"table", "key", "index"}
  BY <1>3, MadeHas, ColumnIs, CheckIs, KeyIs DEF AnyProvider, SmsColumns, VerifiedColumns, Is
<1> DEFINE At(o) ==
             IF Is(o, "column", "staff_invitations", "sms_sent_at")
                        \/ Is(o, "column", "staff_invitations", "sms_provider_id") THEN 1
             ELSE IF Is(o, "column", "users", "phone_verified_at")
                        \/ Is(o, "column", "users", "email_verified_at") THEN 2
             ELSE IF Is(o, "check", "auth_identities", "provider") THEN 4
             ELSE IF o.table = "verification_codes" /\ o.kind \in {"table", "key", "index"} THEN 5
             ELSE IF o.table = "sms_messages" /\ o.kind \in {"table", "key", "index"} THEN 6
             ELSE 0
<1>5. \A k \in {1, 2, 4, 5, 6} : \A o \in P[k].what : At(o) = k
  BY ONLY <1>4 DEF Is
<1>6. \A o, p : SameName(o, p) => At(o) = At(p)
  BY DEF SameName, Is
<1> HIDE DEF At
<1>7. \A k \in {1, 2, 4, 5, 6} : \A o \in P[k].what : Takes(24, o)
  BY <1>4, Up24 DEF CodeTables, Is
<1>8. /\ \A o \in P[1].what : o.kind = "key" => o.to = {o.name} /\ o.name \in {}
      /\ \A o \in P[2].what : o.kind = "key" => o.to = {o.name} /\ o.name \in {}
      /\ \A o \in P[4].what : o.kind = "key" => o.to = {o.name} /\ o.name \in {}
      /\ \A o \in P[5].what : o.kind = "key" => o.to = {o.name} /\ o.name \in {"users"}
      /\ \A o \in P[6].what : o.kind = "key" => o.to = {o.name} /\ o.name \in {"users"}
  BY <1>3, MadeHas, ColumnIs, CheckIs, KeysAre DEF AnyProvider, SmsColumns, VerifiedColumns
<1>9. /\ Relation("auth_identities") \in Intended(24)
      /\ Relation("staff_invitations") \in Intended(24)
      /\ Relation("users") \in Intended(24)
  <2>1. /\ Birth("auth_identities") <= 20
        /\ Birth("staff_invitations") <= 20
        /\ Birth("users") <= 20
    BY DEF Birth
  <2>2. /\ "auth_identities" = "auth_identities"
        /\ "staff_invitations" \notin PassingTables
        /\ "users" \notin PassingTables
    BY DEF PassingTables, PlanTables, TextTables, CodeTables, MoneyTables, TypeTables
  <2>3. 24 \in 20..30
    OBVIOUS
  <2>4. QED  BY <2>1, <2>2, <2>3, TablesStay
<1>10. /\ Relation("verification_codes") \in P[5].what
       /\ Relation("sms_messages") \in P[6].what
  BY <1>3 DEF Made
<1>11. /\ \A k : Stands("auth_identities", 24, k)
       /\ \A k : Stands("staff_invitations", 24, k)
       /\ \A k : Stands("users", 24, k)
       /\ \A k \in Nat : 5 <= k => Stands("verification_codes", 24, k)
       /\ \A k \in Nat : 6 <= k => Stands("sms_messages", 24, k)
  BY <1>1, <1>3, <1>9, <1>10 DEF Stands
<1>12. \A p \in Added(24) :
         \/ Is(p, "check", "auth_identities", "provider")
  BY Up24, ColumnIs, CheckIs, IndexIs DEF GoogleOnly, Is
<1>13. \A k \in {3} : P[k].what \subseteq Added(24) \ LostIndexes
  <2>1. \A k \in {3} : P[k].what \subseteq Added(24)
    BY <1>3, Up24
  <2>2. \A p \in Added(24) : p \notin LostIndexes
    BY <1>12, LostAre DEF Is
  <2>3. QED  BY <2>1, <2>2
<1>14. RemovesBack(24, 3)
  <2>1. \A o \in P[3].what : o.kind # "table"
    BY <1>12, <1>13 DEF Is
  <2>2. \A o \in P[3].what : ~TakenBefore(P, 3, o)
    <3>1. \A i \in 1..(3 - 1) : i \in {1, 2}
      OBVIOUS
    <3>2. QED  BY <1>3, <3>1 DEF TakenBefore
  <2>3. QED  BY <1>1, <1>13, <2>1, <2>2 DEF RemovesBack, SameName
<1>15. AddsBack(24, 1)
  <2>1. \A o \in P[1].what : Stands(o.table, 24, 1)
    BY <1>4, <1>11 DEF Is
  <2>2. \A o \in P[1].what : o.kind = "key" => o.to = {o.name} /\ Stands(o.name, 24, 1)
    BY <1>8, <1>11
  <2>3. ASSUME NEW o \in P[1].what, NEW p \in Added(24), SameName(o, p)
        PROVE  TakenBefore(P, 1, p)
    BY <1>4, <1>12, <2>3 DEF SameName, Is
  <2>4. ASSUME NEW i \in 1..(1 - 1), P[i].do = "add", NEW o \in P[1].what, NEW p \in P[i].what
        PROVE  ~SameName(o, p)
    OBVIOUS
  <2>5. QED  BY <1>1, <1>7, <2>1, <2>2, <2>3, <2>4 DEF AddsBack
<1>16. AddsBack(24, 2)
  <2>1. \A o \in P[2].what : Stands(o.table, 24, 2)
    BY <1>4, <1>11 DEF Is
  <2>2. \A o \in P[2].what : o.kind = "key" => o.to = {o.name} /\ Stands(o.name, 24, 2)
    BY <1>8, <1>11
  <2>3. ASSUME NEW o \in P[2].what, NEW p \in Added(24), SameName(o, p)
        PROVE  TakenBefore(P, 2, p)
    BY <1>4, <1>12, <2>3 DEF SameName, Is
  <2>4. ASSUME NEW i \in 1..(2 - 1), P[i].do = "add", NEW o \in P[2].what, NEW p \in P[i].what
        PROVE  ~SameName(o, p)
    <3>1. i \in {1}
      OBVIOUS
    <3>2. i \in {1} /\ i # 2
      BY <1>3, <2>4, <3>1
    <3>3. At(p) = i /\ At(o) = 2
      BY <1>5, <2>4, <3>2
    <3>4. QED  BY <1>6, <3>2, <3>3
  <2>5. QED  BY <1>1, <1>7, <2>1, <2>2, <2>3, <2>4 DEF AddsBack
<1>17. AddsBack(24, 4)
  <2>1. \A o \in P[4].what : Stands(o.table, 24, 4)
    BY <1>4, <1>11 DEF Is
  <2>2. \A o \in P[4].what : o.kind = "key" => o.to = {o.name} /\ Stands(o.name, 24, 4)
    BY <1>8, <1>11
  <2>3. ASSUME NEW o \in P[4].what, NEW p \in Added(24), SameName(o, p)
        PROVE  TakenBefore(P, 4, p)
    <3>1. p \in P[3].what
      BY <1>3, Up24
    <3>2. 3 \in 1..(4 - 1)
      OBVIOUS
    <3>3. QED  BY <1>3, <3>1, <3>2, MemberHit DEF TakenBefore
  <2>4. ASSUME NEW i \in 1..(4 - 1), P[i].do = "add", NEW o \in P[4].what, NEW p \in P[i].what
        PROVE  ~SameName(o, p)
    <3>1. i \in {1, 2, 3}
      OBVIOUS
    <3>2. i \in {1, 2} /\ i # 4
      BY <1>3, <2>4, <3>1
    <3>3. At(p) = i /\ At(o) = 4
      BY <1>5, <2>4, <3>2
    <3>4. QED  BY <1>6, <3>2, <3>3
  <2>5. QED  BY <1>1, <1>7, <2>1, <2>2, <2>3, <2>4 DEF AddsBack
<1>18. AddsBack(24, 5)
  <2>1. \A o \in P[5].what : Stands(o.table, 24, 5)
    BY <1>4, <1>11 DEF Is
  <2>2. \A o \in P[5].what : o.kind = "key" => o.to = {o.name} /\ Stands(o.name, 24, 5)
    BY <1>8, <1>11
  <2>3. ASSUME NEW o \in P[5].what, NEW p \in Added(24), SameName(o, p)
        PROVE  TakenBefore(P, 5, p)
    <3>1. p \in P[3].what
      BY <1>3, Up24
    <3>2. 3 \in 1..(5 - 1)
      OBVIOUS
    <3>3. QED  BY <1>3, <3>1, <3>2, MemberHit DEF TakenBefore
  <2>4. ASSUME NEW i \in 1..(5 - 1), P[i].do = "add", NEW o \in P[5].what, NEW p \in P[i].what
        PROVE  ~SameName(o, p)
    <3>1. i \in {1, 2, 3, 4}
      OBVIOUS
    <3>2. i \in {1, 2, 4} /\ i # 5
      BY <1>3, <2>4, <3>1
    <3>3. At(p) = i /\ At(o) = 5
      BY <1>5, <2>4, <3>2
    <3>4. QED  BY <1>6, <3>2, <3>3
  <2>5. QED  BY <1>1, <1>7, <2>1, <2>2, <2>3, <2>4 DEF AddsBack
<1>19. AddsBack(24, 6)
  <2>1. \A o \in P[6].what : Stands(o.table, 24, 6)
    BY <1>4, <1>11 DEF Is
  <2>2. \A o \in P[6].what : o.kind = "key" => o.to = {o.name} /\ Stands(o.name, 24, 6)
    BY <1>8, <1>11
  <2>3. ASSUME NEW o \in P[6].what, NEW p \in Added(24), SameName(o, p)
        PROVE  TakenBefore(P, 6, p)
    <3>1. p \in P[3].what
      BY <1>3, Up24
    <3>2. 3 \in 1..(6 - 1)
      OBVIOUS
    <3>3. QED  BY <1>3, <3>1, <3>2, MemberHit DEF TakenBefore
  <2>4. ASSUME NEW i \in 1..(6 - 1), P[i].do = "add", NEW o \in P[6].what, NEW p \in P[i].what
        PROVE  ~SameName(o, p)
    <3>1. i \in {1, 2, 3, 4, 5}
      OBVIOUS
    <3>2. i \in {1, 2, 4, 5} /\ i # 6
      BY <1>3, <2>4, <3>1
    <3>3. At(p) = i /\ At(o) = 6
      BY <1>5, <2>4, <3>2
    <3>4. QED  BY <1>6, <3>2, <3>3
  <2>5. QED  BY <1>1, <1>7, <2>1, <2>2, <2>3, <2>4 DEF AddsBack
<1>20. QED
  <2>1. /\ P[3].do = "remove" /\ RemovesBack(24, 3)
        /\ P[1].do = "add" /\ AddsBack(24, 1)
        /\ P[2].do = "add" /\ AddsBack(24, 2)
        /\ P[4].do = "add" /\ AddsBack(24, 4)
        /\ P[5].do = "add" /\ AddsBack(24, 5)
        /\ P[6].do = "add" /\ AddsBack(24, 6)
    BY <1>3, <1>14, <1>15, <1>16, <1>17, <1>18, <1>19
  <2>3. QED  BY ONLY <1>1, <1>2, <1>3, <2>1 DEF BackShaped

LEMMA Back25 == BackShaped(25)
<1>1. PICK P : P = Downgrades[25]
  OBVIOUS
<1>2. /\ Len(P) = 15 /\ \A i : i \in 1..15 <=> i \in {1, 2, 3, 4, 5, 6, 7, 8, 9, 10, 11, 12, 13, 14, 15}
      /\ P[1] = Create("banners", {}, {})
      /\ P[2] = Add({Column("banners", "title"), Column("banners", "subtitle")})
      /\ P[3] = Create("promo_codes", {}, {})
      /\ P[4] = Add({AppliesToBookings})
      /\ P[5] = Create("payment_cards", {"users"}, {"user_id"})
      /\ P[6] = Create("payments", {"bookings", "payment_cards", "users"}, {"user_id"})
      /\ P[7] = Add(BookingPaymentChecks)
      /\ P[8] = Create("refunds", {"payments"}, {"payment_id"})
      /\ P[9] = Create("user_promo_codes", {"promo_codes", "users"}, {"user_id_status_expires_at"})
      /\ P[10] = Create("promo_code_redemptions", {"bookings", "promo_codes", "users"}, {})
      /\ P[11] = Remove({UndiscountedLine})
      /\ P[12] = Add({AnyPriceLine})
      /\ P[13] = Add({Column("bookings", "discount_amount")})
      /\ P[14] = Add({Column("bookings", "promo_code_id")})
      /\ P[15] = Add({ForeignKey("bookings", "promo_codes")})
  BY <1>1 DEF Downgrades, DropPaymentsDownMoney, DropPaymentsDownRefunds, DropPaymentsDownBooking
<1>3. /\ \A k \in {1, 2, 3, 4, 5, 6, 7, 8, 9, 10, 12, 13, 14, 15} : P[k].do = "add"
      /\ \A k \in {11} : P[k].do = "remove"
      /\ P[1].what = Made("banners", {}, {})
      /\ P[2].what = {Column("banners", "title"), Column("banners", "subtitle")}
      /\ P[3].what = Made("promo_codes", {}, {})
      /\ P[4].what = {AppliesToBookings}
      /\ P[5].what = Made("payment_cards", {"users"}, {"user_id"})
      /\ P[6].what = Made("payments", {"bookings", "payment_cards", "users"}, {"user_id"})
      /\ P[7].what = BookingPaymentChecks
      /\ P[8].what = Made("refunds", {"payments"}, {"payment_id"})
      /\ P[9].what = Made("user_promo_codes", {"promo_codes", "users"}, {"user_id_status_expires_at"})
      /\ P[10].what = Made("promo_code_redemptions", {"bookings", "promo_codes", "users"}, {})
      /\ P[11].what = {UndiscountedLine}
      /\ P[12].what = {AnyPriceLine}
      /\ P[13].what = {Column("bookings", "discount_amount")}
      /\ P[14].what = {Column("bookings", "promo_code_id")}
      /\ P[15].what = {ForeignKey("bookings", "promo_codes")}
  BY <1>2, Statements
<1>4. /\ \A o \in P[1].what : o.table = "banners" /\ o.kind \in {"table", "key", "index"}
      /\ \A o \in P[2].what :
             \/ Is(o, "column", "banners", "title")
             \/ Is(o, "column", "banners", "subtitle")
      /\ \A o \in P[3].what : o.table = "promo_codes" /\ o.kind \in {"table", "key", "index"}
      /\ \A o \in P[4].what :
             \/ Is(o, "check", "promo_codes", "applies_to")
      /\ \A o \in P[5].what : o.table = "payment_cards" /\ o.kind \in {"table", "key", "index"}
      /\ \A o \in P[6].what : o.table = "payments" /\ o.kind \in {"table", "key", "index"}
      /\ \A o \in P[7].what :
             \/ Is(o, "check", "payments", "target")
             \/ Is(o, "check", "payments", "kind")
      /\ \A o \in P[8].what : o.table = "refunds" /\ o.kind \in {"table", "key", "index"}
      /\ \A o \in P[9].what : o.table = "user_promo_codes" /\ o.kind \in {"table", "key", "index"}
      /\ \A o \in P[10].what : o.table = "promo_code_redemptions" /\ o.kind \in {"table", "key", "index"}
      /\ \A o \in P[12].what :
             \/ Is(o, "check", "booking_price_lines", "line_type")
      /\ \A o \in P[13].what :
             \/ Is(o, "column", "bookings", "discount_amount")
      /\ \A o \in P[14].what :
             \/ Is(o, "column", "bookings", "promo_code_id")
      /\ \A o \in P[15].what :
             \/ Is(o, "key", "bookings", "promo_codes")
  BY <1>3, MadeHas, ColumnIs, CheckIs, KeyIs DEF AnyPriceLine, AppliesToBookings, BookingPaymentChecks, Is
<1> DEFINE At(o) ==
             IF o.table = "banners" /\ o.kind \in {"table", "key", "index"} THEN 1
             ELSE IF Is(o, "column", "banners", "title")
                        \/ Is(o, "column", "banners", "subtitle") THEN 2
             ELSE IF o.table = "promo_codes" /\ o.kind \in {"table", "key", "index"} THEN 3
             ELSE IF Is(o, "check", "promo_codes", "applies_to") THEN 4
             ELSE IF o.table = "payment_cards" /\ o.kind \in {"table", "key", "index"} THEN 5
             ELSE IF o.table = "payments" /\ o.kind \in {"table", "key", "index"} THEN 6
             ELSE IF Is(o, "check", "payments", "target")
                        \/ Is(o, "check", "payments", "kind") THEN 7
             ELSE IF o.table = "refunds" /\ o.kind \in {"table", "key", "index"} THEN 8
             ELSE IF o.table = "user_promo_codes" /\ o.kind \in {"table", "key", "index"} THEN 9
             ELSE IF o.table = "promo_code_redemptions" /\ o.kind \in {"table", "key", "index"} THEN 10
             ELSE IF Is(o, "check", "booking_price_lines", "line_type") THEN 12
             ELSE IF Is(o, "column", "bookings", "discount_amount") THEN 13
             ELSE IF Is(o, "column", "bookings", "promo_code_id") THEN 14
             ELSE IF Is(o, "key", "bookings", "promo_codes") THEN 15
             ELSE 0
<1>5. \A k \in {1, 2, 3, 4, 5, 6, 7, 8, 9, 10, 12, 13, 14, 15} : \A o \in P[k].what : At(o) = k
  BY ONLY <1>4 DEF Is
<1>6. \A o, p : SameName(o, p) => At(o) = At(p)
  BY DEF SameName, Is
<1> HIDE DEF At
<1>7. \A k \in {1, 2, 3, 4, 5, 6, 7, 8, 9, 10, 12, 13, 14, 15} : \A o \in P[k].what : Takes(25, o)
  BY <1>4, Up25 DEF MoneyTables, Is
<1>8. /\ \A o \in P[1].what : o.kind = "key" => o.to = {o.name} /\ o.name \in {}
      /\ \A o \in P[2].what : o.kind = "key" => o.to = {o.name} /\ o.name \in {}
      /\ \A o \in P[3].what : o.kind = "key" => o.to = {o.name} /\ o.name \in {}
      /\ \A o \in P[4].what : o.kind = "key" => o.to = {o.name} /\ o.name \in {}
      /\ \A o \in P[5].what : o.kind = "key" => o.to = {o.name} /\ o.name \in {"users"}
      /\ \A o \in P[6].what : o.kind = "key" => o.to = {o.name} /\ o.name \in {"bookings", "payment_cards", "users"}
      /\ \A o \in P[7].what : o.kind = "key" => o.to = {o.name} /\ o.name \in {}
      /\ \A o \in P[8].what : o.kind = "key" => o.to = {o.name} /\ o.name \in {"payments"}
      /\ \A o \in P[9].what : o.kind = "key" => o.to = {o.name} /\ o.name \in {"promo_codes", "users"}
      /\ \A o \in P[10].what : o.kind = "key" => o.to = {o.name} /\ o.name \in {"bookings", "promo_codes", "users"}
      /\ \A o \in P[12].what : o.kind = "key" => o.to = {o.name} /\ o.name \in {}
      /\ \A o \in P[13].what : o.kind = "key" => o.to = {o.name} /\ o.name \in {}
      /\ \A o \in P[14].what : o.kind = "key" => o.to = {o.name} /\ o.name \in {}
      /\ \A o \in P[15].what : o.kind = "key" => o.to = {o.name} /\ o.name \in {"promo_codes"}
  BY <1>3, MadeHas, ColumnIs, CheckIs, KeysAre DEF AnyPriceLine, AppliesToBookings, BookingPaymentChecks
<1>9. /\ Relation("booking_price_lines") \in Intended(25)
      /\ Relation("bookings") \in Intended(25)
      /\ Relation("users") \in Intended(25)
  <2>1. /\ Birth("booking_price_lines") <= 20
        /\ Birth("bookings") <= 20
        /\ Birth("users") <= 20
    BY DEF Birth
  <2>2. /\ "booking_price_lines" \notin PassingTables
        /\ "bookings" \notin PassingTables
        /\ "users" \notin PassingTables
    BY DEF PassingTables, PlanTables, TextTables, CodeTables, MoneyTables, TypeTables
  <2>3. 25 \in 20..30
    OBVIOUS
  <2>4. QED  BY <2>1, <2>2, <2>3, TablesStay
<1>10. /\ Relation("banners") \in P[1].what
       /\ Relation("promo_codes") \in P[3].what
       /\ Relation("payment_cards") \in P[5].what
       /\ Relation("payments") \in P[6].what
       /\ Relation("refunds") \in P[8].what
       /\ Relation("user_promo_codes") \in P[9].what
       /\ Relation("promo_code_redemptions") \in P[10].what
  BY <1>3 DEF Made
<1>11. /\ \A k : Stands("booking_price_lines", 25, k)
       /\ \A k : Stands("bookings", 25, k)
       /\ \A k : Stands("users", 25, k)
       /\ \A k \in Nat : 1 <= k => Stands("banners", 25, k)
       /\ \A k \in Nat : 3 <= k => Stands("promo_codes", 25, k)
       /\ \A k \in Nat : 5 <= k => Stands("payment_cards", 25, k)
       /\ \A k \in Nat : 6 <= k => Stands("payments", 25, k)
       /\ \A k \in Nat : 8 <= k => Stands("refunds", 25, k)
       /\ \A k \in Nat : 9 <= k => Stands("user_promo_codes", 25, k)
       /\ \A k \in Nat : 10 <= k => Stands("promo_code_redemptions", 25, k)
  BY <1>1, <1>3, <1>9, <1>10 DEF Stands
<1>12. \A p \in Added(25) :
         \/ Is(p, "check", "booking_price_lines", "line_type")
  BY Up25, ColumnIs, CheckIs, IndexIs DEF UndiscountedLine, Is
<1>13. \A k \in {11} : P[k].what \subseteq Added(25) \ LostIndexes
  <2>1. \A k \in {11} : P[k].what \subseteq Added(25)
    BY <1>3, Up25
  <2>2. \A p \in Added(25) : p \notin LostIndexes
    BY <1>12, LostAre DEF Is
  <2>3. QED  BY <2>1, <2>2
<1>14. RemovesBack(25, 11)
  <2>1. \A o \in P[11].what : o.kind # "table"
    BY <1>12, <1>13 DEF Is
  <2>2. \A o \in P[11].what : ~TakenBefore(P, 11, o)
    <3>1. \A i \in 1..(11 - 1) : i \in {1, 2, 3, 4, 5, 6, 7, 8, 9, 10}
      OBVIOUS
    <3>2. QED  BY <1>3, <3>1 DEF TakenBefore
  <2>3. QED  BY <1>1, <1>13, <2>1, <2>2 DEF RemovesBack, SameName
<1>15. AddsBack(25, 1)
  <2>1. \A o \in P[1].what : Stands(o.table, 25, 1)
    BY <1>4, <1>11 DEF Is
  <2>2. \A o \in P[1].what : o.kind = "key" => o.to = {o.name} /\ Stands(o.name, 25, 1)
    BY <1>8, <1>11
  <2>3. ASSUME NEW o \in P[1].what, NEW p \in Added(25), SameName(o, p)
        PROVE  TakenBefore(P, 1, p)
    BY <1>4, <1>12, <2>3 DEF SameName, Is
  <2>4. ASSUME NEW i \in 1..(1 - 1), P[i].do = "add", NEW o \in P[1].what, NEW p \in P[i].what
        PROVE  ~SameName(o, p)
    OBVIOUS
  <2>5. QED  BY <1>1, <1>7, <2>1, <2>2, <2>3, <2>4 DEF AddsBack
<1>16. AddsBack(25, 2)
  <2>1. \A o \in P[2].what : Stands(o.table, 25, 2)
    BY <1>4, <1>11 DEF Is
  <2>2. \A o \in P[2].what : o.kind = "key" => o.to = {o.name} /\ Stands(o.name, 25, 2)
    BY <1>8, <1>11
  <2>3. ASSUME NEW o \in P[2].what, NEW p \in Added(25), SameName(o, p)
        PROVE  TakenBefore(P, 2, p)
    BY <1>4, <1>12, <2>3 DEF SameName, Is
  <2>4. ASSUME NEW i \in 1..(2 - 1), P[i].do = "add", NEW o \in P[2].what, NEW p \in P[i].what
        PROVE  ~SameName(o, p)
    <3>1. i \in {1}
      OBVIOUS
    <3>2. i \in {1} /\ i # 2
      BY <1>3, <2>4, <3>1
    <3>3. At(p) = i /\ At(o) = 2
      BY <1>5, <2>4, <3>2
    <3>4. QED  BY <1>6, <3>2, <3>3
  <2>5. QED  BY <1>1, <1>7, <2>1, <2>2, <2>3, <2>4 DEF AddsBack
<1>17. AddsBack(25, 3)
  <2>1. \A o \in P[3].what : Stands(o.table, 25, 3)
    BY <1>4, <1>11 DEF Is
  <2>2. \A o \in P[3].what : o.kind = "key" => o.to = {o.name} /\ Stands(o.name, 25, 3)
    BY <1>8, <1>11
  <2>3. ASSUME NEW o \in P[3].what, NEW p \in Added(25), SameName(o, p)
        PROVE  TakenBefore(P, 3, p)
    BY <1>4, <1>12, <2>3 DEF SameName, Is
  <2>4. ASSUME NEW i \in 1..(3 - 1), P[i].do = "add", NEW o \in P[3].what, NEW p \in P[i].what
        PROVE  ~SameName(o, p)
    <3>1. i \in {1, 2}
      OBVIOUS
    <3>2. i \in {1, 2} /\ i # 3
      BY <1>3, <2>4, <3>1
    <3>3. At(p) = i /\ At(o) = 3
      BY <1>5, <2>4, <3>2
    <3>4. QED  BY <1>6, <3>2, <3>3
  <2>5. QED  BY <1>1, <1>7, <2>1, <2>2, <2>3, <2>4 DEF AddsBack
<1>18. AddsBack(25, 4)
  <2>1. \A o \in P[4].what : Stands(o.table, 25, 4)
    BY <1>4, <1>11 DEF Is
  <2>2. \A o \in P[4].what : o.kind = "key" => o.to = {o.name} /\ Stands(o.name, 25, 4)
    BY <1>8, <1>11
  <2>3. ASSUME NEW o \in P[4].what, NEW p \in Added(25), SameName(o, p)
        PROVE  TakenBefore(P, 4, p)
    BY <1>4, <1>12, <2>3 DEF SameName, Is
  <2>4. ASSUME NEW i \in 1..(4 - 1), P[i].do = "add", NEW o \in P[4].what, NEW p \in P[i].what
        PROVE  ~SameName(o, p)
    <3>1. i \in {1, 2, 3}
      OBVIOUS
    <3>2. i \in {1, 2, 3} /\ i # 4
      BY <1>3, <2>4, <3>1
    <3>3. At(p) = i /\ At(o) = 4
      BY <1>5, <2>4, <3>2
    <3>4. QED  BY <1>6, <3>2, <3>3
  <2>5. QED  BY <1>1, <1>7, <2>1, <2>2, <2>3, <2>4 DEF AddsBack
<1>19. AddsBack(25, 5)
  <2>1. \A o \in P[5].what : Stands(o.table, 25, 5)
    BY <1>4, <1>11 DEF Is
  <2>2. \A o \in P[5].what : o.kind = "key" => o.to = {o.name} /\ Stands(o.name, 25, 5)
    BY <1>8, <1>11
  <2>3. ASSUME NEW o \in P[5].what, NEW p \in Added(25), SameName(o, p)
        PROVE  TakenBefore(P, 5, p)
    BY <1>4, <1>12, <2>3 DEF SameName, Is
  <2>4. ASSUME NEW i \in 1..(5 - 1), P[i].do = "add", NEW o \in P[5].what, NEW p \in P[i].what
        PROVE  ~SameName(o, p)
    <3>1. i \in {1, 2, 3, 4}
      OBVIOUS
    <3>2. i \in {1, 2, 3, 4} /\ i # 5
      BY <1>3, <2>4, <3>1
    <3>3. At(p) = i /\ At(o) = 5
      BY <1>5, <2>4, <3>2
    <3>4. QED  BY <1>6, <3>2, <3>3
  <2>5. QED  BY <1>1, <1>7, <2>1, <2>2, <2>3, <2>4 DEF AddsBack
<1>20. AddsBack(25, 6)
  <2>1. \A o \in P[6].what : Stands(o.table, 25, 6)
    BY <1>4, <1>11 DEF Is
  <2>2. \A o \in P[6].what : o.kind = "key" => o.to = {o.name} /\ Stands(o.name, 25, 6)
    BY <1>8, <1>11
  <2>3. ASSUME NEW o \in P[6].what, NEW p \in Added(25), SameName(o, p)
        PROVE  TakenBefore(P, 6, p)
    BY <1>4, <1>12, <2>3 DEF SameName, Is
  <2>4. ASSUME NEW i \in 1..(6 - 1), P[i].do = "add", NEW o \in P[6].what, NEW p \in P[i].what
        PROVE  ~SameName(o, p)
    <3>1. i \in {1, 2, 3, 4, 5}
      OBVIOUS
    <3>2. i \in {1, 2, 3, 4, 5} /\ i # 6
      BY <1>3, <2>4, <3>1
    <3>3. At(p) = i /\ At(o) = 6
      BY <1>5, <2>4, <3>2
    <3>4. QED  BY <1>6, <3>2, <3>3
  <2>5. QED  BY <1>1, <1>7, <2>1, <2>2, <2>3, <2>4 DEF AddsBack
<1>21. AddsBack(25, 7)
  <2>1. \A o \in P[7].what : Stands(o.table, 25, 7)
    BY <1>4, <1>11 DEF Is
  <2>2. \A o \in P[7].what : o.kind = "key" => o.to = {o.name} /\ Stands(o.name, 25, 7)
    BY <1>8, <1>11
  <2>3. ASSUME NEW o \in P[7].what, NEW p \in Added(25), SameName(o, p)
        PROVE  TakenBefore(P, 7, p)
    BY <1>4, <1>12, <2>3 DEF SameName, Is
  <2>4. ASSUME NEW i \in 1..(7 - 1), P[i].do = "add", NEW o \in P[7].what, NEW p \in P[i].what
        PROVE  ~SameName(o, p)
    <3>1. i \in {1, 2, 3, 4, 5, 6}
      OBVIOUS
    <3>2. i \in {1, 2, 3, 4, 5, 6} /\ i # 7
      BY <1>3, <2>4, <3>1
    <3>3. At(p) = i /\ At(o) = 7
      BY <1>5, <2>4, <3>2
    <3>4. QED  BY <1>6, <3>2, <3>3
  <2>5. QED  BY <1>1, <1>7, <2>1, <2>2, <2>3, <2>4 DEF AddsBack
<1>22. AddsBack(25, 8)
  <2>1. \A o \in P[8].what : Stands(o.table, 25, 8)
    BY <1>4, <1>11 DEF Is
  <2>2. \A o \in P[8].what : o.kind = "key" => o.to = {o.name} /\ Stands(o.name, 25, 8)
    BY <1>8, <1>11
  <2>3. ASSUME NEW o \in P[8].what, NEW p \in Added(25), SameName(o, p)
        PROVE  TakenBefore(P, 8, p)
    BY <1>4, <1>12, <2>3 DEF SameName, Is
  <2>4. ASSUME NEW i \in 1..(8 - 1), P[i].do = "add", NEW o \in P[8].what, NEW p \in P[i].what
        PROVE  ~SameName(o, p)
    <3>1. i \in {1, 2, 3, 4, 5, 6, 7}
      OBVIOUS
    <3>2. i \in {1, 2, 3, 4, 5, 6, 7} /\ i # 8
      BY <1>3, <2>4, <3>1
    <3>3. At(p) = i /\ At(o) = 8
      BY <1>5, <2>4, <3>2
    <3>4. QED  BY <1>6, <3>2, <3>3
  <2>5. QED  BY <1>1, <1>7, <2>1, <2>2, <2>3, <2>4 DEF AddsBack
<1>23. AddsBack(25, 9)
  <2>1. \A o \in P[9].what : Stands(o.table, 25, 9)
    BY <1>4, <1>11 DEF Is
  <2>2. \A o \in P[9].what : o.kind = "key" => o.to = {o.name} /\ Stands(o.name, 25, 9)
    BY <1>8, <1>11
  <2>3. ASSUME NEW o \in P[9].what, NEW p \in Added(25), SameName(o, p)
        PROVE  TakenBefore(P, 9, p)
    BY <1>4, <1>12, <2>3 DEF SameName, Is
  <2>4. ASSUME NEW i \in 1..(9 - 1), P[i].do = "add", NEW o \in P[9].what, NEW p \in P[i].what
        PROVE  ~SameName(o, p)
    <3>1. i \in {1, 2, 3, 4, 5, 6, 7, 8}
      OBVIOUS
    <3>2. i \in {1, 2, 3, 4, 5, 6, 7, 8} /\ i # 9
      BY <1>3, <2>4, <3>1
    <3>3. At(p) = i /\ At(o) = 9
      BY <1>5, <2>4, <3>2
    <3>4. QED  BY <1>6, <3>2, <3>3
  <2>5. QED  BY <1>1, <1>7, <2>1, <2>2, <2>3, <2>4 DEF AddsBack
<1>24. AddsBack(25, 10)
  <2>1. \A o \in P[10].what : Stands(o.table, 25, 10)
    BY <1>4, <1>11 DEF Is
  <2>2. \A o \in P[10].what : o.kind = "key" => o.to = {o.name} /\ Stands(o.name, 25, 10)
    BY <1>8, <1>11
  <2>3. ASSUME NEW o \in P[10].what, NEW p \in Added(25), SameName(o, p)
        PROVE  TakenBefore(P, 10, p)
    BY <1>4, <1>12, <2>3 DEF SameName, Is
  <2>4. ASSUME NEW i \in 1..(10 - 1), P[i].do = "add", NEW o \in P[10].what, NEW p \in P[i].what
        PROVE  ~SameName(o, p)
    <3>1. i \in {1, 2, 3, 4, 5, 6, 7, 8, 9}
      OBVIOUS
    <3>2. i \in {1, 2, 3, 4, 5, 6, 7, 8, 9} /\ i # 10
      BY <1>3, <2>4, <3>1
    <3>3. At(p) = i /\ At(o) = 10
      BY <1>5, <2>4, <3>2
    <3>4. QED  BY <1>6, <3>2, <3>3
  <2>5. QED  BY <1>1, <1>7, <2>1, <2>2, <2>3, <2>4 DEF AddsBack
<1>25. AddsBack(25, 12)
  <2>1. \A o \in P[12].what : Stands(o.table, 25, 12)
    BY <1>4, <1>11 DEF Is
  <2>2. \A o \in P[12].what : o.kind = "key" => o.to = {o.name} /\ Stands(o.name, 25, 12)
    BY <1>8, <1>11
  <2>3. ASSUME NEW o \in P[12].what, NEW p \in Added(25), SameName(o, p)
        PROVE  TakenBefore(P, 12, p)
    <3>1. p \in P[11].what
      BY <1>3, Up25
    <3>2. 11 \in 1..(12 - 1)
      OBVIOUS
    <3>3. QED  BY <1>3, <3>1, <3>2, MemberHit DEF TakenBefore
  <2>4. ASSUME NEW i \in 1..(12 - 1), P[i].do = "add", NEW o \in P[12].what, NEW p \in P[i].what
        PROVE  ~SameName(o, p)
    <3>1. i \in {1, 2, 3, 4, 5, 6, 7, 8, 9, 10, 11}
      OBVIOUS
    <3>2. i \in {1, 2, 3, 4, 5, 6, 7, 8, 9, 10} /\ i # 12
      BY <1>3, <2>4, <3>1
    <3>3. At(p) = i /\ At(o) = 12
      BY <1>5, <2>4, <3>2
    <3>4. QED  BY <1>6, <3>2, <3>3
  <2>5. QED  BY <1>1, <1>7, <2>1, <2>2, <2>3, <2>4 DEF AddsBack
<1>26. AddsBack(25, 13)
  <2>1. \A o \in P[13].what : Stands(o.table, 25, 13)
    BY <1>4, <1>11 DEF Is
  <2>2. \A o \in P[13].what : o.kind = "key" => o.to = {o.name} /\ Stands(o.name, 25, 13)
    BY <1>8, <1>11
  <2>3. ASSUME NEW o \in P[13].what, NEW p \in Added(25), SameName(o, p)
        PROVE  TakenBefore(P, 13, p)
    <3>1. p \in P[11].what
      BY <1>3, Up25
    <3>2. 11 \in 1..(13 - 1)
      OBVIOUS
    <3>3. QED  BY <1>3, <3>1, <3>2, MemberHit DEF TakenBefore
  <2>4. ASSUME NEW i \in 1..(13 - 1), P[i].do = "add", NEW o \in P[13].what, NEW p \in P[i].what
        PROVE  ~SameName(o, p)
    <3>1. i \in {1, 2, 3, 4, 5, 6, 7, 8, 9, 10, 11, 12}
      OBVIOUS
    <3>2. i \in {1, 2, 3, 4, 5, 6, 7, 8, 9, 10, 12} /\ i # 13
      BY <1>3, <2>4, <3>1
    <3>3. At(p) = i /\ At(o) = 13
      BY <1>5, <2>4, <3>2
    <3>4. QED  BY <1>6, <3>2, <3>3
  <2>5. QED  BY <1>1, <1>7, <2>1, <2>2, <2>3, <2>4 DEF AddsBack
<1>27. AddsBack(25, 14)
  <2>1. \A o \in P[14].what : Stands(o.table, 25, 14)
    BY <1>4, <1>11 DEF Is
  <2>2. \A o \in P[14].what : o.kind = "key" => o.to = {o.name} /\ Stands(o.name, 25, 14)
    BY <1>8, <1>11
  <2>3. ASSUME NEW o \in P[14].what, NEW p \in Added(25), SameName(o, p)
        PROVE  TakenBefore(P, 14, p)
    <3>1. p \in P[11].what
      BY <1>3, Up25
    <3>2. 11 \in 1..(14 - 1)
      OBVIOUS
    <3>3. QED  BY <1>3, <3>1, <3>2, MemberHit DEF TakenBefore
  <2>4. ASSUME NEW i \in 1..(14 - 1), P[i].do = "add", NEW o \in P[14].what, NEW p \in P[i].what
        PROVE  ~SameName(o, p)
    <3>1. i \in {1, 2, 3, 4, 5, 6, 7, 8, 9, 10, 11, 12, 13}
      OBVIOUS
    <3>2. i \in {1, 2, 3, 4, 5, 6, 7, 8, 9, 10, 12, 13} /\ i # 14
      BY <1>3, <2>4, <3>1
    <3>3. At(p) = i /\ At(o) = 14
      BY <1>5, <2>4, <3>2
    <3>4. QED  BY <1>6, <3>2, <3>3
  <2>5. QED  BY <1>1, <1>7, <2>1, <2>2, <2>3, <2>4 DEF AddsBack
<1>28. AddsBack(25, 15)
  <2>1. \A o \in P[15].what : Stands(o.table, 25, 15)
    BY <1>4, <1>11 DEF Is
  <2>2. \A o \in P[15].what : o.kind = "key" => o.to = {o.name} /\ Stands(o.name, 25, 15)
    BY <1>8, <1>11
  <2>3. ASSUME NEW o \in P[15].what, NEW p \in Added(25), SameName(o, p)
        PROVE  TakenBefore(P, 15, p)
    <3>1. p \in P[11].what
      BY <1>3, Up25
    <3>2. 11 \in 1..(15 - 1)
      OBVIOUS
    <3>3. QED  BY <1>3, <3>1, <3>2, MemberHit DEF TakenBefore
  <2>4. ASSUME NEW i \in 1..(15 - 1), P[i].do = "add", NEW o \in P[15].what, NEW p \in P[i].what
        PROVE  ~SameName(o, p)
    <3>1. i \in {1, 2, 3, 4, 5, 6, 7, 8, 9, 10, 11, 12, 13, 14}
      OBVIOUS
    <3>2. i \in {1, 2, 3, 4, 5, 6, 7, 8, 9, 10, 12, 13, 14} /\ i # 15
      BY <1>3, <2>4, <3>1
    <3>3. At(p) = i /\ At(o) = 15
      BY <1>5, <2>4, <3>2
    <3>4. QED  BY <1>6, <3>2, <3>3
  <2>5. QED  BY <1>1, <1>7, <2>1, <2>2, <2>3, <2>4 DEF AddsBack
<1>29. QED
  <2>1. /\ P[11].do = "remove" /\ RemovesBack(25, 11)
        /\ P[1].do = "add" /\ AddsBack(25, 1)
        /\ P[2].do = "add" /\ AddsBack(25, 2)
        /\ P[3].do = "add" /\ AddsBack(25, 3)
        /\ P[4].do = "add" /\ AddsBack(25, 4)
        /\ P[5].do = "add" /\ AddsBack(25, 5)
        /\ P[6].do = "add" /\ AddsBack(25, 6)
        /\ P[7].do = "add" /\ AddsBack(25, 7)
        /\ P[8].do = "add" /\ AddsBack(25, 8)
        /\ P[9].do = "add" /\ AddsBack(25, 9)
        /\ P[10].do = "add" /\ AddsBack(25, 10)
        /\ P[12].do = "add" /\ AddsBack(25, 12)
        /\ P[13].do = "add" /\ AddsBack(25, 13)
        /\ P[14].do = "add" /\ AddsBack(25, 14)
        /\ P[15].do = "add" /\ AddsBack(25, 15)
    BY <1>3, <1>14, <1>15, <1>16, <1>17, <1>18, <1>19, <1>20, <1>21,
       <1>22, <1>23, <1>24, <1>25, <1>26, <1>27, <1>28
  <2>3. QED  BY ONLY <1>1, <1>2, <1>3, <2>1 DEF BackShaped

LEMMA Back26 == BackShaped(26)
<1>1. PICK P : P = Downgrades[26]
  OBVIOUS
<1>2. /\ Len(P) = 2 /\ \A i : i \in 1..2 <=> i \in {1, 2}
      /\ P[1] = Create("auth_identities", {"users"}, {"user_id"})
      /\ P[2] = Add({GoogleOnly})
  BY <1>1 DEF Downgrades, DropIdentitiesDown
<1>3. /\ \A k \in {1, 2} : P[k].do = "add"
      /\ P[1].what = Made("auth_identities", {"users"}, {"user_id"})
      /\ P[2].what = {GoogleOnly}
  BY <1>2, Statements
<1>4. /\ \A o \in P[1].what : o.table = "auth_identities" /\ o.kind \in {"table", "key", "index"}
      /\ \A o \in P[2].what :
             \/ Is(o, "check", "auth_identities", "provider")
  BY <1>3, MadeHas, ColumnIs, CheckIs, KeyIs DEF GoogleOnly, Is
<1> DEFINE At(o) ==
             IF o.table = "auth_identities" /\ o.kind \in {"table", "key", "index"} THEN 1
             ELSE IF Is(o, "check", "auth_identities", "provider") THEN 2
             ELSE 0
<1>5. \A k \in {1, 2} : \A o \in P[k].what : At(o) = k
  BY ONLY <1>4 DEF Is
<1>6. \A o, p : SameName(o, p) => At(o) = At(p)
  BY DEF SameName, Is
<1> HIDE DEF At
<1>7. \A k \in {1, 2} : \A o \in P[k].what : Takes(26, o)
  BY <1>4, Up26 DEF Is
<1>8. /\ \A o \in P[1].what : o.kind = "key" => o.to = {o.name} /\ o.name \in {"users"}
      /\ \A o \in P[2].what : o.kind = "key" => o.to = {o.name} /\ o.name \in {}
  BY <1>3, MadeHas, ColumnIs, CheckIs, KeysAre DEF GoogleOnly
<1>9. /\ Relation("users") \in Intended(26)
  <2>1. /\ Birth("users") <= 20
    BY DEF Birth
  <2>2. /\ "users" \notin PassingTables
    BY DEF PassingTables, PlanTables, TextTables, CodeTables, MoneyTables, TypeTables
  <2>3. 26 \in 20..30
    OBVIOUS
  <2>4. QED  BY <2>1, <2>2, <2>3, TablesStay
<1>10. /\ Relation("auth_identities") \in P[1].what
  BY <1>3 DEF Made
<1>11. /\ \A k : Stands("users", 26, k)
       /\ \A k \in Nat : 1 <= k => Stands("auth_identities", 26, k)
  BY <1>1, <1>3, <1>9, <1>10 DEF Stands
<1>12. Added(26) = {}
  BY Up26
<1>14. AddsBack(26, 1)
  <2>1. \A o \in P[1].what : Stands(o.table, 26, 1)
    BY <1>4, <1>11 DEF Is
  <2>2. \A o \in P[1].what : o.kind = "key" => o.to = {o.name} /\ Stands(o.name, 26, 1)
    BY <1>8, <1>11
  <2>3. ASSUME NEW o \in P[1].what, NEW p \in Added(26), SameName(o, p)
        PROVE  TakenBefore(P, 1, p)
    BY <1>4, <1>12, <2>3 DEF SameName, Is
  <2>4. ASSUME NEW i \in 1..(1 - 1), P[i].do = "add", NEW o \in P[1].what, NEW p \in P[i].what
        PROVE  ~SameName(o, p)
    OBVIOUS
  <2>5. QED  BY <1>1, <1>7, <2>1, <2>2, <2>3, <2>4 DEF AddsBack
<1>15. AddsBack(26, 2)
  <2>1. \A o \in P[2].what : Stands(o.table, 26, 2)
    BY <1>4, <1>11 DEF Is
  <2>2. \A o \in P[2].what : o.kind = "key" => o.to = {o.name} /\ Stands(o.name, 26, 2)
    BY <1>8, <1>11
  <2>3. ASSUME NEW o \in P[2].what, NEW p \in Added(26), SameName(o, p)
        PROVE  TakenBefore(P, 2, p)
    BY <1>4, <1>12, <2>3 DEF SameName, Is
  <2>4. ASSUME NEW i \in 1..(2 - 1), P[i].do = "add", NEW o \in P[2].what, NEW p \in P[i].what
        PROVE  ~SameName(o, p)
    <3>1. i \in {1}
      OBVIOUS
    <3>2. i \in {1} /\ i # 2
      BY <1>3, <2>4, <3>1
    <3>3. At(p) = i /\ At(o) = 2
      BY <1>5, <2>4, <3>2
    <3>4. QED  BY <1>6, <3>2, <3>3
  <2>5. QED  BY <1>1, <1>7, <2>1, <2>2, <2>3, <2>4 DEF AddsBack
<1>16. QED
  <2>1. /\ P[1].do = "add" /\ AddsBack(26, 1)
        /\ P[2].do = "add" /\ AddsBack(26, 2)
    BY <1>3, <1>14, <1>15
  <2>3. QED  BY ONLY <1>1, <1>2, <1>3, <2>1 DEF BackShaped

LEMMA Back27 == BackShaped(27)
<1>1. PICK P : P = Downgrades[27]
  OBVIOUS
<1>2. /\ Len(P) = 8 /\ \A i : i \in 1..8 <=> i \in {1, 2, 3, 4, 5, 6, 7, 8}
      /\ P[1] = Create("venue_types", {}, {})
      /\ P[2] = Add({Column("venue_types", "name")})
      /\ P[3] = Insert({Seed("venue_types")})
      /\ P[4] = Create("venue_venue_types", {"venues", "venue_types"}, {})
      /\ P[5] = Add({Column("venue_groups", "primary_venue_type_id"),
                    ForeignKey("venue_groups", "venue_types")})
      /\ P[6] = Add({Column("service_catalog", "applies_to_venue_type_id"),
                    ForeignKey("service_catalog", "venue_types")})
      /\ P[7] = Remove({Index("venues", "venue_type")})
      /\ P[8] = Remove(VenueTypeColumns \cup VenueTypeChecks)
  BY <1>1 DEF Downgrades, VenueTypeEnumDown
<1>3. /\ \A k \in {1, 2, 4, 5, 6} : P[k].do = "add"
      /\ \A k \in {7, 8} : P[k].do = "remove"
      /\ P[3].do = "insert"
      /\ P[1].what = Made("venue_types", {}, {})
      /\ P[2].what = {Column("venue_types", "name")}
      /\ P[4].what = Made("venue_venue_types", {"venues", "venue_types"}, {})
      /\ P[5].what = {Column("venue_groups", "primary_venue_type_id"),
                    ForeignKey("venue_groups", "venue_types")}
      /\ P[6].what = {Column("service_catalog", "applies_to_venue_type_id"),
                    ForeignKey("service_catalog", "venue_types")}
      /\ P[7].what = {Index("venues", "venue_type")}
      /\ P[8].what = VenueTypeColumns \cup VenueTypeChecks
  BY <1>2, Statements
<1>4. /\ \A o \in P[1].what : o.table = "venue_types" /\ o.kind \in {"table", "key", "index"}
      /\ \A o \in P[2].what :
             \/ Is(o, "column", "venue_types", "name")
      /\ \A o \in P[4].what : o.table = "venue_venue_types" /\ o.kind \in {"table", "key", "index"}
      /\ \A o \in P[5].what :
             \/ Is(o, "column", "venue_groups", "primary_venue_type_id")
             \/ Is(o, "key", "venue_groups", "venue_types")
      /\ \A o \in P[6].what :
             \/ Is(o, "column", "service_catalog", "applies_to_venue_type_id")
             \/ Is(o, "key", "service_catalog", "venue_types")
  BY <1>3, MadeHas, ColumnIs, CheckIs, KeyIs DEF Is
<1> DEFINE At(o) ==
             IF o.table = "venue_types" /\ o.kind \in {"table", "key", "index"} THEN 1
             ELSE IF Is(o, "column", "venue_types", "name") THEN 2
             ELSE IF o.table = "venue_venue_types" /\ o.kind \in {"table", "key", "index"} THEN 4
             ELSE IF Is(o, "column", "venue_groups", "primary_venue_type_id")
                        \/ Is(o, "key", "venue_groups", "venue_types") THEN 5
             ELSE IF Is(o, "column", "service_catalog", "applies_to_venue_type_id")
                        \/ Is(o, "key", "service_catalog", "venue_types") THEN 6
             ELSE 0
<1>5. \A k \in {1, 2, 4, 5, 6} : \A o \in P[k].what : At(o) = k
  BY ONLY <1>4 DEF Is
<1>6. \A o, p : SameName(o, p) => At(o) = At(p)
  BY DEF SameName, Is
<1> HIDE DEF At
<1>7. \A k \in {1, 2, 4, 5, 6} : \A o \in P[k].what : Takes(27, o)
  BY <1>4, Up27 DEF TypeTables, Is
<1>8. /\ \A o \in P[1].what : o.kind = "key" => o.to = {o.name} /\ o.name \in {}
      /\ \A o \in P[2].what : o.kind = "key" => o.to = {o.name} /\ o.name \in {}
      /\ \A o \in P[4].what : o.kind = "key" => o.to = {o.name} /\ o.name \in {"venues", "venue_types"}
      /\ \A o \in P[5].what : o.kind = "key" => o.to = {o.name} /\ o.name \in {"venue_types"}
      /\ \A o \in P[6].what : o.kind = "key" => o.to = {o.name} /\ o.name \in {"venue_types"}
  BY <1>3, MadeHas, ColumnIs, CheckIs, KeysAre
<1>9. /\ Relation("service_catalog") \in Intended(27)
      /\ Relation("venue_groups") \in Intended(27)
      /\ Relation("venues") \in Intended(27)
  <2>1. /\ Birth("service_catalog") <= 20
        /\ Birth("venue_groups") <= 20
        /\ Birth("venues") <= 20
    BY DEF Birth
  <2>2. /\ "service_catalog" \notin PassingTables
        /\ "venue_groups" \notin PassingTables
        /\ "venues" \notin PassingTables
    BY DEF PassingTables, PlanTables, TextTables, CodeTables, MoneyTables, TypeTables
  <2>3. 27 \in 20..30
    OBVIOUS
  <2>4. QED  BY <2>1, <2>2, <2>3, TablesStay
<1>10. /\ Relation("venue_types") \in P[1].what
       /\ Relation("venue_venue_types") \in P[4].what
  BY <1>3 DEF Made
<1>11. /\ \A k : Stands("service_catalog", 27, k)
       /\ \A k : Stands("venue_groups", 27, k)
       /\ \A k : Stands("venues", 27, k)
       /\ \A k \in Nat : 1 <= k => Stands("venue_types", 27, k)
       /\ \A k \in Nat : 4 <= k => Stands("venue_venue_types", 27, k)
  BY <1>1, <1>3, <1>9, <1>10 DEF Stands
<1>12. \A p \in Added(27) :
         \/ Is(p, "column", "venues", "venue_type")
         \/ Is(p, "column", "venue_groups", "primary_venue_type")
         \/ Is(p, "column", "service_catalog", "applies_to_venue_type")
         \/ Is(p, "check", "venues", "venue_type")
         \/ Is(p, "check", "venue_groups", "primary_venue_type")
         \/ Is(p, "check", "service_catalog", "applies_to_venue_type")
         \/ Is(p, "index", "venues", "venue_type")
  BY Up27, ColumnIs, CheckIs, IndexIs DEF VenueTypeColumns, VenueTypeChecks, Is
<1>13. \A k \in {7, 8} : P[k].what \subseteq Added(27) \ LostIndexes
  <2>1. \A k \in {7, 8} : P[k].what \subseteq Added(27)
    BY <1>3, Up27
  <2>2. \A p \in Added(27) : p \notin LostIndexes
    BY <1>12, LostAre DEF Is
  <2>3. QED  BY <2>1, <2>2
<1>14. RemovesBack(27, 7)
  <2>1. \A o \in P[7].what : o.kind # "table"
    BY <1>12, <1>13 DEF Is
  <2>2. \A o \in P[7].what : ~TakenBefore(P, 7, o)
    <3>1. \A i \in 1..(7 - 1) : i \in {1, 2, 3, 4, 5, 6}
      OBVIOUS
    <3>2. QED  BY <1>3, <3>1 DEF TakenBefore
  <2>3. QED  BY <1>1, <1>13, <2>1, <2>2 DEF RemovesBack, SameName
<1>15. RemovesBack(27, 8)
  <2>1. \A o \in P[8].what : o.kind # "table"
    BY <1>12, <1>13 DEF Is
  <2>2. \A o \in P[8].what : ~TakenBefore(P, 8, o)
    <3>1. \A i \in 1..(8 - 1) : i \in {1, 2, 3, 4, 5, 6, 7}
      OBVIOUS
    <3>2. \A o \in P[8].what : ~Hits(P[7].what, o)
      <4>1. \A o \in P[8].what : o.kind \in {"column", "check"}
        BY <1>3, ColumnIs, CheckIs DEF VenueTypeColumns, VenueTypeChecks
      <4>2. \A o : Hits(P[7].what, o) => o.kind = "index"
        BY <1>3, HitsParts DEF Is
      <4>3. QED  BY <4>1, <4>2
    <3>3. QED  BY <1>3, <3>1, <3>2 DEF TakenBefore
  <2>3. QED  BY <1>1, <1>13, <2>1, <2>2 DEF RemovesBack, SameName
<1>16. AddsBack(27, 1)
  <2>1. \A o \in P[1].what : Stands(o.table, 27, 1)
    BY <1>4, <1>11 DEF Is
  <2>2. \A o \in P[1].what : o.kind = "key" => o.to = {o.name} /\ Stands(o.name, 27, 1)
    BY <1>8, <1>11
  <2>3. ASSUME NEW o \in P[1].what, NEW p \in Added(27), SameName(o, p)
        PROVE  TakenBefore(P, 1, p)
    BY <1>4, <1>12, <2>3 DEF SameName, Is
  <2>4. ASSUME NEW i \in 1..(1 - 1), P[i].do = "add", NEW o \in P[1].what, NEW p \in P[i].what
        PROVE  ~SameName(o, p)
    OBVIOUS
  <2>5. QED  BY <1>1, <1>7, <2>1, <2>2, <2>3, <2>4 DEF AddsBack
<1>17. AddsBack(27, 2)
  <2>1. \A o \in P[2].what : Stands(o.table, 27, 2)
    BY <1>4, <1>11 DEF Is
  <2>2. \A o \in P[2].what : o.kind = "key" => o.to = {o.name} /\ Stands(o.name, 27, 2)
    BY <1>8, <1>11
  <2>3. ASSUME NEW o \in P[2].what, NEW p \in Added(27), SameName(o, p)
        PROVE  TakenBefore(P, 2, p)
    BY <1>4, <1>12, <2>3 DEF SameName, Is
  <2>4. ASSUME NEW i \in 1..(2 - 1), P[i].do = "add", NEW o \in P[2].what, NEW p \in P[i].what
        PROVE  ~SameName(o, p)
    <3>1. i \in {1}
      OBVIOUS
    <3>2. i \in {1} /\ i # 2
      BY <1>3, <2>4, <3>1
    <3>3. At(p) = i /\ At(o) = 2
      BY <1>5, <2>4, <3>2
    <3>4. QED  BY <1>6, <3>2, <3>3
  <2>5. QED  BY <1>1, <1>7, <2>1, <2>2, <2>3, <2>4 DEF AddsBack
<1>18. AddsBack(27, 4)
  <2>1. \A o \in P[4].what : Stands(o.table, 27, 4)
    BY <1>4, <1>11 DEF Is
  <2>2. \A o \in P[4].what : o.kind = "key" => o.to = {o.name} /\ Stands(o.name, 27, 4)
    BY <1>8, <1>11
  <2>3. ASSUME NEW o \in P[4].what, NEW p \in Added(27), SameName(o, p)
        PROVE  TakenBefore(P, 4, p)
    BY <1>4, <1>12, <2>3 DEF SameName, Is
  <2>4. ASSUME NEW i \in 1..(4 - 1), P[i].do = "add", NEW o \in P[4].what, NEW p \in P[i].what
        PROVE  ~SameName(o, p)
    <3>1. i \in {1, 2, 3}
      OBVIOUS
    <3>2. i \in {1, 2} /\ i # 4
      BY <1>3, <2>4, <3>1
    <3>3. At(p) = i /\ At(o) = 4
      BY <1>5, <2>4, <3>2
    <3>4. QED  BY <1>6, <3>2, <3>3
  <2>5. QED  BY <1>1, <1>7, <2>1, <2>2, <2>3, <2>4 DEF AddsBack
<1>19. AddsBack(27, 5)
  <2>1. \A o \in P[5].what : Stands(o.table, 27, 5)
    BY <1>4, <1>11 DEF Is
  <2>2. \A o \in P[5].what : o.kind = "key" => o.to = {o.name} /\ Stands(o.name, 27, 5)
    BY <1>8, <1>11
  <2>3. ASSUME NEW o \in P[5].what, NEW p \in Added(27), SameName(o, p)
        PROVE  TakenBefore(P, 5, p)
    BY <1>4, <1>12, <2>3 DEF SameName, Is
  <2>4. ASSUME NEW i \in 1..(5 - 1), P[i].do = "add", NEW o \in P[5].what, NEW p \in P[i].what
        PROVE  ~SameName(o, p)
    <3>1. i \in {1, 2, 3, 4}
      OBVIOUS
    <3>2. i \in {1, 2, 4} /\ i # 5
      BY <1>3, <2>4, <3>1
    <3>3. At(p) = i /\ At(o) = 5
      BY <1>5, <2>4, <3>2
    <3>4. QED  BY <1>6, <3>2, <3>3
  <2>5. QED  BY <1>1, <1>7, <2>1, <2>2, <2>3, <2>4 DEF AddsBack
<1>20. AddsBack(27, 6)
  <2>1. \A o \in P[6].what : Stands(o.table, 27, 6)
    BY <1>4, <1>11 DEF Is
  <2>2. \A o \in P[6].what : o.kind = "key" => o.to = {o.name} /\ Stands(o.name, 27, 6)
    BY <1>8, <1>11
  <2>3. ASSUME NEW o \in P[6].what, NEW p \in Added(27), SameName(o, p)
        PROVE  TakenBefore(P, 6, p)
    BY <1>4, <1>12, <2>3 DEF SameName, Is
  <2>4. ASSUME NEW i \in 1..(6 - 1), P[i].do = "add", NEW o \in P[6].what, NEW p \in P[i].what
        PROVE  ~SameName(o, p)
    <3>1. i \in {1, 2, 3, 4, 5}
      OBVIOUS
    <3>2. i \in {1, 2, 4, 5} /\ i # 6
      BY <1>3, <2>4, <3>1
    <3>3. At(p) = i /\ At(o) = 6
      BY <1>5, <2>4, <3>2
    <3>4. QED  BY <1>6, <3>2, <3>3
  <2>5. QED  BY <1>1, <1>7, <2>1, <2>2, <2>3, <2>4 DEF AddsBack
<1>21. QED
  <2>1. /\ P[7].do = "remove" /\ RemovesBack(27, 7)
        /\ P[8].do = "remove" /\ RemovesBack(27, 8)
        /\ P[1].do = "add" /\ AddsBack(27, 1)
        /\ P[2].do = "add" /\ AddsBack(27, 2)
        /\ P[4].do = "add" /\ AddsBack(27, 4)
        /\ P[5].do = "add" /\ AddsBack(27, 5)
        /\ P[6].do = "add" /\ AddsBack(27, 6)
    BY <1>3, <1>14, <1>15, <1>16, <1>17, <1>18, <1>19, <1>20
  <2>2. \A w \in P[3].what : Stands(w.table, 27, 3)
    <3>1. P[3].what = {Seed("venue_types")}
      BY <1>2 DEF Insert, Statement
    <3>2. QED  BY <1>11, <3>1, SeedIs
  <2>3. P[3].do = "insert"
    BY <1>3
  <2>4. \A k \in {1, 2, 3, 4, 5, 6, 7, 8} :
          \/ P[k].do = "remove" /\ RemovesBack(27, k)
          \/ P[k].do = "add" /\ AddsBack(27, k)
          \/ P[k].do = "insert" /\ \A w \in P[k].what : Stands(w.table, 27, k)
    BY ONLY <2>1, <2>2, <2>3
  <2>5. QED  BY ONLY <1>1, <1>2, <2>4 DEF BackShaped

LEMMA Back22 == BackShaped(22)
<1>1. PICK P : P = Downgrades[22]
  OBVIOUS
<1>2. /\ Len(P) = 3 /\ P[1] = Add(TextObjects) /\ P[2] = Remove(SearchIndexes)
      /\ P[3] = Remove(MovedTexts)
  BY <1>1 DEF Downgrades, CollapseDown, TextObjects
<1>3. /\ P[1].do = "add" /\ P[2].do = "remove" /\ P[3].do = "remove"
      /\ P[1].what = TextObjects /\ P[2].what = SearchIndexes /\ P[3].what = MovedTexts
  BY <1>2, Statements
<1>4. \A o \in SearchIndexes : o.kind = "index" /\ o.table \in {"venues", "menu_items"}
  BY IndexIs DEF SearchIndexes
<1>5. \A o \in MovedTexts : o.kind = "column"
  BY MovedTextsStand
<1>6. SearchIndexes \cup MovedTexts \subseteq Added(22) \ LostIndexes
  BY <1>4, <1>5, Up22, LostAre
<1>7. RemovesBack(22, 2)
  <2>1. \A o : ~TakenBefore(P, 2, o)
    BY <1>3 DEF TakenBefore
  <2>2. QED  BY <1>1, <1>3, <1>4, <1>6, <2>1 DEF RemovesBack, SameName
<1>8. RemovesBack(22, 3)
  <2>1. \A i \in 1..(3 - 1) : i \in {1, 2}
    OBVIOUS
  <2>2. \A o : Hits(SearchIndexes, o) => o.kind = "index"
    BY HitsSets DEF Is
  <2>3. \A o \in MovedTexts : ~TakenBefore(P, 3, o)
    BY <1>3, <1>5, <2>1, <2>2 DEF TakenBefore
  <2>4. QED  BY <1>1, <1>3, <1>5, <1>6, <2>3 DEF RemovesBack, SameName
<1>9. AddsBack(22, 1)
  <2>1. ASSUME NEW o \in TextObjects
        PROVE  /\ o.kind \in {"table", "key"}
               /\ \E m \in Moves : /\ o.table = m[2]
                                   /\ o.kind = "key" => o.to = {o.name} /\ o.name \in {m[1], "languages"}
    <3>1. PICK m \in Moves :
            o \in {Relation(m[2]), ForeignKey(m[2], m[1]), ForeignKey(m[2], "languages")}
      BY <2>1 DEF TextObjects
    <3>2. PICK a, b : a = m[1] /\ b = m[2]
      OBVIOUS
    <3>3. o = Relation(b) \/ o = ForeignKey(b, a) \/ o = ForeignKey(b, "languages")
      BY <3>1, <3>2
    <3>4. /\ o.table = b /\ o.kind \in {"table", "key"}
          /\ o.kind = "key" => o.to = {o.name} /\ o.name \in {a, "languages"}
      <4>1. CASE o = Relation(b)
        BY <4>1, RelationIs
      <4>2. CASE o = ForeignKey(b, a)
        BY <4>2, KeysAre
      <4>3. CASE o = ForeignKey(b, "languages")
        BY <4>3, KeysAre
      <4>4. QED  BY <3>3, <4>1, <4>2, <4>3
    <3>5. QED  BY <3>2, <3>4
  <2>2. ASSUME NEW m \in Moves  PROVE Stands(m[2], 22, 1) /\ Stands(m[1], 22, 1)
    <3>1. Relation(m[2]) \in TextObjects
      BY DEF TextObjects
    <3>2. Stands(m[2], 22, 1)
      BY <1>1, <1>3, <3>1 DEF Stands
    <3>3. m[1] \in {"amenities", "venue_types", "menu_categories", "menu_items", "menu_item_variants",
                    "banners", "service_catalog", "staff_roles", "venue_groups", "venues", "venue_zones"}
      BY DEF Moves
    <3>4. Birth(m[1]) <= 20
      BY <3>3 DEF Birth
    <3>5. m[1] \notin PassingTables \/ m[1] \in TypeTables \/ m[1] \in MoneyTables
      BY <3>3 DEF PassingTables, PlanTables, TextTables, CodeTables, MoneyTables, TypeTables
    <3>6. Relation(m[1]) \in Intended(22)
      BY <3>4, <3>5, TablesStay
    <3>7. QED  BY <3>2, <3>6 DEF Stands
  <2>3. Stands("languages", 22, 1)
    <3>1. Birth("languages") <= 20 /\ "languages" \notin PassingTables
      BY DEF Birth, PassingTables, PlanTables, TextTables, CodeTables, MoneyTables, TypeTables
    <3>2. Relation("languages") \in Intended(22)
      BY <3>1, TablesStay
    <3>3. QED  BY <3>2 DEF Stands
  <2>4. \A o \in TextObjects : Takes(22, o)
    BY TextsStand, Up22
  <2>5. \A o \in TextObjects : \A p \in Added(22) : ~SameName(o, p)
    BY <1>4, <1>5, <2>1, Up22 DEF SameName
  <2>6. QED  BY <1>1, <1>3, <2>1, <2>2, <2>3, <2>4, <2>5 DEF AddsBack
<1>10. \A k \in 1..3 : k \in {1, 2, 3}
  OBVIOUS
<1>11. QED  BY ONLY <1>1, <1>2, <1>3, <1>7, <1>8, <1>9, <1>10 DEF BackShaped

LEMMA Back28 == BackShaped(28)
<1>1. PICK P : P = Downgrades[28]
  OBVIOUS
<1>2. Len(P) = 1 /\ P[1] = Remove({Check("regions", "code", {})})
  BY <1>1 DEF Downgrades, UniqueRegionCodeDown
<1>3. P[1].do = "remove" /\ P[1].what = {Check("regions", "code", {})}
  BY <1>2, Statements
<1>4. RemovesBack(28, 1)
  <2>1. PICK o, p : o = Check("regions", "code", {}) /\ p = Check("regions", "code", RegionCodes)
    OBVIOUS
  <2>2. SameName(o, p) /\ o.kind = "check" /\ p.kind = "check"
    BY <2>1, CheckIs DEF SameName
  <2>3. p \in Added(28) \ LostIndexes
    BY <2>1, <2>2, Up28, LostAre
  <2>4. ~TakenBefore(P, 1, p)
    BY DEF TakenBefore
  <2>5. QED  BY <1>1, <1>3, <2>1, <2>2, <2>3, <2>4 DEF RemovesBack
<1>5. \A k \in 1..1 : k = 1
  OBVIOUS
<1>6. QED  BY ONLY <1>1, <1>2, <1>3, <1>4, <1>5 DEF BackShaped

LEMMA Back31 == BackShaped(31)
<1>1. PICK P : P = Downgrades[31]
  OBVIOUS
<1>2. /\ Len(P) = 5
      /\ P[1] = Delete({TelegramGuest}, OfTelegramGuests)
      /\ P[2] = Remove({AnyIdentity})
      /\ P[3] = Add({PhoneOrEmail})
      /\ P[4] = Remove({Check("users", "telegram_id", {})})
      /\ P[5] = Remove({Column("users", "telegram_id")})
  BY <1>1 DEF Downgrades, TelegramDown
<1>3. /\ P[1].do = "delete" /\ P[2].do = "remove" /\ P[3].do = "add" /\ P[4].do = "remove"
      /\ P[5].do = "remove"
      /\ P[2].what = {AnyIdentity} /\ P[3].what = {PhoneOrEmail}
      /\ P[4].what = {Check("users", "telegram_id", {})}
      /\ P[5].what = {Column("users", "telegram_id")}
  BY <1>2, Statements
<1>4. /\ Is(AnyIdentity, "check", "users", "identity")
      /\ Is(PhoneOrEmail, "check", "users", "identity")
      /\ \A v : Is(Check("users", "telegram_id", v), "check", "users", "telegram_id")
      /\ Is(Column("users", "telegram_id"), "column", "users", "telegram_id")
  BY CheckIs, ColumnIs DEF AnyIdentity, PhoneOrEmail, Is
<1>5. \A o \in Added(31) :
         /\ o \notin LostIndexes
         /\ \/ o = Column("users", "telegram_id") \/ o = Check("users", "telegram_id", {"once"})
            \/ o = AnyIdentity
  <2>1. \A o \in Added(31) : o.kind \in {"column", "check"}
    BY <1>4, Up31 DEF Is
  <2>2. QED  BY <2>1, Up31, LostAre
<1>6. \A o : Hits(P[2].what, o) <=> Is(o, "check", "users", "identity")
  BY <1>3, HitsParts DEF AnyIdentity
<1>7. \A o : Hits(P[4].what, o) <=> Is(o, "check", "users", "telegram_id")
  BY <1>3, HitsParts
<1>8. RemovesBack(31, 2)
  <2>1. ~TakenBefore(P, 2, AnyIdentity)
    BY <1>3 DEF TakenBefore
  <2>2. AnyIdentity \in Added(31) \ LostIndexes
    BY <1>5, Up31
  <2>3. QED  BY <1>1, <1>3, <1>4, <2>1, <2>2 DEF RemovesBack, SameName, Is
<1>9. RemovesBack(31, 4)
  <2>1. PICK o, p : o = Check("users", "telegram_id", {}) /\ p = Check("users", "telegram_id", {"once"})
    OBVIOUS
  <2>2. \A i \in 1..(4 - 1) : i \in {1, 2, 3}
    OBVIOUS
  <2>3. ~TakenBefore(P, 4, p)
    BY <1>3, <1>4, <1>6, <2>1, <2>2 DEF TakenBefore, Is
  <2>4. p \in Added(31) \ LostIndexes
    BY <1>5, <2>1, Up31
  <2>5. SameName(o, p) /\ o.kind # "table"
    BY <1>4, <2>1 DEF SameName, Is
  <2>6. QED  BY <1>1, <1>3, <2>1, <2>3, <2>4, <2>5 DEF RemovesBack
<1>10. RemovesBack(31, 5)
  <2>1. PICK o : o = Column("users", "telegram_id")
    OBVIOUS
  <2>2. \A i \in 1..(5 - 1) : i \in {1, 2, 3, 4}
    OBVIOUS
  <2>3. ~TakenBefore(P, 5, o)
    BY <1>3, <1>4, <1>6, <1>7, <2>1, <2>2 DEF TakenBefore, Is
  <2>4. o \in Added(31) \ LostIndexes /\ SameName(o, o) /\ o.kind # "table"
    BY <1>4, <1>5, <2>1, Up31 DEF SameName, Is
  <2>5. QED  BY <1>1, <1>3, <2>1, <2>3, <2>4 DEF RemovesBack
<1>11. AddsBack(31, 3)
  <2>1. PICK o : o = PhoneOrEmail
    OBVIOUS
  <2>2. Is(o, "check", "users", "identity") /\ Takes(31, o)
    BY <1>4, <2>1, Up31
  <2>3. Relation("users") \in Intended(31)
    <3>1. Birth("users") <= 20 /\ "users" \notin PassingTables
      BY DEF Birth, PassingTables, PlanTables, TextTables, CodeTables, MoneyTables, TypeTables
    <3>2. Relation("users") \in Intended(30)
      BY <3>1, TablesStay
    <3>3. ~Takes(31, Relation("users"))
      BY Up31, RelationIs DEF Is
    <3>4. Intended(31) = {x \in Intended(30) : ~Takes(31, x)} \cup Added(31)
      BY IntendedNext
    <3>5. QED  BY <3>2, <3>3, <3>4
  <2>4. ASSUME NEW p \in Added(31), SameName(o, p)  PROVE TakenBefore(P, 3, p)
    <3>1. Is(p, "check", "users", "identity")
      BY <2>2, <2>4 DEF SameName, Is
    <3>2. 2 \in 1..(3 - 1)
      OBVIOUS
    <3>3. QED  BY <1>3, <1>6, <3>1, <3>2 DEF TakenBefore
  <2>5. \A i \in 1..(3 - 1) : P[i].do # "add"
    <3>1. \A i \in 1..(3 - 1) : i \in {1, 2}
      OBVIOUS
    <3>2. QED  BY <1>3, <3>1
  <2>6. Stands("users", 31, 3)
    BY <2>3 DEF Stands
  <2>7. o.table = "users" /\ o.kind # "key"
    BY <2>2 DEF Is
  <2>8. P[3].what = {o}
    BY <1>3, <2>1
  <2>9. QED  BY ONLY <1>1, <2>2, <2>4, <2>5, <2>6, <2>7, <2>8 DEF AddsBack
<1>12. \A k \in 1..5 : k \in {1, 2, 3, 4, 5}
  OBVIOUS
<1>13. QED  BY ONLY <1>1, <1>2, <1>3, <1>8, <1>9, <1>10, <1>11, <1>12 DEF BackShaped

\* The ways back that only delete rows, or do nothing.
LEMMA BackQuiet == BackShaped(19) /\ BackShaped(23) /\ BackShaped(29) /\ BackShaped(30)
<1>1. BackShaped(19)
  <2>1. Len(Downgrades[19]) = 1 /\ Downgrades[19][1].do = "delete"
    BY Statements DEF Downgrades, ReferenceDataDown
  <2>2. QED  BY <2>1 DEF BackShaped
<1>2. BackShaped(23)
  <2>1. Len(Downgrades[23]) = 1 /\ Downgrades[23][1].do = "delete"
    BY Statements DEF Downgrades, RolePermissionsDown
  <2>2. QED  BY <2>1 DEF BackShaped
<1>3. BackShaped(29)
  <2>1. Len(Downgrades[29]) = 2 /\ Downgrades[29][1].do = "delete" /\ Downgrades[29][2].do = "delete"
    BY Statements DEF Downgrades, RegionsDown
  <2>2. \A k \in 1..2 : k \in {1, 2}
    OBVIOUS
  <2>3. QED  BY <2>1, <2>2 DEF BackShaped
<1>4. BackShaped(30)
  <2>1. Len(Downgrades[30]) = 0
    BY DEF Downgrades, AmenityNamesDown
  <2>2. QED  BY <2>1 DEF BackShaped
<1>5. QED  BY <1>1, <1>2, <1>3, <1>4
-----------------------------------------------------------------------------
(* What the ways back ask of the rows.                                        *)

\* The references without an ON DELETE action to what a way back deletes.
Holding == OfTelegramGuests \cup OfDistricts \cup OfReferenceLists

\* The tables that three revisions take are gone, and their rows with them.
LEMMA RowsAreGone ==
  ASSUME NEW r \in {25, 26, 27}, NEW s, Follows(s.schema, r), RowsStand(s), NEW w \in s.rows
  PROVE  /\ r = 25 => w.table \notin MoneyTables
         /\ r = 26 => w.table # "auth_identities"
         /\ r = 27 => w.table \notin TypeTables
<1>1. PICK o \in s.schema : o.kind = "table" /\ o.table = w.table
  BY DEF RowsStand, Tables
<1>2. o \in Intended(r) /\ Intended(r) = {x \in Intended(r - 1) : ~Takes(r, x)} \cup Added(r)
  <2>1. r \in 1..31
    OBVIOUS
  <2>2. QED  BY <2>1, IntendedNext DEF Follows
<1>3. \A x \in Added(r) : x.kind # "table"
  <2>1. \A x \in Added(25) : x.kind # "table"
    BY Up25, CheckIs DEF UndiscountedLine
  <2>2. \A x \in Added(26) : x.kind # "table"
    BY Up26
  <2>3. \A x \in Added(27) : x.kind # "table"
    BY Up27, CheckIs, ColumnIs, IndexIs DEF VenueTypeColumns, VenueTypeChecks
  <2>4. QED  BY <2>1, <2>2, <2>3
<1>4. ~Takes(r, o)
  BY <1>1, <1>2, <1>3
<1>5. QED  BY <1>1, <1>4, Up25, Up26, Up27

\* A way back that inserts nothing asks for no more than its checks do.
LEMMA QuietRowsLeave ==
  ASSUME NEW P, Len(P) \in Nat, DOMAIN P = 1..Len(P), Quiet(P), NEW rows,
         \A k \in 1..Len(P) : P[k].do = "delete" => P[k].held \cap rows = {},
         \A o \in Done(P, "add") : Admits(o, rows)
  PROVE  RowsLeave(P, rows)
<1>1. ASSUME NEW k \in 1..Len(P)  PROVE RowsBy(P, k - 1, rows) \subseteq rows
  <2>1. UpTo(P, k - 1, "insert") = {}
    BY DEF UpTo, Quiet
  <2>2. QED  BY <2>1 DEF RowsBy
<1>2. ASSUME NEW k \in 1..Len(P), P[k].do = "add", NEW o \in P[k].what
      PROVE  Admits(o, RowsBy(P, k - 1, rows))
  <2>1. o \in Done(P, "add")
    BY <1>2, InDone
  <2>2. QED  BY <1>1, <2>1, AdmitsFewer
<1>3. \A k \in 1..Len(P) : P[k].do # "insert"
  BY DEF Quiet
<1>4. ASSUME NEW k \in 1..Len(P), P[k].do = "delete"
      PROVE  P[k].held \cap RowsBy(P, k - 1, rows) = {}
  BY <1>1, <1>4
<1>5. QED  BY <1>2, <1>3, <1>4 DEF RowsLeave

LEMMA AdmitsAll == \A o, rows : o.kind # "check" => Admits(o, rows)
  BY DEF Admits

LEMMA MadeAdmits == \A t, R, I, rows : \A o \in Made(t, R, I) : Admits(o, rows)
  BY MadeHas, AdmitsAll

LEMMA PartAdmits ==
  /\ \A t, c, rows : Admits(Column(t, c), rows)
  /\ \A t, q, rows : Admits(ForeignKey(t, q), rows)
  BY AdmitsAll, ColumnIs, KeyIs

\* The checks of a revision before admit what there may be at the one after.
LEMMA WiderAdmit ==
  ASSUME NEW rows, rows \subseteq RowsThatMatter \cup SeedRows
  PROVE  /\ \A o \in PaymentChecks \cup {AppliesTo, AnyProvider, AnyPriceLine} : Admits(o, rows)
<1>1. \A t, c, v : /\ Check(t, c, v).table = t /\ Check(t, c, v).name = c /\ Check(t, c, v).to = v
  BY DEF Check, Object
<1>2. Admits(AppliesTo, rows)
  BY <1>1, RowsKnown, RowIs DEF Admits, AppliesTo
<1>3. Admits(AnyProvider, rows)
  BY <1>1, RowsKnown, RowIs DEF Admits, AnyProvider
<1>4. Admits(AnyPriceLine, rows)
  BY <1>1, RowsKnown, RowIs DEF Admits, AnyPriceLine
<1>5. ASSUME NEW o \in PaymentChecks  PROVE Admits(o, rows)
  <2>1. CASE o = Check("payments", "target", {"booking", "subscription"})
    BY <1>1, <2>1, RowsKnown, RowIs DEF Admits
  <2>2. CASE o = Check("payments", "kind", {"deposit", "balance", "full", "subscription"})
    BY <1>1, <2>2, RowsKnown, RowIs DEF Admits
  <2>3. QED  BY <2>1, <2>2 DEF PaymentChecks
<1>6. QED  BY <1>2, <1>3, <1>4, <1>5

\* What a way back adds admits the rows that there may be.
LEMMA BackAdmits ==
  ASSUME NEW r \in {21, 22, 24, 25, 26, 27, 28}, NEW s, Follows(s.schema, r), RowsFit(s),
         NEW o \in Done(Downgrades[r], "add")
  PROVE  Admits(o, s.rows)
<1>1. s.rows \subseteq RowsThatMatter \cup SeedRows /\ RowsStand(s)
  BY DEF RowsFit
<1>2. CASE r = 21
  BY <1>1, <1>2, Down21, WiderAdmit, MadeAdmits, PartAdmits
<1>3. CASE r = 22
  <2>1. o.kind # "check"
    <3>1. PICK m \in Moves :
            o \in {Relation(m[2]), ForeignKey(m[2], m[1]), ForeignKey(m[2], "languages")}
      BY <1>3, Down22 DEF TextObjects
    <3>2. PICK a, b : a = m[1] /\ b = m[2]
      OBVIOUS
    <3>3. o = Relation(b) \/ o = ForeignKey(b, a) \/ o = ForeignKey(b, "languages")
      BY <3>1, <3>2
    <3>4. Relation(b).kind # "check" /\ ForeignKey(b, a).kind # "check"
          /\ ForeignKey(b, "languages").kind # "check"
      BY RelationIs, KeyIs
    <3>5. QED  BY ONLY <3>3, <3>4
  <2>2. QED  BY <2>1, AdmitsAll
<1>4. CASE r = 24
  <2>1. \A x \in SmsColumns \cup VerifiedColumns : Admits(x, s.rows)
    BY PartAdmits DEF SmsColumns, VerifiedColumns
  <2>2. QED  BY <1>1, <1>4, <2>1, Down24, WiderAdmit, MadeAdmits
<1>5. CASE r = 25
  <2>1. \A w \in s.rows : w.table \notin {"payments", "promo_codes"}
    BY <1>1, <1>5, RowsAreGone DEF MoneyTables
  <2>2. Row("payments", "target", "subscription") \notin s.rows
        /\ Row("promo_codes", "applies_to", "subscription") \notin s.rows
    BY <2>1, RowIs
  <2>3. \A x \in BookingPaymentChecks \cup {AppliesToBookings} : Admits(x, s.rows)
    BY <1>1, <2>2, ChecksAdmit DEF BookingPaymentChecks, AppliesToBookings
  <2>4. QED  BY <1>1, <1>5, <2>3, Down25, WiderAdmit, MadeAdmits, PartAdmits
<1>6. CASE r = 26
  <2>1. \A w \in s.rows : w.table # "auth_identities"
    BY <1>1, <1>6, RowsAreGone
  <2>2. Row("auth_identities", "provider", "apple") \notin s.rows
    BY <2>1, RowIs
  <2>3. Admits(GoogleOnly, s.rows)
    BY <1>1, <2>2, ChecksAdmit DEF GoogleOnly
  <2>4. QED  BY <1>6, <2>3, Down26, MadeAdmits
<1>7. CASE r = 27
  BY <1>7, Down27, MadeAdmits, PartAdmits
<1>8. CASE r = 28
  BY <1>8, Down28
<1>9. QED  BY <1>2, <1>3, <1>4, <1>5, <1>6, <1>7, <1>8

\* Without a row that holds what they delete, the rows allow the later ways back.
LEMMA BackRows ==
  ASSUME NEW r \in {21, 22, 24, 25, 26, 27, 28}, BackShaped(r), NEW s, Follows(s.schema, r),
         RowsFit(s)
  PROVE  RowsLeave(Downgrades[r], s.rows)
<1> DEFINE P == Downgrades[r]
           n == Len(P)
<1>1. r \in 1..31
  OBVIOUS
<1>2. n \in Nat /\ DOMAIN P = 1..n
  BY <1>1, ProgramsAreSequences
<1>3. \A o \in Done(P, "add") : Admits(o, s.rows)
  BY BackAdmits
<1>4. \A k \in 1..n : P[k].do # "delete"
  BY DEF BackShaped
<1>5. CASE r # 27
  <2>1. Quiet(P)
    BY <1>1, <1>5, DownInserts
  <2> HIDE DEF P
  <2>2. QED  BY <1>2, <1>3, <1>4, <2>1, QuietRowsLeave DEF P
<1>6. CASE r = 27
  <2>1. Seed("venue_types") \notin s.rows
    <3>1. \A w \in s.rows : w.table \notin TypeTables
      BY <1>6, RowsAreGone DEF RowsFit
    <3>2. QED  BY <3>1, SeedIs DEF TypeTables
  <2>2. /\ P[1].do = "add" /\ P[2].do = "add" /\ P[3].do = "insert" /\ P[3].what = {Seed("venue_types")}
        /\ P[4].do = "add" /\ P[5].do = "add" /\ P[6].do = "add" /\ P[7].do = "remove"
        /\ P[8].do = "remove" /\ n = 8
    BY <1>6, Statements, SeedStatements DEF Downgrades, VenueTypeEnumDown
  <2>3. \A k \in 1..8 : k \in {1, 2, 3, 4, 5, 6, 7, 8}
    OBVIOUS
  <2> HIDE DEF P, n
  <2>4. \A k \in 1..n : P[k].do = "insert" => k = 3
    BY ONLY <2>2, <2>3
  <2>5. ASSUME NEW k \in 1..n, P[k].do = "insert"
        PROVE  P[k].what \cap RowsBy(P, k - 1, s.rows) = {}
    <3>1. k = 3
      BY <2>4, <2>5
    <3>2. \A i \in 1..(k - 1) : P[i].do # "insert"
      BY <2>2, <2>4, <3>1
    <3>3. UpTo(P, k - 1, "insert") = {}
      BY <3>2 DEF UpTo
    <3>4. QED  BY <2>1, <2>2, <3>1, <3>3 DEF RowsBy
  <2>6. ASSUME NEW k \in 1..n, P[k].do = "add", NEW o \in P[k].what
        PROVE  Admits(o, RowsBy(P, k - 1, s.rows))
    <3>1. o \in Done(P, "add")
      BY <1>2, <2>6, InDone
    <3>2. o.kind # "check"
      BY <1>6, <3>1, Down27, MadeHas, ColumnIs, KeyIs DEF P
    <3>3. QED  BY <3>2, AdmitsAll
  <2>7. QED  BY <1>4, <2>5, <2>6 DEF RowsLeave, P, n
<1>7. QED  BY <1>5, <1>6

LEMMA RowsOfLast ==
  ASSUME NEW s, RowsFit(s), OfTelegramGuests \cap s.rows = {}
  PROVE  RowsLeave(Downgrades[31], s.rows)
<1>1. PICK P : P = Downgrades[31]
  OBVIOUS
<1>2. /\ Len(P) = 5 /\ P[1].do = "delete" /\ P[2].do = "remove" /\ P[3].do = "add"
      /\ P[4].do = "remove" /\ P[5].do = "remove"
      /\ P[1].what = {TelegramGuest} /\ P[1].held = OfTelegramGuests
      /\ P[3].what = {PhoneOrEmail}
  <2>1. P[1] = Delete({TelegramGuest}, OfTelegramGuests)
    BY <1>1 DEF Downgrades, TelegramDown
  <2>2. P[1].held = OfTelegramGuests
    BY <2>1 DEF Delete, Statement
  <2>3. P[1].what = {TelegramGuest} /\ P[1].do = "delete"
    BY <2>1, SeedStatements
  <2>4. /\ Len(P) = 5 /\ P[2].do = "remove" /\ P[3].do = "add" /\ P[4].do = "remove"
        /\ P[5].do = "remove" /\ P[3].what = {PhoneOrEmail}
    BY <1>1, Statements DEF Downgrades, TelegramDown
  <2>5. QED  BY <2>2, <2>3, <2>4
<1>3. \A k \in 1..5 : k \in {1, 2, 3, 4, 5}
  OBVIOUS
<1>4. ASSUME NEW k \in 1..5  PROVE UpTo(P, k - 1, "insert") = {}
  <2>1. \A i \in 1..(k - 1) : i \in 1..5
    OBVIOUS
  <2>2. \A i \in 1..(k - 1) : P[i].do # "insert"
    BY ONLY <1>2, <1>3, <2>1
  <2>3. QED  BY <2>2 DEF UpTo
<1>5. P[1].held \cap RowsBy(P, 1 - 1, s.rows) = {}
  BY <1>2, <1>4 DEF RowsBy
<1>6. Admits(PhoneOrEmail, RowsBy(P, 3 - 1, s.rows))
  <2>1. TelegramGuest \in UpTo(P, 3 - 1, "delete")
    BY <1>2 DEF UpTo
  <2>2. \A w \in RowsBy(P, 3 - 1, s.rows) : w \in s.rows /\ w # TelegramGuest
    BY <1>4, <2>1 DEF RowsBy
  <2>3. \A w \in s.rows : w.table = "users" /\ w.column = "identity" => w = TelegramGuest
    <3>1. \A w \in RowsThatMatter :
              w.table = "users" /\ w.column = "identity" => w = TelegramGuest
      BY ReferencesAre, RowIs DEF RowsThatMatter
    <3>2. \A w \in SeedRows : w.column # "identity"
      BY SeedRowsAre, RowIs
    <3>3. QED  BY <3>1, <3>2 DEF RowsFit
  <2>4. PhoneOrEmail.table = "users" /\ PhoneOrEmail.name = "identity"
    BY CheckIs DEF PhoneOrEmail
  <2>5. QED  BY <2>2, <2>3, <2>4 DEF Admits
<1>7. QED
  <2>1. /\ \A k \in {1, 2, 3, 4, 5} : P[k].do = "delete" => k = 1
        /\ \A k \in {1, 2, 3, 4, 5} : P[k].do # "insert"
        /\ \A k \in {1, 2, 3, 4, 5} : P[k].do = "add" => k = 3
    BY ONLY <1>2
  <2>2. QED  BY ONLY <1>1, <1>2, <1>3, <1>5, <1>6, <2>1 DEF RowsLeave

LEMMA QuietRows ==
  ASSUME NEW s, s.rows \cap Holding = {}, NEW r \in {19, 23, 29, 30}
  PROVE  RowsLeave(Downgrades[r], s.rows)
<1> DEFINE P == Downgrades[r]
<1>1. r \in 1..31 /\ r # 27
  OBVIOUS
<1>2. Len(P) \in Nat /\ DOMAIN P = 1..Len(P) /\ Quiet(P)
  BY <1>1, ProgramsAreSequences, DownInserts
<1>3. Done(P, "add") = {}
  <2>1. CASE r = 19
    BY <2>1, EarlyAddNothing
  <2>2. CASE r # 19
    BY <2>2, DownQuiet
  <2>3. QED  BY <2>1, <2>2
<1>4. \A k \in 1..Len(P) : P[k].held \subseteq Holding
  <2>1. \A x, y : Delete(x, y).held = y
    BY DEF Delete, Statement
  <2>2. CASE r = 19
    <3>1. Len(P) = 1 /\ P[1].held = OfReferenceLists
      BY <2>1, <2>2 DEF Downgrades, ReferenceDataDown
    <3>2. QED  BY <3>1 DEF Holding
  <2>3. CASE r = 23
    <3>1. Len(P) = 1 /\ P[1].held = {}
      BY <2>1, <2>3 DEF Downgrades, RolePermissionsDown
    <3>2. QED  BY <3>1
  <2>4. CASE r = 29
    <3>1. Len(P) = 2 /\ P[1].held = OfDistricts /\ P[2].held = {}
      BY <2>1, <2>4 DEF Downgrades, RegionsDown
    <3>2. \A k \in 1..2 : k \in {1, 2}
      OBVIOUS
    <3>3. QED  BY <3>1, <3>2 DEF Holding
  <2>5. CASE r = 30
    <3>1. Len(P) = 0
      BY <2>5 DEF Downgrades, AmenityNamesDown
    <3>2. QED  BY <3>1
  <2>6. QED  BY <2>2, <2>3, <2>4, <2>5
<1> HIDE DEF P
<1>5. QED  BY <1>2, <1>3, <1>4, QuietRowsLeave DEF P

\* Only the loss of the search index of the menu, or a row that holds what is
\* deleted, refuses a way back.
LEMMA DownAccepted ==
  ASSUME NEW r \in 1..31, NEW state, IsState(state), state.ok, Follows(state.schema, r),
         RowsFit(state), state.rows \cap Holding = {},
         r \in 1..20 => Added(r) \cap LostIndexes \subseteq state.schema
  PROVE  Run(Downgrades[r], state).ok
<1>1. CASE r \in 1..20 /\ r # 19
  BY <1>1, EarlyBackAccepted
<1>2. CASE r \in {19, 23, 29, 30}
  BY <1>2, BackQuiet, QuietRows, BackAccepted
<1>3. CASE r \in {21, 22, 24, 25, 26, 27, 28}
  <2>1. BackShaped(r)
    BY <1>3, Back21, Back22, Back24, Back25, Back26, Back27, Back28
  <2>2. RowsLeave(Downgrades[r], state.rows)
    BY <1>3, <2>1, BackRows
  <2>3. QED  BY <2>1, <2>2, BackAccepted
<1>4. CASE r = 31
  <2>1. OfTelegramGuests \cap state.rows = {}
    BY DEF Holding
  <2>2. QED  BY <1>4, <2>1, Back31, RowsOfLast, BackAccepted
<1>5. r \in {19, 21, 22, 23, 24, 25, 26, 27, 28, 29, 30, 31} \/ (r \in 1..20 /\ r # 19)
  OBVIOUS
<1>6. QED  BY <1>1, <1>2, <1>3, <1>4, <1>5
-----------------------------------------------------------------------------
(* The two search indexes that the collapse loses are lost together.          *)

OfVenues == Index("venue_translations", "name_trgm")
OfMenu == Index("menu_item_translations", "name_trgm")

\* The index of the venues is there at the revisions of the venues and of the
\* staff, and from the menu to the collapse wherever that of the menu is.
Together(schema, r) ==
    /\ r \in 7..8 => OfVenues \in schema
    /\ r \in 9..21 /\ OfMenu \in schema => OfVenues \in schema

LEMMA TheIndexes ==
  /\ Is(OfVenues, "index", "venue_translations", "name_trgm")
  /\ Is(OfMenu, "index", "menu_item_translations", "name_trgm")
  /\ Birth(OfVenues.table) = 7 /\ Birth(OfMenu.table) = 9
  /\ OfMenu.table \in TextTables /\ OfVenues.table \in TextTables
  /\ LostIndexes = {OfVenues, OfMenu}
<1>1. /\ Is(OfVenues, "index", "venue_translations", "name_trgm")
      /\ Is(OfMenu, "index", "menu_item_translations", "name_trgm")
  BY IndexIs DEF OfVenues, OfMenu, Is
<1>2. Birth("venue_translations") = 7 /\ Birth("menu_item_translations") = 9
  BY DEF Birth
<1>3. QED  BY <1>1, <1>2 DEF Is, TextTables, LostIndexes, OfVenues, OfMenu

\* Each of them is added by the revision of its table only.
LEMMA AddedOnce ==
  ASSUME NEW r \in 1..21, NEW o \in LostIndexes \cap Added(r)
  PROVE  Birth(o.table) = r
<1>1. o.kind = "index"
  BY LostAre
<1>2. CASE r \in 1..20
  <2>1. Fit(o, r)
    BY <1>2, AddedFits
  <2>2. o \notin LaterKeys(r)
    BY <1>1, <1>2, LaterKeysAre
  <2>3. QED  BY <2>1, <2>2 DEF Fit
<1>3. CASE r = 21
  <2>1. \A p \in Added(21) : p.kind = "check"
    BY Up21, CheckIs DEF BookingPaymentChecks, AppliesToBookings
  <2>2. QED  BY <1>1, <1>3, <2>1
<1>4. QED  BY <1>2, <1>3

LEMMA VenuesAdd == OfVenues \in Added(7)
<1>1. OfVenues \in Made("venue_translations", {"languages", "venues"}, {"name_trgm"})
  BY DEF Made, OfVenues
<1>2. OfVenues \in Passes[7]
  BY <1>1 DEF Passes
<1>3. QED  BY <1>2, PassesAreAdded

LEMMA UpTogether ==
  ASSUME NEW r \in 0..30, NEW state, IsState(state), Together(state.schema, r),
         Run(Upgrades[r + 1], state).ok
  PROVE  Together(Run(Upgrades[r + 1], state).schema, r + 1)
<1> DEFINE P == Upgrades[r + 1]
<1>1. PICK n : n = r + 1
  OBVIOUS
<1>2. n \in 1..31 /\ r = n - 1
  BY <1>1
<1>3. PICK after : after = Run(P, state).schema
  OBVIOUS
<1>4. after = {o \in state.schema : ~Takes(n, o)} \cup Added(n)
  <2>1. /\ Len(P) \in Nat /\ DOMAIN P = 1..Len(P) /\ KeepsItsOwn(P)
    BY <1>1, <1>2, ProgramsAreSequences, ProgramsKeepTheirOwn
  <2>2. after = {o \in state.schema : ~Hits(Done(P, "remove"), o)} \cup Done(P, "add")
    BY <1>3, <2>1, RunMoves
  <2>3. \A o : Takes(n, o) <=> Hits(Done(P, "remove"), o)
    BY <1>1 DEF Takes, Hits
  <2>4. QED  BY <1>1, <2>2, <2>3 DEF Added
<1>5. n \in 1..21 => ~Takes(n, OfVenues)
  <2>1. n \in 1..20 => ~Takes(n, OfVenues)
    BY <1>2, TakersAreFew
  <2>2. OfVenues.table \notin PlanTables \cup {"payments", "promo_codes", "promo_code_redemptions"}
    BY TheIndexes DEF Is, PlanTables
  <2>3. ~Takes(21, OfVenues)
    BY <2>2, Spared
  <2>4. QED  BY <2>1, <2>3
<1>6. n \in 7..8 => OfVenues \in after
  <2>1. CASE n = 7
    BY <1>4, <2>1, VenuesAdd
  <2>2. CASE n = 8
    BY <1>2, <1>4, <1>5, <2>2 DEF Together
  <2>3. QED  BY <2>1, <2>2
<1>7. ASSUME n \in 9..21, OfMenu \in after  PROVE OfVenues \in after
  <2>1. CASE n = 9
    BY <1>2, <1>4, <1>5, <2>1 DEF Together
  <2>2. CASE n # 9
    <3>1. OfMenu \notin Added(n)
      BY <1>7, <2>2, TheIndexes, AddedOnce
    <3>2. OfMenu \in state.schema /\ r \in 9..21
      BY <1>2, <1>4, <1>7, <2>2, <3>1
    <3>3. QED  BY <1>4, <1>5, <1>7, <3>2 DEF Together
  <2>3. QED  BY <2>1, <2>2
<1>8. QED  BY <1>1, <1>3, <1>6, <1>7 DEF Together

\* The way back from the menu is refused where the index of the menu is lost.
LEMMA MenuBackNeedsIndex ==
  ASSUME NEW state, IsState(state), Follows(state.schema, 9), Run(Downgrades[9], state).ok
  PROVE  OfMenu \in state.schema
<1> DEFINE P == Downgrades[9]
<1>1. /\ Len(P) \in Nat /\ KeepsItsOwn(P) /\ Done(P, "add") = {} /\ DOMAIN P = 1..Len(P)
  BY EarlyAddNothing, ProgramsAreSequences
<1>2. /\ Len(P) = 8 /\ P[4] = Drop("menu_item_translations", {"name_trgm"})
  BY DEF Downgrades, MenuDown
<1> HIDE DEF P
<1>3. PICK f : /\ f[0] = state /\ Run(P, state) = f[8]
               /\ \A k \in 0..8 : Stage(P, k, state, f[k])
               /\ \A k \in 1..8 : f[k] = Attempt(P[k], f[k - 1])
  <2>1. PICK Q : Q = P
    OBVIOUS
  <2>2. Len(Q) \in Nat /\ KeepsItsOwn(Q)
    BY <1>1, <2>1
  <2>3. \E f : /\ f[0] = state /\ Run(Q, state) = f[Len(Q)]
               /\ \A k \in 0..Len(Q) : Stage(Q, k, state, f[k])
               /\ \A k \in 1..Len(Q) : f[k] = Attempt(Q[k], f[k - 1])
    BY <2>2, RunStages
  <2>4. Len(Q) = 8
    BY <1>2, <2>1
  <2>5. QED  BY ONLY <2>1, <2>3, <2>4
<1>4. \A k \in 1..8 : f[k].ok => f[k - 1].ok
  <2>1. ASSUME NEW k \in 1..8, f[k].ok  PROVE f[k - 1].ok
    <3>1. IsState(f[k - 1])
      BY <1>3 DEF Stage
    <3>2. QED  BY <1>3, <2>1, <3>1, AttemptMoves
  <2>2. QED  BY <2>1
<1>5. f[4].ok /\ f[3].ok
  <2>1. f[8].ok
    BY <1>3 DEF P
  <2>2. f[7].ok
    BY <1>4, <2>1
  <2>3. f[6].ok
    BY <1>4, <2>2
  <2>4. f[5].ok
    BY <1>4, <2>3
  <2>5. f[4].ok
    BY <1>4, <2>4
  <2>6. QED  BY <1>4, <2>5
<1>6. f[4] = Attempt(P[4], f[3])
  BY <1>3
<1>7. CanExecute(P[4], f[3])
  BY <1>5, <1>6 DEF Attempt, Refused
<1>8. P[4].do = "remove" /\ OfMenu \in P[4].what
  BY <1>2, Statements DEF Made, OfMenu
<1>9. PICK p \in f[3].schema : SameName(OfMenu, p)
  BY <1>7, <1>8 DEF CanExecute, CanRemove
<1>10. p \in state.schema
  <2>1. UpTo(P, 3, "add") = {}
    <3>1. \A i \in 1..3 : i \in DOMAIN P
      BY <1>1, <1>2
    <3>2. UpTo(P, 3, "add") \subseteq Done(P, "add")
      BY <3>1 DEF UpTo, Done
    <3>3. QED  BY <1>1, <3>2
  <2>2. Stage(P, 3, state, f[3])
    BY <1>3
  <2>3. QED  BY <1>5, <1>9, <2>1, <2>2 DEF Stage, MovedBy
<1>11. Is(p, "index", "menu_item_translations", "name_trgm") /\ p \in Intended(9)
  BY <1>9, <1>10, TheIndexes DEF SameName, Is, Follows
<1>12. p = OfMenu
  <2>1. Passing(p)
    BY <1>11 DEF Passing, PassingIndexes, Is
  <2>2. PICK g \in 1..9 : p \in Passes[g]
    BY <1>11, <2>1, PassingHistory
  <2>3. p.table \in PassingAt[g]
    BY <2>2, PassingTablesKnown
  <2>4. g = 9
    <3>1. g \in {1, 2, 3, 4, 5, 6, 7, 8, 9}
      OBVIOUS
    <3>2. QED  BY <1>11, <2>3, <3>1 DEF PassingAt, Is
  <2>5. \/ p \in Texts("menu_category_translations", "menu_categories")
        \/ p \in Made("menu_item_translations", {"languages", "menu_items"}, {"name_trgm"})
        \/ p \in Texts("menu_item_variant_translations", "menu_item_variants")
    BY <2>2, <2>4 DEF Passes
  <2>6. p \in Made("menu_item_translations", {"languages", "menu_items"}, {"name_trgm"})
    BY <1>11, <2>5, TheirTables DEF Texts, Is
  <2>7. p = Index("menu_item_translations", p.name)
    BY <1>11, <2>6, MadeHas DEF Is
  <2>8. QED  BY <1>11, <2>7 DEF Is, OfMenu
<1>13. QED  BY <1>10, <1>12

LEMMA DownTogether ==
  ASSUME NEW r \in 1..31, NEW state, IsState(state), Follows(state.schema, r),
         Together(state.schema, r), Run(Downgrades[r], state).ok
  PROVE  Together(Run(Downgrades[r], state).schema, r - 1)
<1> DEFINE P == Downgrades[r]
<1>1. PICK after : after = Run(P, state).schema
  OBVIOUS
<1>2. after = {o \in state.schema : ~Hits(Done(P, "remove"), o)} \cup Done(P, "add")
  <2>1. /\ Len(P) \in Nat /\ DOMAIN P = 1..Len(P) /\ KeepsItsOwn(P)
    BY ProgramsAreSequences, ProgramsKeepTheirOwn
  <2>2. QED  BY <1>1, <2>1, RunMoves
<1> HIDE DEF P
<1>3. ASSUME r \in 8..21, OfVenues \in state.schema  PROVE OfVenues \in after
  <2>1. OfVenues \in Intended(r) /\ OfVenues \notin Added(r)
    BY <1>3, TheIndexes, AddedOnce DEF Follows
  <2>2. OfVenues \in Intended(r - 1)
    BY <2>1, IntendedNext
  <2>3. CASE r # 21
    <3>1. ~Hits(Done(P, "remove"), OfVenues)
      BY <1>3, <2>2, <2>3, EarlySpareTheRest DEF P
    <3>2. QED  BY <1>2, <1>3, <3>1
  <2>4. CASE r = 21
    <3>1. ~Hits(Done(P, "remove"), OfVenues)
      BY <2>4, TheIndexes, Down21 DEF P, Is
    <3>2. QED  BY <1>2, <1>3, <3>1
  <2>5. QED  BY <2>3, <2>4
<1>4. ASSUME r \in 10..22  PROVE OfMenu \notin Done(P, "add")
  <2>1. CASE r \in 10..20
    BY <2>1, EarlyAddNothing DEF P
  <2>2. CASE r = 21
    <3>1. OfMenu.kind = "index" /\ OfMenu.table = "menu_item_translations"
      BY TheIndexes DEF Is
    <3>2. OfMenu \in Done(P, "add") => OfMenu.table \in PlanTables \/ OfMenu.kind \in {"column", "key", "check"}
      BY <2>2, Down21, TheirTables, ColumnIs, CheckIs, KeyIs DEF P, PlanTables, PaymentChecks, AppliesTo
    <3>3. QED  BY <3>1, <3>2 DEF PlanTables
  <2>3. CASE r = 22
    <3>1. ASSUME NEW m \in Moves,
                 OfMenu \in {Relation(m[2]), ForeignKey(m[2], m[1]), ForeignKey(m[2], "languages")}
          PROVE  FALSE
      <4>1. PICK a, b : a = m[1] /\ b = m[2]
        OBVIOUS
      <4>2. OfMenu = Relation(b) \/ OfMenu = ForeignKey(b, a) \/ OfMenu = ForeignKey(b, "languages")
        BY <3>1, <4>1
      <4>3. /\ Relation(b).kind = "table" /\ ForeignKey(b, a).kind = "key"
            /\ ForeignKey(b, "languages").kind = "key" /\ OfMenu.kind = "index"
        <5>1. OfMenu.kind = "index"
          BY TheIndexes DEF Is
        <5>2. Relation(b).kind = "table"
          BY RelationIs
        <5>3. ForeignKey(b, a).kind = "key" /\ ForeignKey(b, "languages").kind = "key"
          BY KeyIs
        <5>4. QED  BY <5>1, <5>2, <5>3
      <4>4. QED  BY ONLY <4>2, <4>3
    <3>2. OfMenu \notin TextObjects
      BY <3>1 DEF TextObjects
    <3>3. QED  BY <2>3, <3>2, Down22 DEF P
  <2>4. QED  BY <1>4, <2>1, <2>2, <2>3
<1>5. r - 1 \in 7..8 => OfVenues \in after
  <2>1. CASE r = 8
    BY <1>3, <2>1 DEF Together
  <2>2. CASE r = 9
    <3>1. OfMenu \in state.schema
      BY <2>2, MenuBackNeedsIndex
    <3>2. QED  BY <1>3, <2>2, <3>1 DEF Together
  <2>3. QED  BY <2>1, <2>2
<1>6. ASSUME r - 1 \in 9..21, OfMenu \in after  PROVE OfVenues \in after
  <2>1. OfMenu \in state.schema
    BY <1>2, <1>4, <1>6
  <2>2. r # 22
    <3>1. \A o \in Intended(22) : o.table \notin TextTables
      BY TextsAreGone
    <3>2. QED  BY <2>1, <3>1, TheIndexes DEF Follows
  <2>3. QED  BY <1>3, <1>6, <2>1, <2>2 DEF Together
<1>7. QED  BY <1>1, <1>5, <1>6 DEF Together, P
-----------------------------------------------------------------------------
(* A way back is refused by rows only, or by the lost index.                  *)

\* No way back leaves a row that holds what another one deletes.
LEMMA DownHolds ==
  ASSUME NEW r \in 1..31, NEW state, IsState(state), Run(Downgrades[r], state).ok
  PROVE  Run(Downgrades[r], state).rows \cap Holding \subseteq state.rows
<1> DEFINE P == Downgrades[r]
           n == Len(P)
<1>1. n \in Nat /\ KeepsItsOwn(P)
  BY ProgramsAreSequences, ProgramsKeepTheirOwn
<1>2. UpTo(P, n, "insert") \subseteq {Seed("venue_types")}
  BY DownInserts DEF UpTo, Quiet
<1>3. Seed("venue_types") \notin Holding
  <2>1. Holding \subseteq RowsThatMatter
    BY DEF Holding, RowsThatMatter
  <2>2. QED  BY <2>1, SeedsDiffer, SeedIs
<1> HIDE DEF P, n
<1>4. PICK f : /\ f[0] = state /\ Run(P, state) = f[n]
               /\ \A k \in 0..n : Stage(P, k, state, f[k])
  BY <1>1, RunStages DEF n
<1>5. Stage(P, n, state, Run(P, state))
  <2>1. n \in 0..n
    BY <1>1
  <2>2. QED  BY <1>4, <2>1
<1>6. Run(P, state).rows \subseteq RowsBy(P, n, state.rows)
  BY <1>5 DEF Stage, P
<1>7. QED  BY <1>2, <1>3, <1>6 DEF RowsBy, P

\* A way back that is under way goes back, and whatever refuses it was there.
BackFits(t, rows) ==
    /\ t.work.ok => Together(t.work.schema, t.at)
    /\ t.by = Operator =>
           /\ t.to <= t.at
           /\ t.work.ok => t.work.rows \cap Holding \subseteq rows
           /\ ~t.work.ok => t.at = 8 \/ rows \cap Holding # {}

BackInv ==
    /\ CauseInv
    /\ Together(db.state.schema, db.rev)
    /\ transaction # NoTransaction => BackFits(transaction, db.state.rows)
    /\ DowngradeRefusedForCause

LEMMA BackInitially == Init => BackInv
<1> SUFFICES ASSUME Init PROVE BackInv
  OBVIOUS
<1>1. CauseInv
  BY CauseInitially
<1>2. db.rev = 0 /\ transaction = NoTransaction /\ operator.op = "idle"
  BY DEF Init
<1>3. QED  BY <1>1, <1>2 DEF BackInv, Together, DowngradeRefusedForCause

\* A way back is refused at the menu, or by a row that holds what it deletes.
LEMMA DownRefused ==
  ASSUME NEW r \in 1..31, NEW state, IsState(state), state.ok, Follows(state.schema, r),
         RowsFit(state), Together(state.schema, r), ~Run(Downgrades[r], state).ok
  PROVE  r - 1 = 8 \/ state.rows \cap Holding # {}
<1> SUFFICES ASSUME r # 9, state.rows \cap Holding = {}  PROVE FALSE
  OBVIOUS
<1>1. ASSUME r \in 1..20  PROVE Added(r) \cap LostIndexes \subseteq state.schema
  <2>1. ASSUME NEW o \in LostIndexes \cap Added(r)  PROVE o \in state.schema
    <3>1. Birth(o.table) = r /\ o \in {OfVenues, OfMenu}
      BY <1>1, AddedOnce, TheIndexes
    <3>2. r = 7 /\ o = OfVenues
      BY <3>1, TheIndexes
    <3>3. QED  BY <3>2 DEF Together
  <2>2. QED  BY <2>1
<1>2. QED  BY <1>1, DownAccepted

LEMMA BackRevising ==
  ASSUME BackInv, Revise
  PROVE  BackInv'
<1>1. CauseInv' /\ CauseInv /\ FollowsInv
  BY CauseRevising DEF BackInv, CauseInv
<1>2. /\ transaction # NoTransaction /\ transaction.at # transaction.to /\ transaction.work.ok
      /\ db' = db /\ operator' = operator
  BY DEF Revise
<1>3. PICK by, at, to, work :
        /\ transaction = [by |-> by, at |-> at, to |-> to, work |-> work]
        /\ at \in 0..31 /\ to \in 0..31 /\ IsState(work) /\ work.ok /\ at # to
        /\ Follows(work.schema, at) /\ by \in Container \cup {Operator}
  BY <1>1, <1>2, NewestIsLast DEF FollowsInv, MigrationsInv, TransactionFits, InTransaction
<1>4. PICK rows : rows = db.state.rows
  OBVIOUS
<1>5. RowsFit(work) /\ (by \in Container => at <= to)
  <2>1. WayFits([by |-> by, at |-> at, to |-> to, work |-> work], rows)
    BY <1>1, <1>2, <1>3, <1>4 DEF CauseInv
  <2>2. QED  BY <1>3, <2>1 DEF WayFits
<1>6. /\ Together(work.schema, at)
      /\ by = Operator => to <= at /\ work.rows \cap Holding \subseteq rows
  <2>1. BackFits([by |-> by, at |-> at, to |-> to, work |-> work], rows)
    BY <1>2, <1>3, <1>4 DEF BackInv
  <2>2. QED  BY <1>3, <2>1 DEF BackFits
<1>7. Together(db'.state.schema, db'.rev) /\ DowngradeRefusedForCause' /\ db'.state.rows = rows
  BY <1>2, <1>4 DEF BackInv, DowngradeRefusedForCause
<1>8. ASSUME NEW next \in Nat, NEW result,
             transaction' = [transaction EXCEPT !.at = next, !.work = result],
             result.ok => Together(result.schema, next),
             by = Operator => /\ to <= next
                              /\ result.ok => result.rows \cap Holding \subseteq rows
                              /\ ~result.ok => next = 8 \/ rows \cap Holding # {}
      PROVE  BackInv'
  <2>1. transaction' = [by |-> by, at |-> next, to |-> to, work |-> result]
    BY <1>3, <1>8
  <2>2. BackFits([by |-> by, at |-> next, to |-> to, work |-> result], rows)
    BY <1>8 DEF BackFits
  <2>3. BackFits(transaction', db'.state.rows)
    BY <1>7, <2>1, <2>2
  <2>4. QED  BY <1>1, <1>7, <2>3 DEF BackInv
<1>9. CASE at < to
  <2>1. at \in 0..30 /\ at + 1 \in Nat
    BY <1>3, <1>9
  <2>2. PICK result : result = Run(Upgrades[at + 1], work)
    OBVIOUS
  <2>3. transaction' = [transaction EXCEPT !.at = at + 1, !.work = result]
    BY <1>3, <1>9, <2>2 DEF Revise
  <2>4. result.ok => Together(result.schema, at + 1)
    BY <1>3, <1>6, <2>1, <2>2, UpTogether
  <2>5. by # Operator
    BY <1>3, <1>6, <1>9
  <2>6. QED  BY <1>8, <2>1, <2>3, <2>4, <2>5
<1>10. CASE ~(at < to)
  <2>1. at \in 1..31 /\ at - 1 \in Nat /\ to <= at - 1
    BY <1>3, <1>10
  <2>2. PICK result : result = Run(Downgrades[at], work)
    OBVIOUS
  <2>3. transaction' = [transaction EXCEPT !.at = at - 1, !.work = result]
    BY <1>3, <1>10, <2>2 DEF Revise
  <2>4. result.ok => Together(result.schema, at - 1)
    BY <1>3, <1>6, <2>1, <2>2, DownTogether
  <2>5. result.ok => result.rows \cap Holding \subseteq work.rows
    BY <1>3, <2>1, <2>2, DownHolds
  <2>6. ~result.ok => at - 1 = 8 \/ work.rows \cap Holding # {}
    BY <1>3, <1>5, <1>6, <2>1, <2>2, DownRefused
  <2>7. by = Operator => /\ to <= at - 1
                         /\ result.ok => result.rows \cap Holding \subseteq rows
                         /\ ~result.ok => at - 1 = 8 \/ rows \cap Holding # {}
    BY <1>6, <2>1, <2>5, <2>6
  <2>8. QED  BY <1>8, <2>1, <2>3, <2>4, <2>7
<1>11. QED  BY <1>9, <1>10

LEMMA BackNext == BackInv /\ [Next]_vars => BackInv'
<1> SUFFICES ASSUME BackInv, [Next]_vars PROVE BackInv'
  OBVIOUS
<1>1. CauseInv /\ CauseInv' /\ FollowsInv /\ MigrationsInv
  BY CauseNext DEF BackInv, CauseInv, FollowsInv
<1>2. PICK state, rev : state = db.state /\ rev = db.rev
  OBVIOUS
<1>3. Together(state.schema, rev)
  BY <1>2 DEF BackInv
<1>4. operator' = operator => DowngradeRefusedForCause'
  BY DEF BackInv, DowngradeRefusedForCause
<1>5. operator'.op # "refused" => DowngradeRefusedForCause'
  BY DEF DowngradeRefusedForCause
<1>6. ASSUME db' = db, transaction' = transaction \/ transaction' = NoTransaction, operator' = operator
      PROVE  BackInv'
  <2>1. PICK t : t = transaction
    OBVIOUS
  <2>2. t # NoTransaction => BackFits(t, state.rows)
    BY <1>2, <2>1 DEF BackInv
  <2>3. db'.state = state /\ db'.rev = rev
    BY <1>2, <1>6
  <2>4. QED  BY <1>1, <1>3, <1>4, <1>6, <2>1, <2>2, <2>3 DEF BackInv
<1>7. ASSUME NEW by, NEW to, Begin(by, db.rev, to), db' = db, DowngradeRefusedForCause',
             by = Operator => to <= rev
      PROVE  BackInv'
  <2>1. transaction' = [by |-> by, at |-> rev, to |-> to, work |-> state]
    BY <1>2, <1>7 DEF Begin
  <2>2. state.ok
    BY <1>1, <1>2 DEF MigrationsInv
  <2>3. BackFits([by |-> by, at |-> rev, to |-> to, work |-> state], state.rows)
    BY <1>3, <1>7, <2>2 DEF BackFits
  <2>4. db'.state = state /\ db'.rev = rev
    BY <1>2, <1>7
  <2>5. QED  BY <1>1, <1>3, <1>7, <2>1, <2>3, <2>4 DEF BackInv
<1>8. CASE Commit
  <2>1. PICK t : t = transaction
    OBVIOUS
  <2>2. /\ t # NoTransaction /\ t.at = t.to /\ t.work.ok
        /\ db' = [rev |-> t.to, state |-> t.work] /\ transaction' = NoTransaction
    BY <1>8, <2>1 DEF Commit
  <2>3. Together(t.work.schema, t.at)
    BY <2>1, <2>2 DEF BackInv, BackFits
  <2>4. PICK work, to : work = t.work /\ to = t.to
    OBVIOUS
  <2>5. db'.state = work /\ db'.rev = to
    BY <2>2, <2>4
  <2>6. operator'.op # "refused" \/ operator' = operator
    BY <1>8 DEF Commit
  <2>7. QED  BY <1>1, <1>4, <1>5, <2>2, <2>3, <2>4, <2>5, <2>6 DEF BackInv
<1>9. CASE Rollback
  <2>1. PICK t : t = transaction
    OBVIOUS
  <2>2. t # NoTransaction /\ ~t.work.ok /\ db' = db /\ transaction' = NoTransaction
    BY <1>9, <2>1 DEF Rollback
  <2>3. DowngradeRefusedForCause'
    <3>1. CASE transaction.by = Operator
      <4>1. t.at = 8 \/ state.rows \cap Holding # {}
        BY <1>2, <2>1, <2>2, <3>1 DEF BackInv, BackFits
      <4>2. PICK at, rows, back : at = t.at /\ rows = state.rows /\ back = operator.back
        OBVIOUS
      <4>3. operator' = [op |-> "refused", back |-> back, past |-> at, rows |-> rows]
        BY <1>2, <1>9, <2>1, <3>1, <4>2 DEF Rollback
      <4>4. operator'.past = at /\ operator'.rows = rows
        BY <4>3
      <4>5. QED  BY <4>1, <4>2, <4>4 DEF DowngradeRefusedForCause, Holding
    <3>2. CASE transaction.by # Operator
      BY <1>4, <1>9, <3>2 DEF Rollback
    <3>3. QED  BY <3>1, <3>2
  <2>4. db'.state = state /\ db'.rev = rev
    BY <1>2, <2>2
  <2>5. QED  BY <1>1, <1>3, <2>2, <2>3, <2>4 DEF BackInv
<1>10. ASSUME NEW c \in Container, NEW w \in Written, WriteRow(c, w)
       PROVE  BackInv'
  <2>1. transaction' = NoTransaction /\ operator' = operator
    BY <1>10 DEF WriteRow
  <2>2. db' = [db EXCEPT !.state.rows = @ \cup {w}] /\ db = [rev |-> db.rev, state |-> db.state]
        /\ IsState(db.state)
    BY <1>1, <1>10 DEF WriteRow, MigrationsInv
  <2>3. db'.rev = rev /\ db'.state.schema = state.schema
    BY <1>2, <2>2 DEF IsState
  <2>4. QED  BY <1>1, <1>3, <1>4, <2>1, <2>3 DEF BackInv
<1>11. ASSUME NEW c \in Container, NEW w, EraseRow(c, w)
       PROVE  BackInv'
  <2>1. /\ db'.rev = rev /\ db'.state.schema = state.schema
        /\ transaction' = NoTransaction /\ operator' = operator
    BY <1>1, <1>2, <1>11, ErasingIs
  <2>2. QED  BY <1>1, <1>3, <1>4, <2>1 DEF BackInv
<1>12. ASSUME NEW c \in Container
       PROVE  /\ \A image \in Releases : Deploy(c, image) => BackInv'
              /\ ReadVersion(c) \/ LoseRace(c) \/ Crash(c) => BackInv'
              /\ BeginUpgrade(c) => BackInv'
  <2>1. \A image \in Releases : Deploy(c, image) => BackInv'
    BY <1>6 DEF Deploy
  <2>2. ReadVersion(c) \/ LoseRace(c) \/ Crash(c) => BackInv'
    BY <1>6 DEF ReadVersion, LoseRace, Crash
  <2>3. ASSUME BeginUpgrade(c)  PROVE BackInv'
    <3>1. c # Operator
      BY MigrationsAssumption
    <3>2. /\ Begin(c, db.rev, containers[c].image) /\ db' = db /\ operator' = operator
      BY <2>3 DEF BeginUpgrade, Begin
    <3>3. QED  BY <1>4, <1>7, <3>1, <3>2
  <2>4. QED  BY <2>1, <2>2, <2>3
<1>13. ASSUME NEW to \in Targets, BeginDowngrade(to)
       PROVE  BackInv'
  <2>1. Begin(Operator, db.rev, to) /\ db' = db /\ operator'.op = "busy" /\ to < rev
    BY <1>2, <1>13 DEF BeginDowngrade
  <2>2. to \in Nat /\ rev \in Nat
    BY <1>1, <1>2, MigrationsAssumption, NewestIsLast DEF MigrationsInv
  <2>3. QED  BY <1>5, <1>7, <2>1, <2>2
<1>14. CASE UNCHANGED vars
  BY <1>6, <1>14 DEF vars
<1>15. QED  BY <1>8, <1>9, <1>10, <1>12, <1>13, <1>14, <1>11, BackRevising DEF Next

\* Wherever the database stands and whatever the releases wrote, a way back is
\* refused at the revision of the menu, whose index is lost, or by a reference,
\* without an ON DELETE action, to rows that it deletes: one to a guest known by
\* Telegram alone, to a seeded district or to a row of the reference lists, and
\* it was committed when the way back began.
THEOREM DowngradesRefusedForCause == Spec => []DowngradeRefusedForCause
<1>1. BackInv => DowngradeRefusedForCause
  BY DEF BackInv
<1>2. QED  BY <1>1, BackInitially, BackNext, PTL DEF Spec
=============================================================================
