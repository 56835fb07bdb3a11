-------------------------- MODULE MigrationsProofs --------------------------
(* Machine-checked theorems about the migrations, for any number of replicas, *)
(* any releases, any rows that they write and any number of faults.           *)
EXTENDS Migrations, TLAPS, FiniteSetTheorems

\* Sets of numbers have a least element, by the finiteness of what is below it.
LEMMA Smallest ==
  ASSUME NEW T, T \subseteq Nat, T # {}
  PROVE  \E x \in T : \A y \in T : x <= y
<1> DEFINE R == StrictSubsetOrdering(Nat)
           U == {0..k : k \in T}
<1>1. IsWellFoundedOn(R, FiniteSubsetsOf(Nat))
  BY FS_StrictSubsetOrderingWellFounded
<1>2. U \subseteq FiniteSubsetsOf(Nat) /\ U # {}
  <2>1. ASSUME NEW k \in Nat  PROVE 0..k \in FiniteSubsetsOf(Nat)
    BY FS_Interval DEF FiniteSubsetsOf
  <2>2. QED  BY <2>1
<1>3. PICK s \in U : \A t \in U : <<t, s>> \notin R
  <2> HIDE DEF R, U
  <2> QED  BY <1>1, <1>2, WFMin
<1>4. PICK x \in T : s = 0..x
  BY <1>3
<1>5. ASSUME NEW y \in T, y < x PROVE FALSE
  <2>1. 0..y \subseteq 0..x /\ 0..y # 0..x
    BY <1>5
  <2>2. <<0..y, 0..x>> \in R
    BY <2>1, <1>5 DEF StrictSubsetOrdering
  <2>3. QED  BY <1>3, <1>4, <2>2
<1>6. QED  BY <1>5

\* Induction, for a set in place of a predicate.
LEMMA Induct ==
  ASSUME NEW S, 0 \in S, \A n \in Nat : n \in S => n + 1 \in S
  PROVE  \A n \in Nat : n \in S
<1> SUFFICES ASSUME Nat \ S # {} PROVE FALSE
  OBVIOUS
<1>1. PICK x \in Nat \ S : \A y \in Nat \ S : x <= y
  BY Smallest
<1>2. x # 0 /\ x \in Nat
  BY <1>1
<1>3. x - 1 \in Nat /\ x - 1 \in S
  BY <1>1, <1>2
<1>4. (x - 1) + 1 \in S
  BY <1>3
<1>5. QED  BY <1>1, <1>2, <1>4
-----------------------------------------------------------------------------
(* What a program does is what its statements do, one after the other.        *)

States(f, k, program, state) ==
    f = [i \in 0..k |-> IF i = 0 THEN state ELSE Attempt(program[i], f[i - 1])]

LEMMA RunUnfolds ==
  ASSUME NEW program, Len(program) \in Nat, NEW state
  PROVE  \E f : States(f, Len(program), program, state) /\ Run(program, state) = f[Len(program)]
<1> DEFINE S == {k \in Nat : \E g : States(g, k, program, state)}
<1>1. 0 \in S
  <2>1. States([i \in 0..0 |-> state], 0, program, state)
    BY DEF States
  <2>2. QED  BY <2>1
<1>2. ASSUME NEW k \in Nat, k \in S  PROVE k + 1 \in S
  <2>1. PICK g : States(g, k, program, state)
    BY <1>2
  <2>2. PICK h : h = [i \in 0..(k + 1) |-> IF i = 0 THEN state ELSE Attempt(program[i], g[i - 1])]
    OBVIOUS
  <2>3. \A i \in 0..k : i \in 0..(k + 1)
    OBVIOUS
  <2>4. \A i \in 0..k : h[i] = g[i]
    BY <2>1, <2>2, <2>3 DEF States
  <2>5. \A i \in 0..(k + 1) : i # 0 => i - 1 \in 0..k
    OBVIOUS
  <2>6. \A i \in 0..(k + 1) : i # 0 => h[i - 1] = g[i - 1]
    BY <2>4, <2>5
  <2>7. h = [i \in 0..(k + 1) |-> IF i = 0 THEN state ELSE Attempt(program[i], h[i - 1])]
    BY <2>2, <2>6
  <2>8. States(h, k + 1, program, state)
    BY <2>7 DEF States
  <2>9. QED  BY <2>8
<1>3. Len(program) \in S
  <2> HIDE DEF S
  <2> QED  BY <1>1, <1>2, Induct
<1>4. \E g : States(g, Len(program), program, state)
  BY <1>3
<1>5. QED  BY <1>4 DEF Run, States

IsState(s) == s = [schema |-> s.schema, rows |-> s.rows, ok |-> s.ok] /\ s.ok \in BOOLEAN

LEMMA AttemptIsState ==
  ASSUME NEW st, NEW s, IsState(s)
  PROVE  IsState(Attempt(st, s))
<1>1. IsState(Refused)
  BY DEF IsState, Refused
<1>2. IsState(Execute(st, s))
  <2>1. ASSUME NEW x  PROVE IsState([s EXCEPT !.schema = x]) /\ IsState([s EXCEPT !.rows = x])
    BY DEF IsState
  <2>2. ASSUME NEW x, NEW y  PROVE IsState([s EXCEPT !.schema = x, !.rows = y])
    <3>1. PICK a, b, c : s = [schema |-> a, rows |-> b, ok |-> c] /\ c \in BOOLEAN
      BY DEF IsState
    <3>2. [s EXCEPT !.schema = x, !.rows = y] = [[s EXCEPT !.schema = x] EXCEPT !.rows = y]
      BY Zenon
    <3>4. [s EXCEPT !.schema = x] = [schema |-> x, rows |-> b, ok |-> c]
      BY ONLY <3>1
    <3>5. [[schema |-> x, rows |-> b, ok |-> c] EXCEPT !.rows = y] = [schema |-> x, rows |-> y, ok |-> c]
      OBVIOUS
    <3>3. QED  BY <3>1, <3>2, <3>4, <3>5 DEF IsState
  <2>3. QED  BY <2>1, <2>2 DEF Execute, Without
<1>3. QED  BY <1>1, <1>2 DEF Attempt

LEMMA RunIsState ==
  ASSUME NEW program, Len(program) \in Nat, NEW state, IsState(state)
  PROVE  IsState(Run(program, state))
<1>1. PICK f : States(f, Len(program), program, state) /\ Run(program, state) = f[Len(program)]
  BY RunUnfolds
<1> DEFINE S == {k \in Nat : k <= Len(program) => IsState(f[k])}
<1>2. 0 \in S
  BY <1>1 DEF States
<1>3. ASSUME NEW k \in Nat, k \in S  PROVE k + 1 \in S
  <2>1. CASE k + 1 <= Len(program)
    <3>1. f[k + 1] = Attempt(program[k + 1], f[k])
      BY <1>1, <2>1 DEF States
    <3>2. QED  BY <1>3, <2>1, <3>1, AttemptIsState
  <2>2. QED  BY <2>1
<1>4. Len(program) \in S
  <2> HIDE DEF S
  <2> QED  BY <1>2, <1>3, Induct
<1>5. QED  BY <1>1, <1>4

LEMMA NewestIsLast == Newest \in Nat /\ Newest = 31
  BY DEF Newest, Upgrades

\* Every revision is a program that ends.
LEMMA ProgramsEnd ==
  ASSUME NEW r \in 1..Newest
  PROVE  Len(Upgrades[r]) \in Nat /\ Len(Downgrades[r]) \in Nat
<1> DEFINE Ends(n) == Len(Upgrades[n]) \in Nat /\ Len(Downgrades[n]) \in Nat
<1>1. Ends(1) /\ Ends(2) /\ Ends(3) /\ Ends(4) /\ Ends(5) /\ Ends(6) /\ Ends(7) /\ Ends(8)
  BY DEF Upgrades, Downgrades, ExtensionsUp, LocalizationUp, GeoUp, AuthUsers,
     AuthSessions, CatalogUp, VenueGroupsUp, VenuesItself, VenuesCalendar, VenuesFloor,
     StaffRoles, StaffPeople, ExtensionsDown, LocalizationDown, GeoDown, AuthDown,
     CatalogDown, VenueGroupsDown, VenuesDown, StaffDown
<1>2. Ends(9) /\ Ends(10) /\ Ends(11) /\ Ends(12) /\ Ends(13) /\ Ends(14) /\ Ends(15) /\ Ends(16)
  BY DEF Upgrades, Downgrades, MenuDishes, MenuVariants, ServicesUp, PromotionsUp,
     SubscriptionsUp, BookingsItself, BookingsChildren, OrdersItself, OrdersMoney,
     PaymentsUp, ReviewsUp, MenuDown, ServicesDown, PromotionsDown, SubscriptionsDown,
     BookingsDown, OrdersDown, PaymentsDown, ReviewsDown
<1>3. Ends(17) /\ Ends(18) /\ Ends(19) /\ Ends(20) /\ Ends(21) /\ Ends(22) /\ Ends(23) /\ Ends(24)
  BY DEF Upgrades, Downgrades, EngagementUp, AnalyticsUp, ReferenceDataUp, SmsMessagesUp,
     DropSubscriptionsUp, CollapseUp, RolePermissionsUp, DropSmsUp, EngagementDown,
     AnalyticsDown, ReferenceDataDown, SmsMessagesDown, DropSubscriptionsDownTables,
     DropSubscriptionsDownLinks, CollapseDown, RolePermissionsDown, DropSmsDown
<1>4. Ends(25) /\ Ends(26) /\ Ends(27) /\ Ends(28) /\ Ends(29) /\ Ends(30) /\ Ends(31)
  BY DEF Upgrades, Downgrades, DropPaymentsUp, DropIdentitiesUp, VenueTypeEnumUp,
     UniqueRegionCodeUp, RegionsUp, AmenityNamesUp, TelegramUp, DropPaymentsDownMoney,
     DropPaymentsDownRefunds, DropPaymentsDownBooking, DropIdentitiesDown,
     VenueTypeEnumDown, UniqueRegionCodeDown, RegionsDown, AmenityNamesDown, TelegramDown
<1> HIDE DEF Ends
<1>5. \A n \in 1..31 : Ends(n)
  <2>1. \A n \in 1..31 : n \in {1, 2, 3, 4, 5, 6, 7, 8, 9, 10, 11, 12, 13, 14, 15, 16, 17, 18, 19,
                               20, 21, 22, 23, 24, 25, 26, 27, 28, 29, 30, 31}
    OBVIOUS
  <2>2. QED  BY <1>1, <1>2, <1>3, <1>4, <2>1
<1>6. Ends(r)
  BY <1>5, NewestIsLast
<1>7. QED  BY <1>6 DEF Ends
-----------------------------------------------------------------------------
(* The replicas, the one transaction, and what each of them may rely on.      *)

InTransaction(t) ==
    /\ t.by \in Container \cup {Operator}
    /\ t.at \in 0..Newest /\ t.to \in 0..Newest
    /\ IsState(t.work)

ReplicasTyped ==
    /\ containers = [c \in Container |-> containers[c]]
    /\ \A c \in Container :
        /\ containers[c].op \in Ops
        /\ containers[c].image \in Releases \cup {0}
        /\ containers[c].op = "migrating" =>
               containers[c].from \in Nat /\ containers[c].from < containers[c].image

\* While a replica migrates, its transaction starts where the database is.
TransactionFits ==
    \/ transaction = NoTransaction
    \/ /\ transaction = [by |-> transaction.by, at |-> transaction.at, to |-> transaction.to,
                         work |-> transaction.work]
       /\ InTransaction(transaction)
       /\ transaction.by \in Container =>
            /\ containers[transaction.by].op = "migrating"
            /\ transaction.to = containers[transaction.by].image
            /\ db.rev < transaction.to

MigrationsInv ==
    /\ db = [rev |-> db.rev, state |-> db.state]
    /\ db.rev \in 0..Newest /\ IsState(db.state) /\ db.state.ok
    /\ ReplicasTyped
    /\ TransactionFits
    /\ operator.op \in {"idle", "busy", "done", "refused"}
    /\ faults \in 0..MaxFaults
    /\ ServesItsSchema

LEMMA MigrationsTyped == MigrationsInv => TypeOK
<1>1. MigrationsInv => transaction.by \in Container \cup {"nobody", Operator}
  BY DEF MigrationsInv, TransactionFits, InTransaction, NoTransaction
<1>2. QED  BY <1>1 DEF MigrationsInv, ReplicasTyped, TypeOK

LEMMA MigrationsInitially == Init => MigrationsInv
<1> SUFFICES ASSUME Init PROVE MigrationsInv
  OBVIOUS
<1>1. db = [rev |-> 0, state |-> Empty] /\ IsState(Empty) /\ Empty.ok
  BY DEF Init, Empty, IsState
<1>2. ReplicasTyped /\ ServesItsSchema
  BY DEF Init, ReplicasTyped, ServesItsSchema, Stopped, Ops
<1>3. QED  BY <1>1, <1>2, NewestIsLast, MigrationsAssumption DEF Init, MigrationsInv, TransactionFits

\* A replica that holds no transaction changes what it does.
LEMMA BecomingKeeps ==
  ASSUME MigrationsInv, NEW c \in Container, NEW what,
         transaction.by # c, Become(c, what),
         what.op \in Ops, what.image \in Releases \cup {0},
         what.op = "migrating" => what.from \in Nat /\ what.from < what.image,
         what.op = "serving" => what.image = db.rev,
         UNCHANGED <<db, transaction, operator>>, faults' \in 0..MaxFaults
  PROVE  MigrationsInv'
<1>1. /\ containers'[c] = what /\ \A d \in Container \ {c} : containers'[d] = containers[d]
      /\ containers' = [d \in Container |-> containers'[d]]
  BY DEF Become, MigrationsInv, ReplicasTyped
<1>2. ReplicasTyped'
  BY <1>1 DEF MigrationsInv, ReplicasTyped
<1>3. TransactionFits'
  BY <1>1 DEF MigrationsInv, TransactionFits, InTransaction
<1>4. ServesItsSchema'
  <2>1. db.rev \in Nat
    BY NewestIsLast DEF MigrationsInv
  <2>2. QED  BY <1>1, <2>1 DEF MigrationsInv, ServesItsSchema
<1>5. QED  BY <1>2, <1>3, <1>4 DEF MigrationsInv

LEMMA StartingKeeps ==
  ASSUME MigrationsInv, NEW c \in Container,
         \/ \E image \in Releases : Deploy(c, image)
         \/ ReadVersion(c) \/ LoseRace(c)
  PROVE  MigrationsInv'
<1> DEFINE old == containers[c]
<1>1. old.image \in Releases \cup {0} /\ old.image \in Nat
  BY MigrationsAssumption DEF MigrationsInv, ReplicasTyped
<1>2. old.op # "migrating" => transaction.by # c
  BY MigrationsAssumption DEF MigrationsInv, TransactionFits, InTransaction, NoTransaction
<1>3. ASSUME NEW image \in Releases, Deploy(c, image)  PROVE MigrationsInv'
  <2> DEFINE what == [op |-> "starting", image |-> image]
  <2>1. /\ Become(c, what) /\ UNCHANGED <<db, transaction, operator, faults>>
        /\ transaction.by # c
    BY <1>2, <1>3 DEF Deploy
  <2>2. what.op = "starting" /\ what.image = image
    OBVIOUS
  <2> HIDE DEF what
  <2>3. QED  BY <2>1, <2>2, BecomingKeeps DEF Ops, MigrationsInv
<1>4. CASE ReadVersion(c)
  <2> DEFINE image == old.image
             what == CASE db.rev = image -> [op |-> "serving", image |-> image]
                       [] db.rev < image -> [op |-> "migrating", image |-> image, from |-> db.rev]
                       [] OTHER          -> [op |-> "outdated", image |-> image]
  <2>1. /\ Become(c, what) /\ UNCHANGED <<db, transaction, operator, faults>>
        /\ transaction.by # c
    BY <1>2, <1>4 DEF ReadVersion
  <2>2. db.rev \in Nat
    BY NewestIsLast DEF MigrationsInv
  <2>3. /\ what.op \in {"serving", "migrating", "outdated"} /\ what.image = image
        /\ what.op = "migrating" => what.from \in Nat /\ what.from < what.image
        /\ what.op = "serving" => what.image = db.rev
    BY <1>1, <2>2
  <2> HIDE DEF what
  <2>4. QED  BY <1>1, <2>1, <2>3, BecomingKeeps DEF Ops, MigrationsInv
<1>5. CASE LoseRace(c)
  <2> DEFINE what == [op |-> "starting", image |-> old.image]
  <2>1. /\ Become(c, what) /\ UNCHANGED <<db, transaction, operator, faults>>
        /\ transaction.by # c
    BY <1>5 DEF LoseRace
  <2>2. what.op = "starting" /\ what.image = old.image
    OBVIOUS
  <2> HIDE DEF what
  <2>3. QED  BY <1>1, <2>1, <2>2, BecomingKeeps DEF Ops, MigrationsInv
<1>6. QED  BY <1>3, <1>4, <1>5

LEMMA CrashKeeps ==
  ASSUME MigrationsInv, NEW c \in Container, Crash(c)
  PROVE  MigrationsInv'
<1>1. /\ containers'[c] = [op |-> "starting", image |-> containers[c].image]
      /\ \A d \in Container \ {c} : containers'[d] = containers[d]
      /\ containers' = [d \in Container |-> containers'[d]]
  BY DEF Crash, Become, MigrationsInv, ReplicasTyped
<1>2. /\ db' = db /\ operator' = operator /\ faults' = faults + 1 /\ faults < MaxFaults
      /\ transaction' = IF transaction.by = c THEN NoTransaction ELSE transaction
  BY DEF Crash
<1>3. ReplicasTyped'
  BY <1>1 DEF MigrationsInv, ReplicasTyped, Ops
<1>4. TransactionFits'
  BY <1>1, <1>2 DEF MigrationsInv, TransactionFits, InTransaction
<1>5. ServesItsSchema'
  BY <1>1, <1>2 DEF MigrationsInv, ServesItsSchema
<1>6. faults' \in 0..MaxFaults
  BY <1>2, MigrationsAssumption DEF MigrationsInv
<1>7. QED  BY <1>2, <1>3, <1>4, <1>5, <1>6 DEF MigrationsInv

LEMMA BeginningKeeps ==
  ASSUME MigrationsInv,
         \/ \E c \in Container : BeginUpgrade(c)
         \/ \E to \in Targets : BeginDowngrade(to)
  PROVE  MigrationsInv'
<1>1. ASSUME NEW c \in Container, BeginUpgrade(c)  PROVE MigrationsInv'
  <2>1. /\ containers[c].op = "migrating" /\ db.rev < containers[c].image
        /\ containers[c].image \in 0..Newest
    BY <1>1, NewestIsLast, MigrationsAssumption DEF BeginUpgrade, Begin, MigrationsInv, ReplicasTyped
  <2>2. /\ transaction' = [by |-> c, at |-> db.rev, to |-> containers[c].image, work |-> db.state]
        /\ UNCHANGED <<db, containers, operator, faults>>
    BY <1>1 DEF BeginUpgrade, Begin
  <2>3. TransactionFits'
    BY <2>1, <2>2 DEF MigrationsInv, TransactionFits, InTransaction
  <2>4. QED  BY <2>2, <2>3 DEF MigrationsInv, ReplicasTyped, ServesItsSchema
<1>2. ASSUME NEW to \in Targets, BeginDowngrade(to)  PROVE MigrationsInv'
  <2>1. to \in 0..Newest
    BY <1>2, NewestIsLast, MigrationsAssumption DEF BeginDowngrade, MigrationsInv
  <2>2. /\ transaction' = [by |-> Operator, at |-> db.rev, to |-> to, work |-> db.state]
        /\ operator' = [op |-> "busy", back |-> operator.back]
        /\ faults' = faults + 1 /\ faults < MaxFaults
        /\ UNCHANGED <<db, containers>>
    BY <1>2 DEF BeginDowngrade, Begin
  <2>3. TransactionFits'
    BY <2>1, <2>2, MigrationsAssumption DEF MigrationsInv, TransactionFits, InTransaction
  <2>4. faults' \in 0..MaxFaults
    BY <2>2, MigrationsAssumption DEF MigrationsInv
  <2>5. QED  BY <2>2, <2>3, <2>4 DEF MigrationsInv, ReplicasTyped, ServesItsSchema
<1>3. QED  BY <1>1, <1>2

LEMMA RevisingKeeps ==
  ASSUME MigrationsInv, Revise
  PROVE  MigrationsInv'
<1>1. /\ transaction # NoTransaction /\ transaction.at # transaction.to
      /\ UNCHANGED <<db, containers, operator, faults>>
  BY DEF Revise
<1>2. PICK by, at, to, work :
        /\ transaction = [by |-> by, at |-> at, to |-> to, work |-> work]
        /\ by \in Container \cup {Operator} /\ at \in 0..Newest /\ to \in 0..Newest /\ IsState(work)
        /\ by \in Container =>
             containers[by].op = "migrating" /\ to = containers[by].image /\ db.rev < to
  BY <1>1 DEF MigrationsInv, TransactionFits, InTransaction
<1>3. ASSUME NEW next \in 0..Newest, NEW program, Len(program) \in Nat,
             transaction' = [transaction EXCEPT !.at = next, !.work = Run(program, work)]
      PROVE  MigrationsInv'
  <2>1. IsState(Run(program, work))
    BY <1>2, <1>3, RunIsState
  <2> DEFINE result == Run(program, work)
  <2>2. transaction' = [by |-> by, at |-> next, to |-> to, work |-> result]
    <3> HIDE DEF result
    <3>1. transaction' = [transaction EXCEPT !.at = next, !.work = result]
      BY <1>3 DEF result
    <3>2. QED  BY <1>2, <3>1
  <2> HIDE DEF result
  <2>3. TransactionFits'
    BY <1>1, <1>2, <1>3, <2>1, <2>2 DEF TransactionFits, InTransaction, result
  <2>4. QED  BY <1>1, <2>3 DEF MigrationsInv, ReplicasTyped, ServesItsSchema
<1>4. CASE at < to
  <2>1. at + 1 \in 1..Newest /\ at + 1 \in 0..Newest
    BY <1>2, <1>4, NewestIsLast
  <2>2. transaction' = [transaction EXCEPT !.at = at + 1, !.work = Run(Upgrades[at + 1], work)]
    BY <1>2, <1>4 DEF Revise
  <2>3. QED  BY <1>3, <2>1, <2>2, ProgramsEnd
<1>5. CASE ~(at < to)
  <2>1. at \in 1..Newest /\ at - 1 \in 0..Newest
    BY <1>1, <1>2, <1>5, NewestIsLast
  <2>2. transaction' = [transaction EXCEPT !.at = at - 1, !.work = Run(Downgrades[at], work)]
    BY <1>2, <1>5 DEF Revise
  <2>3. QED  BY <1>3, <2>1, <2>2, ProgramsEnd
<1>6. QED  BY <1>4, <1>5

\* The end of a way: the replica it belongs to serves, or is refused.
LEMMA EndingKeeps ==
  ASSUME MigrationsInv, Commit \/ Rollback
  PROVE  MigrationsInv'
<1>1. transaction # NoTransaction /\ transaction' = NoTransaction /\ faults' = faults
  BY DEF Commit, Rollback
<1>2. /\ transaction.by \in Container \cup {Operator}
      /\ transaction.to \in 0..Newest /\ IsState(transaction.work)
      /\ transaction.by \in Container =>
            /\ transaction.to = containers[transaction.by].image
            /\ db.rev < transaction.to
  BY <1>1 DEF MigrationsInv, TransactionFits, InTransaction
<1>3. TransactionFits'
  BY <1>1 DEF TransactionFits
<1>4. CASE transaction.by = Operator
  <2>1. containers' = containers /\ operator'.op \in {"done", "refused"}
    BY <1>4 DEF Commit, Rollback
  <2>2. \/ operator'.back = TRUE /\ db' = [rev |-> transaction.to, state |-> transaction.work]
           /\ transaction.work.ok
        \/ operator'.back = operator.back /\ db' = db
    BY <1>4 DEF Commit, Rollback
  <2>3. ReplicasTyped'
    BY <2>1 DEF MigrationsInv, ReplicasTyped
  <2>4. ServesItsSchema'
    BY <2>1, <2>2 DEF MigrationsInv, ServesItsSchema
  <2>5. QED  BY <1>1, <1>2, <1>3, <2>1, <2>2, <2>3, <2>4 DEF MigrationsInv
<1>5. CASE transaction.by \in Container
  <2> DEFINE c == transaction.by
  <2>1. transaction.by # Operator
    BY <1>5, MigrationsAssumption
  <2>2. operator' = operator
    BY <2>1 DEF Commit, Rollback
  <2>3. PICK what :
          /\ Become(c, what) /\ what.op \in {"serving", "refused"} /\ what.image = transaction.to
          /\ \/ db' = [rev |-> transaction.to, state |-> transaction.work] /\ transaction.work.ok
             \/ db' = db /\ what.op = "refused"
    BY <2>1 DEF Commit, Rollback
  <2>4. /\ containers'[c] = what
        /\ \A d \in Container \ {c} : containers'[d] = containers[d]
        /\ containers' = [d \in Container |-> containers'[d]]
    BY <1>5, <2>3 DEF Become, MigrationsInv, ReplicasTyped
  <2>5. ReplicasTyped'
    BY <1>2, <1>5, <2>3, <2>4 DEF MigrationsInv, ReplicasTyped, Ops
  <2>6. ServesItsSchema'
    <3>1. \A d \in Container : containers[d].image \in Nat
      BY MigrationsAssumption DEF MigrationsInv, ReplicasTyped
    <3>2. db.rev \in Nat /\ transaction.to \in Nat
      BY <1>2, NewestIsLast DEF MigrationsInv
    <3>3. db'.rev \in Nat /\ db.rev <= db'.rev /\ (what.op = "serving" => db'.rev = what.image)
      BY <1>2, <1>5, <2>3, <3>2
    <3>4. QED  BY <1>5, <2>2, <2>4, <3>1, <3>2, <3>3 DEF MigrationsInv, ServesItsSchema
  <2>7. QED  BY <1>1, <1>2, <1>3, <2>2, <2>3, <2>5, <2>6 DEF MigrationsInv
<1>6. QED  BY <1>2, <1>4, <1>5

LEMMA WritingKeeps ==
  ASSUME MigrationsInv, NEW c \in Container, NEW w, WriteRow(c, w)
  PROVE  MigrationsInv'
<1>1. /\ db' = [db EXCEPT !.state.rows = @ \cup {w}]
      /\ UNCHANGED <<containers, transaction, operator, faults>>
      /\ transaction = NoTransaction
  BY DEF WriteRow
<1>2. PICK rev, schema, rows : db = [rev |-> rev, state |-> [schema |-> schema, rows |-> rows, ok |-> TRUE]]
  BY DEF MigrationsInv, IsState
<1>3. db' = [rev |-> rev, state |-> [schema |-> schema, rows |-> rows \cup {w}, ok |-> TRUE]]
  BY <1>1, <1>2
<1>4. db' = [rev |-> db'.rev, state |-> db'.state] /\ db'.rev = db.rev /\ IsState(db'.state) /\ db'.state.ok
  BY <1>2, <1>3 DEF IsState
<1>5. QED  BY <1>1, <1>4 DEF MigrationsInv, TransactionFits, ReplicasTyped, ServesItsSchema

\* What is erased takes nothing else with it.
LEMMA ErasingIs ==
  ASSUME MigrationsInv, NEW c \in Container, NEW w, EraseRow(c, w)
  PROVE  /\ db'.rev = db.rev /\ db'.state.schema = db.state.schema
         /\ db'.state.rows = db.state.rows \ {w} /\ w \in Erases[db.rev] \cap db.state.rows
         /\ db' = [rev |-> db'.rev, state |-> db'.state] /\ IsState(db'.state) /\ db'.state.ok
         /\ transaction = NoTransaction /\ UNCHANGED <<containers, transaction, operator, faults>>
<1>1. /\ db' = [db EXCEPT !.state.rows = @ \ {w}] /\ w \in Erases[db.rev] \cap db.state.rows
      /\ transaction = NoTransaction /\ UNCHANGED <<containers, transaction, operator, faults>>
  BY DEF EraseRow
<1>2. PICK rev, schema, rows : db = [rev |-> rev, state |-> [schema |-> schema, rows |-> rows, ok |-> TRUE]]
  BY DEF MigrationsInv, IsState
<1>3. db' = [rev |-> rev, state |-> [schema |-> schema, rows |-> rows \ {w}, ok |-> TRUE]]
  BY <1>1, <1>2
<1>4. /\ db.rev = rev /\ db.state.schema = schema /\ db.state.rows = rows
      /\ db'.rev = rev /\ db'.state = [schema |-> schema, rows |-> rows \ {w}, ok |-> TRUE]
  BY <1>2, <1>3
<1>5. /\ db'.state.schema = schema /\ db'.state.rows = rows \ {w}
      /\ IsState(db'.state) /\ db'.state.ok
  BY <1>4 DEF IsState
<1>6. db' = [rev |-> db'.rev, state |-> db'.state]
  BY <1>3
<1>7. QED  BY <1>1, <1>4, <1>5, <1>6

LEMMA MigrationsNextKeeps == MigrationsInv /\ [Next]_vars => MigrationsInv'
<1> SUFFICES ASSUME MigrationsInv, [Next]_vars PROVE MigrationsInv'
  OBVIOUS
<1>1. CASE UNCHANGED vars
  BY <1>1 DEF vars, MigrationsInv, ReplicasTyped, TransactionFits, ServesItsSchema
<1>2. ASSUME NEW c \in Container, NEW w, WriteRow(c, w)  PROVE MigrationsInv'
  BY <1>2, WritingKeeps
<1>3. ASSUME NEW c \in Container, NEW w, EraseRow(c, w)  PROVE MigrationsInv'
  BY <1>3, ErasingIs DEF MigrationsInv, TransactionFits, ReplicasTyped, ServesItsSchema
<1>4. CASE Next
  BY <1>2, <1>3, <1>4, StartingKeeps, CrashKeeps, BeginningKeeps, RevisingKeeps, EndingKeeps DEF Next
<1>5. QED  BY <1>1, <1>4

LEMMA MigrationsInvariant == Spec => []MigrationsInv
  BY MigrationsInitially, MigrationsNextKeeps, PTL DEF Spec

\* Only a way that no statement refused is committed, and the database is at a
\* revision of the chain, whatever the releases and whatever they write.
THEOREM MigrationsAreTyped == Spec => []TypeOK
  BY MigrationsInvariant, MigrationsTyped, PTL

\* The entrypoint migrates before it serves: however many replicas race, crash
\* and lose, none serves in front of an older schema unless somebody went back.
THEOREM MigratedBeforeServing == Spec => []ServesItsSchema
<1>1. MigrationsInv => ServesItsSchema
  BY DEF MigrationsInv
<1>2. QED  BY <1>1, MigrationsInvariant, PTL
-----------------------------------------------------------------------------
(* The reference lists: what a way up brings, no later revision takes.         *)

Lists == {"languages", "staff_roles", "permissions", "service_catalog", "amenities",
          "staff_role_permissions", "regions", "districts"}

\* A statement that neither drops one of the lists nor deletes a row of one.
SparesLists(st) ==
    /\ st.do = "remove" => Tables(st.what) \cap Lists = {}
    /\ st.do = "delete" => \A w \in st.what : w.table \notin Lists

SparesAll(program) == \A i \in 1..Len(program) : SparesLists(program[i])

LEMMA AddSpares == \A x : SparesLists(Add(x)) /\ SparesLists(Insert(x)) /\ SparesLists(Forbid(x))
  BY DEF SparesLists, Add, Insert, Forbid, Statement

LEMMA CreateSpares == \A t, refs, indexes : SparesLists(Create(t, refs, indexes))
  BY DEF SparesLists, Create, Add, Statement

LEMMA DeleteSpares ==
  ASSUME NEW rows, NEW held, \A w \in rows : w.table \notin Lists
  PROVE  SparesLists(Delete(rows, held))
  BY DEF SparesLists, Delete, Statement

LEMMA RemoveSpares ==
  ASSUME NEW objects, \A o \in objects : o.kind = "table" => o.table \notin Lists
  PROVE  SparesLists(Remove(objects))
  BY DEF SparesLists, Remove, Statement, Tables

LEMMA DropSpares ==
  ASSUME NEW t, NEW indexes, t \notin Lists
  PROVE  SparesLists(Drop(t, indexes))
<1>1. Relation(t).table = t /\ \A i : Index(t, i).table = t
  BY DEF Relation, Index, Object
<1>2. QED  BY <1>1, RemoveSpares DEF Drop

LEMMA PartSpares ==
  /\ \A t, c : SparesLists(Remove({Column(t, c)}))
  /\ \A t, c, v : SparesLists(Remove({Check(t, c, v)}))
  /\ \A t, r : SparesLists(Remove({ForeignKey(t, r)}))
<1>1. /\ \A t, c : Column(t, c).kind # "table"
      /\ \A t, c, v : Check(t, c, v).kind # "table"
      /\ \A t, r : ForeignKey(t, r).kind # "table"
  BY DEF Column, Check, ForeignKey, Object
<1>2. QED  BY <1>1, RemoveSpares

LEMMA RowSpares ==
  ASSUME NEW t, NEW c, NEW v, NEW held, t \notin Lists
  PROVE  SparesLists(Delete({Row(t, c, v)}, held))
  BY DeleteSpares DEF Row

LEMMA NoneOfTheLists ==
  /\ "promo_code_redemptions" \notin Lists /\ "user_promo_codes" \notin Lists /\ "refunds" \notin Lists
  /\ "payments" \notin Lists /\ "payment_cards" \notin Lists /\ "promo_codes" \notin Lists
  /\ "banners" \notin Lists /\ "sms_messages" \notin Lists /\ "verification_codes" \notin Lists
  /\ "subscription_plans" \notin Lists /\ "subscription_plan_translations" \notin Lists /\ "user_subscriptions" \notin Lists
  /\ "auth_identities" \notin Lists /\ "venue_types" \notin Lists /\ "venue_venue_types" \notin Lists
  /\ "users" \notin Lists /\ "booking_price_lines" \notin Lists
  BY DEF Lists

\* Between the seed of the lists and the head, the way up spares them all.
LEMMA UpgradesSpare ==
  ASSUME NEW r \in 19..30
  PROVE  SparesAll(Upgrades[r + 1])
<1> USE AddSpares, CreateSpares, DropSpares, PartSpares, RowSpares, NoneOfTheLists
<1>1. SparesAll(SmsMessagesUp) /\ SparesAll(RolePermissionsUp) /\ SparesAll(DropIdentitiesUp)
  BY DEF SparesAll, SmsMessagesUp, RolePermissionsUp, DropIdentitiesUp
<1>2. SparesAll(DropSubscriptionsUp)
  <2>1. SparesLists(Remove(PaymentChecks))
    BY RemoveSpares DEF PaymentChecks, Check, Object
  <2>2. QED  BY <2>1 DEF SparesAll, DropSubscriptionsUp, AppliesTo
<1>3. SparesAll(CollapseUp)
  <2>1. \A m \in Moves : m[2] \notin Lists
    BY DEF Moves, Lists
  <2>2. SparesLists(Remove({Relation(m[2]) : m \in Moves}))
    <3>1. \A t : Relation(t).table = t
      BY DEF Relation, Object
    <3>2. \A o \in {Relation(m[2]) : m \in Moves} : o.table \notin Lists
      BY <2>1, <3>1
    <3>3. QED  BY <3>2, RemoveSpares
  <2>3. QED  BY <2>2 DEF SparesAll, CollapseUp
<1>4. SparesAll(DropSmsUp)
  <2>1. SparesLists(Remove(VerifiedColumns)) /\ SparesLists(Remove(SmsColumns))
    BY RemoveSpares DEF VerifiedColumns, SmsColumns, Column, Object
  <2>2. QED  BY <2>1 DEF SparesAll, DropSmsUp, AnyProvider
<1>5. SparesAll(DropPaymentsUp)
  BY DEF SparesAll, DropPaymentsUp, AnyPriceLine
<1>6. SparesAll(VenueTypeEnumUp)
  <2>1. \A t, c, u, k : SparesLists(Remove({Column(t, c), ForeignKey(u, k)}))
    BY RemoveSpares DEF Column, ForeignKey, Object
  <2>2. QED  BY <2>1 DEF SparesAll, VenueTypeEnumUp
<1>7. SparesAll(UniqueRegionCodeUp) /\ SparesAll(RegionsUp) /\ SparesAll(AmenityNamesUp)
  BY DEF SparesAll, UniqueRegionCodeUp, RegionsUp, AmenityNamesUp
<1>8. SparesAll(TelegramUp)
  BY DEF SparesAll, TelegramUp, PhoneOrEmail
<1>9. r \in {19, 20, 21, 22, 23, 24, 25, 26, 27, 28, 29, 30}
  OBVIOUS
<1>10. /\ Upgrades[20] = SmsMessagesUp
       /\ Upgrades[21] = DropSubscriptionsUp
       /\ Upgrades[22] = CollapseUp
       /\ Upgrades[23] = RolePermissionsUp
       /\ Upgrades[24] = DropSmsUp
       /\ Upgrades[25] = DropPaymentsUp
       /\ Upgrades[26] = DropIdentitiesUp
       /\ Upgrades[27] = VenueTypeEnumUp
       /\ Upgrades[28] = UniqueRegionCodeUp
       /\ Upgrades[29] = RegionsUp
       /\ Upgrades[30] = AmenityNamesUp
       /\ Upgrades[31] = TelegramUp
  BY DEF Upgrades
<1>11. QED  BY ONLY <1>1, <1>2, <1>3, <1>4, <1>5, <1>6, <1>7, <1>8, <1>9, <1>10

\* The way down spares them but for the lists that the revision brought.
LEMMA DowngradesSpare ==
  ASSUME NEW r \in 20..31, r \notin {23, 29}
  PROVE  SparesAll(Downgrades[r])
<1> USE AddSpares, CreateSpares, DropSpares, PartSpares, RowSpares, NoneOfTheLists
<1>1. SparesAll(SmsMessagesDown) /\ SparesAll(DropIdentitiesDown) /\ SparesAll(AmenityNamesDown)
  BY DEF SparesAll, SmsMessagesDown, DropIdentitiesDown, AmenityNamesDown
<1>2. SparesAll(DropSubscriptionsDownTables \o DropSubscriptionsDownLinks)
  <2>1. SparesLists(Remove(BookingPaymentChecks))
    BY RemoveSpares DEF BookingPaymentChecks, Check, Object
  <2>2. QED
    BY <2>1 DEF SparesAll, DropSubscriptionsDownTables, DropSubscriptionsDownLinks, AppliesToBookings
<1>3. SparesAll(CollapseDown)
  <2>1. SparesLists(Remove(SearchIndexes))
    BY RemoveSpares DEF SearchIndexes, Index, Object
  <2>2. SparesLists(Remove(MovedTexts))
    <3>1. \A o \in MovedTexts : o.kind = "column"
      BY DEF MovedTexts, Column, Object
    <3>2. QED  BY <3>1, RemoveSpares
  <2>3. QED  BY <2>1, <2>2 DEF SparesAll, CollapseDown
<1>4. SparesAll(DropSmsDown)
  BY DEF SparesAll, DropSmsDown, GoogleOnly
<1>5. SparesAll(DropPaymentsDownMoney \o DropPaymentsDownRefunds \o DropPaymentsDownBooking)
  BY DEF SparesAll, DropPaymentsDownMoney, DropPaymentsDownRefunds, DropPaymentsDownBooking,
         UndiscountedLine
<1>6. SparesAll(VenueTypeEnumDown)
  <2>1. SparesLists(Remove(VenueTypeColumns \cup VenueTypeChecks))
    BY RemoveSpares DEF VenueTypeColumns, VenueTypeChecks, Column, Check, Object
  <2>2. SparesLists(Remove({Index("venues", "venue_type")}))
    BY RemoveSpares DEF Index, Object
  <2>3. QED  BY <2>1, <2>2 DEF SparesAll, VenueTypeEnumDown
<1>7. SparesAll(UniqueRegionCodeDown)
  BY DEF SparesAll, UniqueRegionCodeDown
<1>8. SparesAll(TelegramDown)
  BY DEF SparesAll, TelegramDown, AnyIdentity, TelegramGuest
<1>9. r \in {20, 21, 22, 24, 25, 26, 27, 28, 30, 31}
  OBVIOUS
<1>10. /\ Downgrades[20] = SmsMessagesDown
       /\ Downgrades[21] = DropSubscriptionsDownTables \o DropSubscriptionsDownLinks
       /\ Downgrades[22] = CollapseDown
       /\ Downgrades[24] = DropSmsDown
       /\ Downgrades[25] = DropPaymentsDownMoney \o DropPaymentsDownRefunds \o DropPaymentsDownBooking
       /\ Downgrades[26] = DropIdentitiesDown
       /\ Downgrades[27] = VenueTypeEnumDown
       /\ Downgrades[28] = UniqueRegionCodeDown
       /\ Downgrades[30] = AmenityNamesDown
       /\ Downgrades[31] = TelegramDown
  BY DEF Downgrades
<1>11. QED  BY ONLY <1>1, <1>2, <1>3, <1>4, <1>5, <1>6, <1>7, <1>8, <1>9, <1>10

\* A statement that leaves the row w, if it is there.
Spares(st, w) ==
    /\ st.do = "remove" => w.table \notin Tables(st.what)
    /\ st.do = "delete" => w \notin st.what

LEMMA ListsAreSpared ==
  ASSUME NEW program, SparesAll(program), NEW w, w.table \in Lists
  PROVE  \A i \in 1..Len(program) : Spares(program[i], w)
  BY DEF SparesAll, SparesLists, Spares

LEMMA AttemptSpares ==
  ASSUME NEW st, NEW s, IsState(s), NEW w \in s.rows, Spares(st, w), Attempt(st, s).ok
  PROVE  s.ok /\ w \in Attempt(st, s).rows
<1>1. s.ok /\ Attempt(st, s) = Execute(st, s)
  BY DEF Attempt, Refused
<1>2. PICK a, b, c : s = [schema |-> a, rows |-> b, ok |-> c]
  BY DEF IsState
<1>3. CASE st.do = "remove"
  <2>1. Execute(st, s) = Without(st.what, s)
    BY <1>3 DEF Execute
  <2>2. Without(st.what, s).rows = {v \in s.rows : v.table \notin Tables(st.what)}
    BY <1>2 DEF Without
  <2>3. QED  BY <1>1, <1>3, <2>1, <2>2 DEF Spares
<1>4. CASE st.do = "delete"
  <2>1. Execute(st, s).rows = s.rows \ st.what
    BY <1>2, <1>4 DEF Execute
  <2>2. QED  BY <1>1, <1>4, <2>1 DEF Spares
<1>5. CASE st.do \notin {"remove", "delete"}
  <2>1. Execute(st, s).rows = s.rows \/ Execute(st, s).rows = s.rows \cup st.what
    BY <1>2, <1>5 DEF Execute
  <2>2. QED  BY <1>1, <2>1
<1>6. QED  BY <1>3, <1>4, <1>5

\* A row stays through a program that spares it and ends well.
LEMMA RunSpares ==
  ASSUME NEW program, Len(program) \in Nat, NEW state, IsState(state), NEW w \in state.rows,
         \A i \in 1..Len(program) : Spares(program[i], w), Run(program, state).ok
  PROVE  w \in Run(program, state).rows
<1> DEFINE n == Len(program)
<1>1. PICK f : States(f, n, program, state) /\ Run(program, state) = f[n]
  BY RunUnfolds
<1> DEFINE S == {k \in Nat : k <= n => IsState(f[k]) /\ (f[k].ok => w \in f[k].rows)}
<1>2. 0 \in S
  BY <1>1 DEF States
<1>3. ASSUME NEW k \in Nat, k \in S  PROVE k + 1 \in S
  <2>1. SUFFICES ASSUME k + 1 <= n
                 PROVE  IsState(f[k + 1]) /\ (f[k + 1].ok => w \in f[k + 1].rows)
    OBVIOUS
  <2>2. IsState(f[k]) /\ (f[k].ok => w \in f[k].rows)
    BY <1>3, <2>1
  <2>3. k + 1 \in 1..n /\ k + 1 \in 0..n /\ k + 1 # 0 /\ (k + 1) - 1 = k
    BY <2>1
  <2>4. f[k + 1] = Attempt(program[k + 1], f[k])
    BY <1>1, <2>3 DEF States
  <2>5. Spares(program[k + 1], w)
    BY <2>3
  <2>6. f[k + 1].ok => f[k].ok
    BY <2>4 DEF Attempt, Refused
  <2>7. QED  BY <2>2, <2>4, <2>5, <2>6, AttemptIsState, AttemptSpares
<1>4. n \in S
  <2> HIDE DEF S
  <2> QED  BY <1>2, <1>3, Induct
<1>5. QED  BY <1>1, <1>4

\* A program of one statement that inserts.
LEMMA RunInserts ==
  ASSUME NEW rows, NEW state, IsState(state), Run(<<Insert(rows)>>, state).ok
  PROVE  state.rows \cup rows \subseteq Run(<<Insert(rows)>>, state).rows
<1> DEFINE program == <<Insert(rows)>>
<1>1. Len(program) = 1 /\ Len(program) \in Nat /\ program[1] = Insert(rows)
  OBVIOUS
<1> HIDE DEF program
<1>2. PICK f : States(f, 1, program, state) /\ Run(program, state) = f[1]
  BY <1>1, RunUnfolds
<1>3. f[1] = Attempt(program[1], state)
  BY <1>2 DEF States
<1>4. Run(program, state) = Attempt(Insert(rows), state)
  BY <1>1, <1>2, <1>3
<1>5. Attempt(Insert(rows), state).ok
  BY <1>4 DEF program
<1>6. Attempt(Insert(rows), state) = Execute(Insert(rows), state)
  BY <1>5 DEF Attempt, Refused
<1>7. PICK a, b, c : state = [schema |-> a, rows |-> b, ok |-> c]
  BY DEF IsState
<1>8. Execute(Insert(rows), state).rows = state.rows \cup rows
  BY <1>7 DEF Execute, Insert, Statement
<1>9. QED  BY <1>4, <1>6, <1>8 DEF program

LEMMA RowIs == \A t, c, v : Row(t, c, v).table = t /\ Row(t, c, v).column = c /\ Row(t, c, v).value = v
  BY DEF Row

LEMMA SeedIs == \A t : Seed(t).table = t /\ Seed(t).column = "slug" /\ Seed(t).value = "seeded"
  BY DEF Seed, Row

\* The references that hold up a way back are in columns of keys.
LEMMA ReferencesAre ==
  ASSUME NEW w \in OfTelegramGuests \cup OfDistricts \cup OfReferenceLists
  PROVE  /\ w.table \notin {"payments", "promo_codes", "auth_identities", "booking_price_lines",
                            "regions"}
         /\ w.column \in {"user_id", "owner_id", "sender_user_id", "author_user_id", "district_id",
                          "language_id", "primary_venue_type_id", "service_catalog_id",
                          "staff_role_id"}
         /\ w.table = "users" => w.column \in {"district_id", "language_id"}
<1>1. CASE w \in OfTelegramGuests
  BY <1>1, RowIs DEF OfTelegramGuests, BookedByTelegram
<1>2. CASE w \in OfDistricts
  BY <1>2, RowIs DEF OfDistricts
<1>3. CASE w \in {Row(m[1], "language_id", "seeded") : m \in Moves}
  <2>1. \A m \in Moves : m[1] \notin {"payments", "promo_codes", "auth_identities",
                                       "booking_price_lines", "regions", "users"}
    BY DEF Moves
  <2>2. QED  BY <1>3, <2>1, RowIs
<1>4. CASE w \in OfReferenceLists \ {Row(m[1], "language_id", "seeded") : m \in Moves}
  BY <1>4, RowIs DEF OfReferenceLists
<1>5. QED  BY <1>1, <1>2, <1>3, <1>4

FirstLists == {Seed(t) : t \in ReferenceLists \ {"venue_types"}}
Grants == {Seed("staff_role_permissions")}

\* The rows that the revisions up to r bring to a database that was at since,
\* and that none of them and no application takes away; an application that
\* knows the regions may do away with them.
Brought(r, since) ==
    (IF r >= 19 THEN FirstLists ELSE {}) \cup (IF r >= 23 THEN Grants ELSE {})
    \cup (IF r >= 29 /\ since < 29 THEN RegionRows ELSE {})

LEMMA BroughtIsOfLists == \A r, since : \A w \in Brought(r, since) : w.table \in Lists
<1>1. \A w \in FirstLists : w.table \in Lists
  BY DEF FirstLists, ReferenceLists, Seed, Row, Lists
<1>2. \A w \in Grants \cup RegionRows : w.table \in Lists
  BY DEF Grants, RegionRows, Seed, Row, Lists
<1>3. QED  BY <1>1, <1>2 DEF Brought

LEMMA UpBrings ==
  ASSUME NEW r \in 0..30, NEW since \in Nat, NEW state, IsState(state),
         Brought(r, since) \subseteq state.rows,
         Run(Upgrades[r + 1], state).ok
  PROVE  Brought(r + 1, since) \subseteq Run(Upgrades[r + 1], state).rows
<1> DEFINE after == Run(Upgrades[r + 1], state)
<1>1. CASE r < 18
  BY <1>1 DEF Brought
<1>2. CASE r = 18
  <2>1. Upgrades[r + 1] = <<Insert({Seed(t) : t \in ReferenceLists})>>
    BY <1>2 DEF Upgrades, ReferenceDataUp
  <2>2. {Seed(t) : t \in ReferenceLists} \subseteq after.rows
    BY <2>1, RunInserts
  <2>3. Brought(r + 1, since) = FirstLists /\ FirstLists \subseteq {Seed(t) : t \in ReferenceLists}
    BY <1>2 DEF Brought, FirstLists
  <2>4. QED  BY <2>2, <2>3
<1>3. CASE r \in 19..30
  <2>1. Len(Upgrades[r + 1]) \in Nat
    <3>1. r + 1 \in 1..Newest
      BY NewestIsLast
    <3>2. QED  BY <3>1, ProgramsEnd
  <2>2. Brought(r, since) \subseteq after.rows
    <3>1. SparesAll(Upgrades[r + 1])
      BY <1>3, UpgradesSpare
    <3>2. QED  BY <2>1, <3>1, ListsAreSpared, RunSpares, BroughtIsOfLists
  <2>3. CASE r = 22
    <3>1. Upgrades[r + 1] = <<Insert(Grants)>>
      BY <2>3 DEF Upgrades, RolePermissionsUp, Grants
    <3>2. Grants \subseteq after.rows
      BY <3>1, RunInserts
    <3>3. QED  BY <2>2, <2>3, <3>2 DEF Brought
  <2>4. CASE r = 28
    <3>1. Upgrades[r + 1] = <<Insert(RegionRows)>>
      BY <2>4 DEF Upgrades, RegionsUp
    <3>2. RegionRows \subseteq after.rows
      BY <3>1, RunInserts
    <3>3. QED  BY <2>2, <2>4, <3>2 DEF Brought
  <2>5. CASE r \notin {22, 28}
    <3>1. Brought(r + 1, since) = Brought(r, since)
      BY <1>3, <2>5 DEF Brought
    <3>2. QED  BY <2>2, <3>1
  <2>6. QED  BY <2>3, <2>4, <2>5
<1>4. QED  BY <1>1, <1>2, <1>3

LEMMA DownLeaves ==
  ASSUME NEW r \in 1..31, NEW since \in Nat, NEW state, IsState(state),
         Brought(r, since) \subseteq state.rows,
         Run(Downgrades[r], state).ok
  PROVE  Brought(r - 1, since) \subseteq Run(Downgrades[r], state).rows
<1> DEFINE after == Run(Downgrades[r], state)
<1>1. Len(Downgrades[r]) \in Nat
  BY ProgramsEnd, NewestIsLast
<1>2. CASE r <= 19
  BY <1>2 DEF Brought
<1>3. CASE r > 19
  <2>1. Brought(r - 1, since) \subseteq state.rows
    BY DEF Brought
  <2>2. ASSUME NEW w \in Brought(r - 1, since)
        PROVE  \A i \in 1..Len(Downgrades[r]) : Spares(Downgrades[r][i], w)
    <3>1. w.table \in Lists
      BY BroughtIsOfLists
    <3>2. CASE r = 23
      <4>1. Downgrades[r] = <<Delete(Grants, {})>>
        BY <3>2 DEF Downgrades, RolePermissionsDown, Grants
      <4>2. w \in FirstLists
        BY <3>2 DEF Brought
      <4>3. w \notin Grants
        BY <4>2 DEF FirstLists, Grants, ReferenceLists, Seed, Row
      <4>4. QED  BY <4>1, <4>3 DEF Spares, Delete, Statement
    <3>3. CASE r = 29
      <4>1. Downgrades[r] = RegionsDown
        BY <3>3 DEF Downgrades
      <4>2. w \in FirstLists \cup Grants
        BY <3>3 DEF Brought
      <4>3. w # Seed("districts") /\ w # Row("regions", "code", "seeded")
        BY <4>2 DEF FirstLists, Grants, ReferenceLists, Seed, Row
      <4>4. \A held : \A v \in {Seed("districts"), Row("regions", "code", "seeded")} :
                w # v => Spares(Delete({v}, held), w)
        BY DEF Spares, Delete, Statement
      <4>5. /\ Len(RegionsDown) = 2
            /\ \E held : RegionsDown[1] = Delete({Seed("districts")}, held)
            /\ \E held : RegionsDown[2] = Delete({Row("regions", "code", "seeded")}, held)
        BY DEF RegionsDown
      <4>6. Spares(RegionsDown[1], w) /\ Spares(RegionsDown[2], w)
        BY <4>3, <4>4, <4>5
      <4>7. \A i \in 1..2 : i = 1 \/ i = 2
        OBVIOUS
      <4>8. QED  BY <4>1, <4>5, <4>6, <4>7
    <3>4. CASE r \notin {23, 29}
      <4>1. SparesAll(Downgrades[r])
        BY <1>3, <3>4, DowngradesSpare
      <4>2. QED  BY <3>1, <4>1, ListsAreSpared
    <3>5. QED  BY <3>2, <3>3, <3>4
  <2>3. QED  BY <1>1, <2>1, <2>2, RunSpares
<1>4. QED  BY <1>2, <1>3

SeededInv ==
    /\ MigrationsInv
    /\ Brought(db.rev, db.rev) \subseteq db.state.rows
    /\ transaction # NoTransaction /\ transaction.work.ok =>
           Brought(transaction.at, db.rev) \subseteq transaction.work.rows

LEMMA SeededInitially == Init => SeededInv
<1>1. Init => Brought(db.rev, db.rev) = {}
  BY DEF Init, Brought
<1>2. QED  BY <1>1, MigrationsInitially DEF Init, SeededInv

LEMMA SeededRevising ==
  ASSUME SeededInv, Revise
  PROVE  SeededInv'
<1>1. MigrationsInv' /\ MigrationsInv
  BY RevisingKeeps DEF SeededInv
<1>2. transaction # NoTransaction /\ transaction.at # transaction.to /\ transaction.work.ok /\ db' = db
  BY DEF Revise
<1>3. PICK since \in Nat : since = db.rev
  BY <1>1, NewestIsLast DEF MigrationsInv
<1>4. PICK by, at, to, work :
        /\ transaction = [by |-> by, at |-> at, to |-> to, work |-> work]
        /\ at \in 0..31 /\ to \in 0..31 /\ IsState(work) /\ work.ok
        /\ Brought(at, since) \subseteq work.rows
  BY <1>3, <1>2, NewestIsLast DEF SeededInv, MigrationsInv, TransactionFits, InTransaction
<1>5. ASSUME NEW next, NEW result, result.ok => Brought(next, since) \subseteq result.rows,
             transaction' = [transaction EXCEPT !.at = next, !.work = result]
      PROVE  SeededInv'
  <2>1. transaction' = [by |-> by, at |-> next, to |-> to, work |-> result]
    BY <1>4, <1>5
  <2>2. QED  BY <1>3, <1>1, <1>2, <1>5, <2>1 DEF SeededInv
<1>6. CASE at < to
  <2>1. at \in 0..30
    BY <1>4, <1>6
  <2>2. transaction' = [transaction EXCEPT !.at = at + 1, !.work = Run(Upgrades[at + 1], work)]
    BY <1>4, <1>6 DEF Revise
  <2>3. QED  BY <1>4, <1>5, <2>1, <2>2, UpBrings
<1>7. CASE ~(at < to)
  <2>1. at \in 1..31
    BY <1>2, <1>4, <1>7
  <2>2. transaction' = [transaction EXCEPT !.at = at - 1, !.work = Run(Downgrades[at], work)]
    BY <1>4, <1>7 DEF Revise
  <2>3. QED  BY <1>4, <1>5, <2>1, <2>2, DownLeaves
<1>8. QED  BY <1>6, <1>7

LEMMA NotErased ==
  ASSUME NEW w \in Erased, NEW r \in Nat
  PROVE  w \notin Brought(r, r)
<1>1. w \in RowsThatMatter \cup RegionRows
  BY MigrationsAssumption DEF Erased
<1>2. ASSUME w \in RowsThatMatter  PROVE w.column # "slug"
  BY <1>2, ReferencesAre, RowIs DEF RowsThatMatter, TelegramGuest
<1>3. ASSUME w \in RegionRows  PROVE w.table \in {"regions", "districts"}
  BY <1>3, RowIs, SeedIs DEF RegionRows
<1>4. ASSUME NEW v \in Brought(r, r)
      PROVE  v.column = "slug" /\ v.table \notin {"regions", "districts"}
  <2>1. v \in FirstLists \cup Grants
    BY DEF Brought
  <2>2. QED  BY <2>1, SeedIs DEF FirstLists, Grants, ReferenceLists
<1>5. QED  BY <1>1, <1>2, <1>3, <1>4

LEMMA SeededNext == SeededInv /\ [Next]_vars => SeededInv'
<1> SUFFICES ASSUME SeededInv, [Next]_vars PROVE SeededInv'
  OBVIOUS
<1>1. MigrationsInv /\ MigrationsInv'
  BY MigrationsNextKeeps DEF SeededInv
<1>2. CASE db' = db /\ transaction' = transaction
  BY <1>1, <1>2 DEF SeededInv
<1>3. CASE db' = db /\ transaction' = NoTransaction
  BY <1>1, <1>3 DEF SeededInv
<1>4. ASSUME NEW by, NEW from, NEW to, Begin(by, from, to), db' = db
      PROVE  SeededInv'
  <2>1. transaction' = [by |-> by, at |-> db.rev, to |-> to, work |-> db.state]
    BY <1>4 DEF Begin
  <2>2. transaction'.at = db.rev /\ transaction'.work = db.state
    BY <2>1
  <2>3. Brought(db.rev, db.rev)' = Brought(db.rev, db.rev)
    BY <1>4
  <2>4. QED  BY <1>1, <1>4, <2>2, <2>3 DEF SeededInv
<1>5. CASE Commit
  <2>1. /\ transaction # NoTransaction /\ transaction.at = transaction.to /\ transaction.work.ok
        /\ db' = [rev |-> transaction.to, state |-> transaction.work]
        /\ transaction' = NoTransaction
    BY <1>5 DEF Commit
  <2>2. db'.rev = transaction.at /\ db'.state = transaction.work
    BY <2>1
  <2>3. PICK at : at = transaction.at
    OBVIOUS
  <2>4. at \in Nat
    BY <1>1, <2>1, <2>3, NewestIsLast DEF MigrationsInv, TransactionFits, InTransaction
  <2>5. Brought(at, at) \subseteq Brought(at, db.rev)
    BY <2>4 DEF Brought
  <2>6. QED  BY <1>1, <2>1, <2>2, <2>3, <2>5 DEF SeededInv
<1>6. ASSUME NEW c \in Container, NEW w, WriteRow(c, w)  PROVE SeededInv'
  <2>1. PICK rev, schema, rows : db = [rev |-> rev, state |-> [schema |-> schema, rows |-> rows, ok |-> TRUE]]
    BY <1>1 DEF MigrationsInv, IsState
  <2>2. db' = [rev |-> rev, state |-> [schema |-> schema, rows |-> rows \cup {w}, ok |-> TRUE]]
    BY <1>6, <2>1 DEF WriteRow
  <2>3. db'.rev = db.rev /\ db.state.rows \subseteq db'.state.rows
    BY <2>1, <2>2
  <2>4. transaction' = NoTransaction
    BY <1>6 DEF WriteRow
  <2>5. QED  BY <1>1, <2>3, <2>4 DEF SeededInv
<1>7. ASSUME NEW c \in Container, NEW w \in Erased, EraseRow(c, w)  PROVE SeededInv'
  <2>1. w \notin Brought(db.rev, db.rev)
    BY <1>1, NotErased, NewestIsLast DEF MigrationsInv
  <2>2. QED  BY <1>1, <1>7, <2>1, ErasingIs DEF SeededInv
<1>8. CASE Next
  <2>1. ASSUME NEW c \in Container, NEW image, \/ Deploy(c, image) \/ ReadVersion(c)
                                               \/ LoseRace(c) \/ Crash(c) \/ Rollback
        PROVE  db' = db /\ (transaction' = transaction \/ transaction' = NoTransaction)
    BY <2>1 DEF Deploy, ReadVersion, LoseRace, Crash, Rollback
  <2>2. ASSUME NEW c \in Container, BeginUpgrade(c)  PROVE SeededInv'
    BY <1>4, <2>2 DEF BeginUpgrade
  <2>3. ASSUME NEW to \in Targets, BeginDowngrade(to)  PROVE SeededInv'
    BY <1>4, <2>3 DEF BeginDowngrade
  <2>4. Rollback => db' = db /\ transaction' = NoTransaction
    BY DEF Rollback
  <2>5. QED
    BY <1>2, <1>3, <1>5, <1>6, <1>8, <1>7, <2>1, <2>2, <2>3, <2>4, SeededRevising DEF Next
<1>9. QED  BY <1>2, <1>8 DEF vars

\* A database at the head holds the lists and the grants, by which way ever it
\* came there and whatever the applications wrote and erased: what a revision
\* seeds, no later one takes, and a way down takes back all that it passes.  One
\* that comes to the head from before the regions holds the regions as well.
THEOREM HeadHoldsTheLists == Spec => HeadIsSeeded
<1>1. SeededInv => (db.rev = Newest => KeptLists \subseteq db.state.rows)
  <2>1. FirstLists \cup Grants \subseteq Brought(31, 31)
    BY DEF Brought
  <2>2. KeptLists = FirstLists \cup Grants
    BY DEF KeptLists, FirstLists, Grants
  <2>3. QED  BY <2>1, <2>2, NewestIsLast DEF SeededInv
<1>2. SeededInv /\ [Next]_vars =>
        [db.rev < 29 /\ db'.rev = Newest => RegionRows \subseteq db'.state.rows]_vars
  <2> SUFFICES ASSUME SeededInv, Next, db.rev < 29, db'.rev = 31
               PROVE  RegionRows \subseteq db'.state.rows
    BY NewestIsLast
  <2>1. db.rev # db'.rev /\ MigrationsInv
    BY DEF SeededInv
  <2>2. ASSUME NEW c \in Container, NEW w, WriteRow(c, w)  PROVE FALSE
    <3>1. PICK rev, state : db = [rev |-> rev, state |-> state]
      BY <2>1 DEF MigrationsInv
    <3>2. db' = [db EXCEPT !.state.rows = @ \cup {w}]
      BY <2>2 DEF WriteRow
    <3>3. QED  BY <2>1, <3>1, <3>2
  <2>3. ASSUME NEW c \in Container, NEW w, EraseRow(c, w)  PROVE FALSE
    BY <2>1, <2>3, ErasingIs
  <2>4. Commit
    <3>1. ASSUME NEW c \in Container, NEW image, \/ Deploy(c, image) \/ ReadVersion(c)
                    \/ LoseRace(c) \/ Crash(c) \/ BeginUpgrade(c)
          PROVE  FALSE
      BY <2>1, <3>1 DEF Deploy, ReadVersion, LoseRace, Crash, BeginUpgrade
    <3>2. ASSUME NEW to \in Targets, BeginDowngrade(to)  PROVE FALSE
      BY <2>1, <3>2 DEF BeginDowngrade
    <3>3. ~Revise /\ ~Rollback
      BY <2>1 DEF Revise, Rollback
    <3>4. QED  BY <2>2, <2>3, <3>1, <3>2, <3>3 DEF Next
  <2>5. /\ transaction # NoTransaction /\ transaction.at = transaction.to /\ transaction.work.ok
        /\ db' = [rev |-> transaction.to, state |-> transaction.work]
    BY <2>4 DEF Commit
  <2>6. transaction.at = 31 /\ db'.state.rows = transaction.work.rows
    BY <2>5
  <2>7. RegionRows \subseteq Brought(31, db.rev)
    BY DEF Brought
  <2>8. QED  BY <2>5, <2>6, <2>7 DEF SeededInv
<1>3. QED  BY <1>1, <1>2, SeededInitially, SeededNext, PTL DEF Spec, HeadIsSeeded
-----------------------------------------------------------------------------
(* The schema: what a program does to it in all.                              *)

\* An object goes with its table, or because it is named.
Hits(what, o) == o.table \in Tables(what) \/ \E p \in what : SameName(o, p)

\* What the first k statements of one kind name.
UpTo(program, k, kind) == UNION {program[i].what : i \in {j \in 1..k : program[j].do = kind}}

\* No statement of a program removes what an earlier one of it has added.
KeepsItsOwn(program) ==
    \A i, j \in 1..Len(program) :
        i < j /\ program[i].do = "add" /\ program[j].do = "remove" =>
            \A o \in program[i].what : ~Hits(program[j].what, o)

LEMMA HitsAny ==
  \A A, B, o : Hits(A \cup B, o) <=> Hits(A, o) \/ Hits(B, o)
  BY DEF Hits, Tables

LEMMA UpToNext ==
  ASSUME NEW program, NEW k \in Nat, NEW kind
  PROVE  UpTo(program, k + 1, kind) =
           UpTo(program, k, kind) \cup (IF program[k + 1].do = kind THEN program[k + 1].what ELSE {})
<1>1. \A i : i \in 1..(k + 1) <=> i \in 1..k \/ i = k + 1
  OBVIOUS
<1>2. QED  BY <1>1 DEF UpTo

LEMMA AttemptMoves ==
  ASSUME NEW st, NEW s, IsState(s), Attempt(st, s).ok
  PROVE  /\ s.ok
         /\ st.do = "add" => Attempt(st, s).schema = s.schema \cup st.what
         /\ st.do = "remove" => Attempt(st, s).schema = {o \in s.schema : ~Hits(st.what, o)}
         /\ st.do \notin {"add", "remove"} => Attempt(st, s).schema = s.schema
<1>1. s.ok /\ Attempt(st, s) = Execute(st, s)
  BY DEF Attempt, Refused
<1>2. PICK a, b, c : s = [schema |-> a, rows |-> b, ok |-> c]
  BY DEF IsState
<1>3. CASE st.do = "remove"
  <2>1. Execute(st, s) = Without(st.what, s)
    BY <1>3 DEF Execute
  <2>2. Without(st.what, s).schema = {o \in s.schema : ~Hits(st.what, o)}
    BY <1>2 DEF Without, Hits, SameName
  <2>3. QED  BY <1>1, <1>3, <2>1, <2>2
<1>4. CASE st.do # "remove"
  BY <1>1, <1>2, <1>4 DEF Execute
<1>5. QED  BY <1>3, <1>4

MovedBy(program, k, schema) ==
    {o \in schema : ~Hits(UpTo(program, k, "remove"), o)} \cup UpTo(program, k, "add")

\* What may be there of rows after k statements.
RowsBy(program, k, rows) ==
    (rows \ UpTo(program, k, "delete")) \cup UpTo(program, k, "insert")

\* What is known after k statements.
Stage(program, k, state, s) ==
    /\ IsState(s)
    /\ s.ok => /\ s.schema = MovedBy(program, k, state.schema)
               /\ s.rows \subseteq RowsBy(program, k, state.rows)

LEMMA AttemptRows ==
  ASSUME NEW st, NEW s, IsState(s), Attempt(st, s).ok
  PROVE  /\ st.do = "insert" => Attempt(st, s).rows = s.rows \cup st.what
         /\ st.do = "delete" => Attempt(st, s).rows = s.rows \ st.what
         /\ st.do = "remove" => Attempt(st, s).rows = {w \in s.rows : w.table \notin Tables(st.what)}
         /\ st.do \notin {"insert", "delete", "remove"} => Attempt(st, s).rows = s.rows
<1>1. s.ok /\ Attempt(st, s) = Execute(st, s)
  BY DEF Attempt, Refused
<1>2. PICK a, b, c : s = [schema |-> a, rows |-> b, ok |-> c]
  BY DEF IsState
<1>3. CASE st.do = "remove"
  <2>1. Execute(st, s) = Without(st.what, s)
    BY <1>3 DEF Execute
  <2>2. Without(st.what, s).rows = {w \in s.rows : w.table \notin Tables(st.what)}
    BY <1>2 DEF Without
  <2>3. QED  BY <1>1, <1>3, <2>1, <2>2
<1>4. CASE st.do # "remove"
  BY <1>1, <1>2, <1>4 DEF Execute
<1>5. QED  BY <1>3, <1>4

LEMMA StageNext ==
  ASSUME NEW program, KeepsItsOwn(program), NEW k \in Nat, k + 1 \in 1..Len(program),
         NEW state, NEW s, Stage(program, k, state, s)
  PROVE  Stage(program, k + 1, state, Attempt(program[k + 1], s))
<1> DEFINE st == program[k + 1]
           next == Attempt(st, s)
           gone(m) == UpTo(program, m, "remove")
           more(m) == UpTo(program, m, "add")
<1>1. IsState(s) /\ IsState(next)
  BY AttemptIsState DEF Stage
<1>2. ASSUME next.ok  PROVE next.schema = MovedBy(program, k + 1, state.schema)
  <2>1. /\ s.ok
        /\ st.do = "add" => next.schema = s.schema \cup st.what
        /\ st.do = "remove" => next.schema = {o \in s.schema : ~Hits(st.what, o)}
        /\ st.do \notin {"add", "remove"} => next.schema = s.schema
    BY <1>1, <1>2, AttemptMoves
  <2>2. s.schema = {o \in state.schema : ~Hits(gone(k), o)} \cup more(k)
    BY <2>1 DEF Stage, MovedBy
  <2>3. /\ gone(k + 1) = gone(k) \cup (IF st.do = "remove" THEN st.what ELSE {})
        /\ more(k + 1) = more(k) \cup (IF st.do = "add" THEN st.what ELSE {})
    BY UpToNext
  <2>4. st.do = "remove" => \A o \in more(k) : ~Hits(st.what, o)
    <3>1. \A i \in 1..k : i \in 1..Len(program) /\ i < k + 1
      OBVIOUS
    <3>2. QED  BY <3>1 DEF KeepsItsOwn, UpTo
  <2>5. \A o : Hits(gone(k) \cup st.what, o) <=> Hits(gone(k), o) \/ Hits(st.what, o)
    BY HitsAny
  <2>6. SUFFICES next.schema = {o \in state.schema : ~Hits(gone(k + 1), o)} \cup more(k + 1)
    BY DEF MovedBy
  <2> HIDE DEF st, gone, more, next
  <2>7. CASE st.do = "add"
    BY <2>1, <2>2, <2>3, <2>7
  <2>8. CASE st.do = "remove"
    BY <2>1, <2>2, <2>3, <2>4, <2>5, <2>8
  <2>9. CASE st.do \notin {"add", "remove"}
    BY <2>1, <2>2, <2>3, <2>9
  <2>10. QED  BY <2>7, <2>8, <2>9
<1>3. ASSUME next.ok  PROVE next.rows \subseteq RowsBy(program, k + 1, state.rows)
  <2>1. /\ s.ok
        /\ st.do = "insert" => next.rows = s.rows \cup st.what
        /\ st.do = "delete" => next.rows = s.rows \ st.what
        /\ st.do \notin {"insert", "delete"} => next.rows \subseteq s.rows
    BY <1>1, <1>3, AttemptMoves, AttemptRows
  <2>2. s.rows \subseteq (state.rows \ UpTo(program, k, "delete")) \cup UpTo(program, k, "insert")
    BY <2>1 DEF Stage, RowsBy
  <2>3. /\ UpTo(program, k + 1, "delete")
             = UpTo(program, k, "delete") \cup (IF st.do = "delete" THEN st.what ELSE {})
        /\ UpTo(program, k + 1, "insert")
             = UpTo(program, k, "insert") \cup (IF st.do = "insert" THEN st.what ELSE {})
    BY UpToNext
  <2> HIDE DEF st, next
  <2>4. CASE st.do = "insert"
    BY <2>1, <2>2, <2>3, <2>4 DEF RowsBy
  <2>5. CASE st.do = "delete"
    BY <2>1, <2>2, <2>3, <2>5 DEF RowsBy
  <2>6. CASE st.do \notin {"insert", "delete"}
    BY <2>1, <2>2, <2>3, <2>6 DEF RowsBy
  <2>7. QED  BY <2>4, <2>5, <2>6
<1>4. QED  BY <1>1, <1>2, <1>3 DEF Stage

LEMMA RunStages ==
  ASSUME NEW program, Len(program) \in Nat, KeepsItsOwn(program), NEW state, IsState(state)
  PROVE  \E f : /\ f[0] = state /\ Run(program, state) = f[Len(program)]
                /\ \A k \in 0..Len(program) : Stage(program, k, state, f[k])
                /\ \A k \in 1..Len(program) : f[k] = Attempt(program[k], f[k - 1])
<1> DEFINE n == Len(program)
<1>1. PICK f : States(f, n, program, state) /\ Run(program, state) = f[n]
  BY RunUnfolds
<1>2. f[0] = state /\ \A k \in 1..n : f[k] = Attempt(program[k], f[k - 1])
  BY <1>1 DEF States
<1> DEFINE S == {k \in Nat : k <= n => Stage(program, k, state, f[k])}
<1>3. 0 \in S
  <2>1. \A kind : UpTo(program, 0, kind) = {}
    BY DEF UpTo
  <2>2. \A o : ~Hits({}, o)
    BY DEF Hits, Tables
  <2>3. QED  BY <1>2, <2>1, <2>2 DEF Stage, MovedBy, RowsBy
<1>4. ASSUME NEW k \in Nat, k \in S  PROVE k + 1 \in S
  <2>1. SUFFICES ASSUME k + 1 <= n  PROVE Stage(program, k + 1, state, f[k + 1])
    OBVIOUS
  <2>2. k + 1 \in 1..n /\ (k + 1) - 1 = k /\ Stage(program, k, state, f[k])
    BY <1>4, <2>1
  <2>3. f[k + 1] = Attempt(program[k + 1], f[k])
    BY <1>2, <2>2
  <2>4. QED  BY <2>2, <2>3, StageNext
<1>5. S = Nat
  <2> HIDE DEF S
  <2>1. \A m \in Nat : m \in S
    BY <1>3, <1>4, Induct
  <2>2. S \subseteq Nat
    BY DEF S
  <2>3. QED  BY <2>1, <2>2
<1>6. \A k \in 0..n : Stage(program, k, state, f[k])
  BY <1>5
<1>7. QED  BY <1>1, <1>2, <1>6

\* A program is accepted if each statement is, of whatever the ones before it
\* may leave.
LEMMA RunAccepted ==
  ASSUME NEW program, Len(program) \in Nat, KeepsItsOwn(program), NEW state, IsState(state),
         state.ok,
         \A k \in 1..Len(program) : \A s :
             Stage(program, k - 1, state, s) /\ s.ok => CanExecute(program[k], s)
  PROVE  Run(program, state).ok
<1> DEFINE n == Len(program)
<1>1. PICK f : /\ f[0] = state /\ Run(program, state) = f[n]
               /\ \A k \in 0..n : Stage(program, k, state, f[k])
               /\ \A k \in 1..n : f[k] = Attempt(program[k], f[k - 1])
  BY RunStages
<1> DEFINE S == {k \in Nat : k <= n => f[k].ok}
<1>2. 0 \in S
  BY <1>1
<1>3. ASSUME NEW k \in Nat, k \in S  PROVE k + 1 \in S
  <2>1. SUFFICES ASSUME k + 1 <= n  PROVE f[k + 1].ok
    OBVIOUS
  <2>2. k + 1 \in 1..n /\ (k + 1) - 1 = k /\ k \in 0..n /\ f[k].ok
    BY <1>3, <2>1
  <2>3. CanExecute(program[k + 1], f[k])
    BY <1>1, <2>2
  <2>4. f[k + 1] = Execute(program[k + 1], f[k])
    BY <1>1, <2>2, <2>3 DEF Attempt
  <2>5. PICK a, b, c : f[k] = [schema |-> a, rows |-> b, ok |-> c]
    <3>1. Stage(program, k, state, f[k])
      BY <1>1, <2>2
    <3>2. QED  BY <3>1 DEF Stage, IsState
  <2>6. Execute(program[k + 1], f[k]).ok
    BY <2>2, <2>5 DEF Execute, Without
  <2>7. QED  BY <2>4, <2>6
<1>4. n \in S
  <2> HIDE DEF S
  <2>1. QED  BY <1>2, <1>3, Induct
<1>5. QED  BY <1>1, <1>4

\* The schema that a program leaves when none of its statements is refused.
LEMMA RunMoves ==
  ASSUME NEW program, Len(program) \in Nat, DOMAIN program = 1..Len(program),
         NEW state, IsState(state), Run(program, state).ok, KeepsItsOwn(program)
  PROVE  Run(program, state).schema =
           {o \in state.schema : ~Hits(Done(program, "remove"), o)} \cup Done(program, "add")
<1>1. PICK f : /\ Run(program, state) = f[Len(program)]
               /\ \A k \in 0..Len(program) : Stage(program, k, state, f[k])
  BY RunStages
<1>2. \A kind : UpTo(program, Len(program), kind) = Done(program, kind)
  BY DEF UpTo, Done
<1>3. Len(program) \in 0..Len(program)
  OBVIOUS
<1>4. QED  BY <1>1, <1>2, <1>3 DEF Stage, MovedBy

\* The schema that a revision should have, from the one before it.
Added(r) == Done(Upgrades[r], "add")

LEMMA IntendedObjects ==
  ASSUME NEW r \in 0..31
  PROVE  \A o : o \in Intended(r) <=>
           \E f \in 1..r : o \in Added(f) /\ \A b \in (f + 1)..r : ~Takes(b, o)
<1>1. \A f, b : f \in 1..31 /\ f <= r => (b \in (f + 1)..31 /\ b \in 1..r <=> b \in (f + 1)..r)
  OBVIOUS
<1>2. \A f \in 1..31 : f <= r <=> f \in 1..r
  OBVIOUS
<1>3. ASSUME NEW o, o \in Intended(r)
      PROVE  \E f \in 1..r : o \in Added(f) /\ \A b \in (f + 1)..r : ~Takes(b, o)
  <2>1. PICK l \in Lifetimes : l.object = o /\ l.from <= r /\ l.ends \cap 1..r = {}
    BY <1>3 DEF Intended
  <2>2. PICK f \in 1..31 :
          l \in {[object |-> p, from |-> f, ends |-> {b \in (f + 1)..31 : Takes(b, p)}] :
            p \in Added(f)}
    BY <2>1, NewestIsLast DEF Lifetimes, Added
  <2>3. PICK p \in Added(f) :
          l = [object |-> p, from |-> f, ends |-> {b \in (f + 1)..31 : Takes(b, p)}]
    BY <2>2
  <2>4. p = o /\ f <= r /\ {b \in (f + 1)..31 : Takes(b, p)} \cap 1..r = {}
    BY <2>1, <2>3
  <2>5. QED  BY <1>1, <1>2, <2>3, <2>4
<1>4. ASSUME NEW o, NEW f \in 1..r, o \in Added(f), \A b \in (f + 1)..r : ~Takes(b, o)
      PROVE  o \in Intended(r)
  <2> DEFINE l == [object |-> o, from |-> f, ends |-> {b \in (f + 1)..31 : Takes(b, o)}]
  <2>1. f \in 1..31 /\ f <= r
    OBVIOUS
  <2>2. l \in Lifetimes
    <3> DEFINE Of(r1) == {[object |-> q, from |-> r1, ends |-> {b \in (r1 + 1)..31 : Takes(b, q)}] :
                             q \in Added(r1)}
    <3>1. l \in Of(f)
      BY <1>4
    <3>2. Lifetimes = UNION {Of(r1) : r1 \in 1..31}
      BY NewestIsLast DEF Lifetimes, Added
    <3> HIDE DEF l, Of
    <3>3. QED  BY <2>1, <3>1, <3>2
  <2>3. l.ends \cap 1..r = {}
    BY <1>1, <1>4, <2>1
  <2>4. l.object = o /\ l.from = f
    OBVIOUS
  <2>5. QED  BY <2>1, <2>2, <2>3, <2>4 DEF Intended
<1>5. QED  BY <1>3, <1>4

LEMMA IntendedNext ==
  ASSUME NEW r \in 1..31
  PROVE  Intended(r) = {o \in Intended(r - 1) : ~Takes(r, o)} \cup Added(r)
<1>1. r \in 0..31 /\ r - 1 \in 0..31
  OBVIOUS
<1>2. \A o : o \in Intended(r) <=>
          \E f \in 1..r : o \in Added(f) /\ \A b \in (f + 1)..r : ~Takes(b, o)
  BY <1>1, IntendedObjects
<1>3. \A o : o \in Intended(r - 1) <=>
          \E f \in 1..(r - 1) : o \in Added(f) /\ \A b \in (f + 1)..(r - 1) : ~Takes(b, o)
  BY <1>1, IntendedObjects
<1>4. \A f : f \in 1..r <=> f \in 1..(r - 1) \/ f = r
  OBVIOUS
<1>5. \A f \in 1..(r - 1) : \A b : b \in (f + 1)..r <=> b \in (f + 1)..(r - 1) \/ b = r
  OBVIOUS
<1>6. \A b : b \notin (r + 1)..r
  OBVIOUS
<1>7. \A o : o \in Intended(r) <=> (o \in Intended(r - 1) /\ ~Takes(r, o)) \/ o \in Added(r)
  BY ONLY <1>2, <1>3, <1>4, <1>5, <1>6
<1>8. QED  BY <1>7
-----------------------------------------------------------------------------
(* Which revision brings which table, and the objects that any revision after  *)
(* the twentieth adds or takes: only these have a history.                     *)

Birth(t) ==
    IF t = "languages" THEN 2
    ELSE IF t \in {"regions", "districts", "user_recent_locations"} THEN 3
    ELSE IF t \in {"users", "auth_identities", "devices", "friendships", "verification_codes",
                   "refresh_tokens"} THEN 4
    ELSE IF t \in {"amenities", "venue_types", "amenity_translations", "venue_type_translations"} THEN 5
    ELSE IF t \in {"venue_groups", "venue_group_translations"} THEN 6
    ELSE IF t \in {"venues", "venue_amenities", "venue_guest_tiers", "venue_photos",
                   "venue_special_days", "venue_translations", "venue_venue_types",
                   "venue_working_hours", "venue_zones", "venue_tables",
                   "venue_zone_translations", "venue_table_qrs"} THEN 7
    ELSE IF t \in {"permissions", "staff_roles", "staff_role_permissions",
                   "staff_role_translations", "staff_invitations", "venue_staff"} THEN 8
    ELSE IF t \in {"menu_categories", "menu_category_translations", "menu_items",
                   "menu_item_branches", "menu_item_translations", "menu_item_variants",
                   "menu_item_variant_branches", "menu_item_variant_translations"} THEN 9
    ELSE IF t \in {"service_catalog", "service_catalog_translations", "venue_services",
                   "venue_service_items"} THEN 10
    ELSE IF t \in {"banners", "promo_codes", "banner_translations", "user_promo_codes",
                   "promo_code_redemptions"} THEN 11
    ELSE IF t \in {"subscription_plans", "subscription_plan_translations",
                   "user_subscriptions"} THEN 12
    ELSE IF t \in {"bookings", "venue_blocked_slots", "booking_items", "booking_price_lines",
                   "booking_services", "booking_status_history"} THEN 13
    ELSE IF t \in {"orders", "order_items", "order_payments", "order_status_history",
                   "receipts"} THEN 14
    ELSE IF t \in {"payment_cards", "payments", "refunds"} THEN 15
    ELSE IF t \in {"reviews", "review_photos", "review_replies"} THEN 16
    ELSE IF t \in {"notifications", "search_history", "favorites", "conversations",
                   "messages"} THEN 17
    ELSE IF t = "venue_daily_stats" THEN 18
    ELSE IF t = "sms_messages" THEN 20
    ELSE 32

PlanTables == {"subscription_plans", "subscription_plan_translations", "user_subscriptions"}
TextTables == {
    "amenity_translations", "venue_type_translations", "menu_category_translations",
    "menu_item_translations", "menu_item_variant_translations", "banner_translations",
    "service_catalog_translations", "staff_role_translations", "venue_group_translations",
    "venue_translations", "venue_zone_translations"}
CodeTables == {"sms_messages", "verification_codes"}
MoneyTables == {"promo_code_redemptions", "user_promo_codes", "refunds", "payments",
                "payment_cards", "promo_codes", "banners"}
TypeTables == {"venue_types", "venue_venue_types"}

PassingTables ==
    PlanTables \cup TextTables \cup CodeTables \cup MoneyTables \cup TypeTables \cup {"auth_identities"}
PassingTargets == {"user_subscriptions", "promo_codes", "venue_types"}
PassingIndexes == {"name_trgm", "venue_type"}

Passing(o) ==
    \/ o.table \in PassingTables
    \/ o.kind \in {"column", "check"}
    \/ o.kind = "key" /\ o.name \in PassingTargets
    \/ o.kind = "index" /\ o.name \in PassingIndexes

Made(t, refs, indexes) ==
    {Relation(t)} \cup {ForeignKey(t, r) : r \in refs} \cup {Index(t, i) : i \in indexes}

Texts(t, owner) == Made(t, {"languages", owner}, {})

\* The passing objects that each revision adds.
Passes == <<
    {}, {}, {},
    VerifiedColumns \cup {PhoneOrEmail, AnyProvider}
        \cup Made("auth_identities", {"users"}, {"user_id"})
        \cup Made("verification_codes", {"users"}, {"destination_purpose_created_at"}),
    Made("venue_types", {}, {}) \cup Texts("amenity_translations", "amenities")
        \cup Texts("venue_type_translations", "venue_types"),
    {ForeignKey("venue_groups", "venue_types"), Column("venue_groups", "primary_venue_type_id")}
        \cup Texts("venue_group_translations", "venue_groups"),
    Made("venue_translations", {"languages", "venues"}, {"name_trgm"})
        \cup Made("venue_venue_types", {"venues", "venue_types"}, {})
        \cup Texts("venue_zone_translations", "venue_zones"),
    SmsColumns \cup Texts("staff_role_translations", "staff_roles"),
    Texts("menu_category_translations", "menu_categories")
        \cup Made("menu_item_translations", {"languages", "menu_items"}, {"name_trgm"})
        \cup Texts("menu_item_variant_translations", "menu_item_variants"),
    {ForeignKey("service_catalog", "venue_types"),
      Column("service_catalog", "applies_to_venue_type_id")}
        \cup Texts("service_catalog_translations", "service_catalog"),
    Made("banners", {}, {}) \cup Made("promo_codes", {}, {}) \cup {AppliesTo}
        \cup Texts("banner_translations", "banners")
        \cup Made("user_promo_codes", {"promo_codes", "users"}, {"user_id_status_expires_at"})
        \cup Made("promo_code_redemptions", {"promo_codes", "users"}, {})
        \cup {Column("promo_code_redemptions", "subscription_id")},
    Made("subscription_plans", {}, {})
        \cup Texts("subscription_plan_translations", "subscription_plans")
        \cup Made("user_subscriptions", {"subscription_plans", "users"}, {"user_id"}),
    {ForeignKey("bookings", "promo_codes"), Column("bookings", "promo_code_id"),
     Column("bookings", "discount_amount"), AnyPriceLine,
     ForeignKey("promo_code_redemptions", "bookings"),
     ForeignKey("promo_code_redemptions", "user_subscriptions")},
    {},
    Made("payment_cards", {"users"}, {"user_id"})
        \cup Made("payments", {"bookings", "payment_cards", "user_subscriptions", "users"}, {"user_id"})
        \cup {Column("payments", "subscription_id")} \cup PaymentChecks
        \cup Made("refunds", {"payments"}, {"payment_id"}),
    {}, {}, {}, {},
    Made("sms_messages", {"users"}, {"phone_created_at", "status_created_at"}),
    BookingPaymentChecks \cup {AppliesToBookings},
    MovedTexts \cup SearchIndexes,
    {},
    {GoogleOnly},
    {UndiscountedLine},
    {},
    VenueTypeColumns \cup VenueTypeChecks \cup {Index("venues", "venue_type")},
    {Check("regions", "code", RegionCodes)},
    {}, {}, {}>>

LEMMA RelationIs ==
  ASSUME NEW t
  PROVE  Relation(t).kind = "table" /\ Relation(t).table = t /\ Relation(t).name = ""
  BY DEF Relation, Object
LEMMA KeyIs ==
  ASSUME NEW t, NEW r
  PROVE  ForeignKey(t, r).kind = "key" /\ ForeignKey(t, r).table = t /\ ForeignKey(t, r).name = r
  BY DEF ForeignKey, Object
LEMMA IndexIs ==
  ASSUME NEW t, NEW i
  PROVE  Index(t, i).kind = "index" /\ Index(t, i).table = t /\ Index(t, i).name = i
  BY DEF Index, Object
LEMMA ColumnIs ==
  ASSUME NEW t, NEW c
  PROVE  Column(t, c).kind = "column" /\ Column(t, c).table = t /\ Column(t, c).name = c
  BY DEF Column, Object
LEMMA CheckIs ==
  ASSUME NEW t, NEW c, NEW v
  PROVE  Check(t, c, v).kind = "check" /\ Check(t, c, v).table = t /\ Check(t, c, v).name = c
  BY DEF Check, Object

LEMMA Statements ==
  /\ \A x : Add(x).do = "add" /\ Add(x).what = x
  /\ \A x : Remove(x).do = "remove" /\ Remove(x).what = x
  /\ \A x : Insert(x).do = "insert" /\ Forbid(x).do = "forbid"
  /\ \A x, y : Delete(x, y).do = "delete"
  /\ \A t, R, I : Create(t, R, I).do = "add" /\ Create(t, R, I).what = Made(t, R, I)
  /\ \A t, I : Drop(t, I).do = "remove" /\ Drop(t, I).what = Made(t, {}, I)
  BY DEF Add, Remove, Insert, Forbid, Delete, Statement, Create, Drop, Made

LEMMA MadeHas ==
  ASSUME NEW t, NEW R, NEW I, NEW o \in Made(t, R, I)
  PROVE  /\ o.table = t
         /\ o.kind \in {"table", "key", "index"}
         /\ o.kind = "table" => o = Relation(t)
         /\ o.kind = "key" => o.name \in R /\ o = ForeignKey(t, o.name)
         /\ o.kind = "index" => o.name \in I /\ o = Index(t, o.name)
<1>1. o = Relation(t) \/ (\E r \in R : o = ForeignKey(t, r)) \/ \E i \in I : o = Index(t, i)
  BY DEF Made
<1>2. CASE o = Relation(t)
  <2>1. o.kind = "table" /\ o.table = t
    BY <1>2, RelationIs
  <2>2. QED  BY <1>2, <2>1
<1>3. ASSUME NEW r \in R, o = ForeignKey(t, r)
      PROVE  o.table = t /\ o.kind = "key" /\ o.name \in R /\ o = ForeignKey(t, o.name)
  <2>1. o.kind = "key" /\ o.table = t /\ o.name = r
    BY <1>3, KeyIs
  <2>2. QED  BY <1>3, <2>1
<1>4. ASSUME NEW i \in I, o = Index(t, i)
      PROVE  o.table = t /\ o.kind = "index" /\ o.name \in I /\ o = Index(t, o.name)
  <2>1. o.kind = "index" /\ o.table = t /\ o.name = i
    BY <1>4, IndexIs
  <2>2. QED  BY <1>4, <2>1
<1>5. QED  BY <1>1, <1>2, <1>3, <1>4

\* The keys that a revision adds to a table of an earlier one.
LaterKeys(r) ==
    CASE r = 4 -> {ForeignKey("user_recent_locations", "users")}
      [] r = 13 -> {ForeignKey("promo_code_redemptions", "bookings"),
                    ForeignKey("promo_code_redemptions", "user_subscriptions")}
      [] OTHER -> {}

\* An object that the r-th revision adds belongs to a table of that revision,
\* points to a table that is there by then, and if a later revision touches
\* it, it is one of the passing ones.
Fit(o, r) ==
    /\ Birth(o.table) = r \/ o \in LaterKeys(r)
    /\ o.kind = "key" => Birth(o.name) <= r
    /\ Passing(o) => o \in Passes[r]

Fits(st, r) == st.do # "remove" /\ (st.do = "add" => \A o \in st.what : Fit(o, r))

FitsAll(r) == \A i \in 1..Len(Upgrades[r]) : Fits(Upgrades[r][i], r)

LEMMA StandingFits ==
  ASSUME NEW t, NEW R, NEW I, NEW r, Birth(t) = r,
         r \in Nat, \A q \in R : Birth(q) <= r,
         t \notin PassingTables, R \cap PassingTargets = {}, I \cap PassingIndexes = {}
  PROVE  Fits(Create(t, R, I), r)
<1>1. ASSUME NEW o \in Made(t, R, I)  PROVE Fit(o, r)
  <2>1. /\ o.table = t /\ o.kind \in {"table", "key", "index"}
        /\ o.kind = "key" => o.name \in R
        /\ o.kind = "index" => o.name \in I
    BY MadeHas
  <2>2. QED  BY <2>1 DEF Fit, Passing
<1>2. QED  BY <1>1, Statements DEF Fits

LEMMA PassingFits ==
  ASSUME NEW t, NEW R, NEW I, NEW r, Birth(t) = r,
         r \in Nat, \A q \in R : Birth(q) <= r,
         Made(t, R, I) \subseteq Passes[r]
  PROVE  Fits(Create(t, R, I), r)
<1>1. ASSUME NEW o \in Made(t, R, I)  PROVE Fit(o, r)
  <2>1. o.table = t /\ (o.kind = "key" => o.name \in R)
    BY MadeHas
  <2>2. QED  BY <2>1 DEF Fit
<1>2. QED  BY <1>1, Statements DEF Fits

LEMMA AddFits ==
  ASSUME NEW what, NEW r, \A o \in what : Fit(o, r)
  PROVE  Fits(Add(what), r)
  BY Statements DEF Fits

\* Of a table that stays, the keys to tables that go are passing.
LEMMA MostlyStandingFits ==
  ASSUME NEW t, NEW R, NEW I, NEW r, Birth(t) = r,
         r \in Nat, \A q \in R : Birth(q) <= r,
         t \notin PassingTables, I \cap PassingIndexes = {},
         \A q \in R \cap PassingTargets : ForeignKey(t, q) \in Passes[r]
  PROVE  Fits(Create(t, R, I), r)
<1>1. ASSUME NEW o \in Made(t, R, I)  PROVE Fit(o, r)
  <2>1. /\ o.table = t /\ o.kind \in {"table", "key", "index"}
        /\ o.kind = "key" => o.name \in R /\ o = ForeignKey(t, o.name)
        /\ o.kind = "index" => o.name \in I
    BY MadeHas
  <2>2. QED  BY <2>1 DEF Fit, Passing
<1>2. QED  BY <1>1, Statements DEF Fits

\* Each revision up to the twentieth only adds, and adds what fits.
LEMMA FirstRevisionsFit == \A r \in 1..6 : FitsAll(r)
<1> USE DEF Birth, PassingTables, PassingTargets, PassingIndexes, PlanTables, TextTables, CodeTables,
            MoneyTables, TypeTables
<1>1. FitsAll(1) /\ FitsAll(2) /\ FitsAll(3)
  <2>1. Upgrades[1] = ExtensionsUp /\ Upgrades[2] = LocalizationUp /\ Upgrades[3] = GeoUp
    BY DEF Upgrades
  <2>2. QED
    BY <2>1, StandingFits DEF FitsAll, ExtensionsUp, LocalizationUp, GeoUp
<1>2. FitsAll(4)
  <2>1. Upgrades[4] = AuthUsers \o AuthSessions
    BY DEF Upgrades
  <2>2. PICK P : P = Passes[4]
    OBVIOUS
  <2>3. /\ VerifiedColumns \subseteq P /\ PhoneOrEmail \in P /\ AnyProvider \in P
        /\ Made("auth_identities", {"users"}, {"user_id"}) \subseteq P
        /\ Made("verification_codes", {"users"}, {"destination_purpose_created_at"}) \subseteq P
    BY <2>2 DEF Passes
  <2>4. Fits(Add({Column("users", "phone_verified_at"), Column("users", "email_verified_at"),
                  Check("users", "identity", {"phone", "email"})}), 4)
    BY <2>2, <2>3, AddFits, ColumnIs, CheckIs DEF Fit, VerifiedColumns, PhoneOrEmail
  <2>5. Fits(Add({Check("auth_identities", "provider", {"apple", "google"})}), 4)
    BY <2>2, <2>3, AddFits, CheckIs DEF Fit, AnyProvider
  <2>6. Fits(Add({ForeignKey("user_recent_locations", "users")}), 4)
    <3>1. Fit(ForeignKey("user_recent_locations", "users"), 4)
      BY KeyIs DEF Fit, Passing, LaterKeys
    <3>2. QED  BY <3>1, AddFits
  <2>7. /\ Fits(Create("auth_identities", {"users"}, {"user_id"}), 4)
        /\ Fits(Create("verification_codes", {"users"}, {"destination_purpose_created_at"}), 4)
    BY <2>2, <2>3, PassingFits
  <2>8. /\ Fits(Create("users", {"districts", "languages"}, {}), 4)
        /\ Fits(Create("devices", {"users"}, {"user_id"}), 4)
        /\ Fits(Create("friendships", {"users"}, {"addressee_id", "requester_id"}), 4)
        /\ Fits(Create("refresh_tokens", {"devices", "users"}, {"user_id"}), 4)
    BY StandingFits
  <2>9. \A i \in 1..Len(AuthUsers) : Fits(AuthUsers[i], 4)
    BY <2>4, <2>5, <2>7, <2>8 DEF AuthUsers
  <2>10. \A i \in 1..Len(AuthSessions) : Fits(AuthSessions[i], 4)
    BY <2>6, <2>7, <2>8 DEF AuthSessions
  <2>11. QED  BY <2>1, <2>9, <2>10 DEF FitsAll, AuthUsers, AuthSessions
<1>3. FitsAll(5)
  <2>1. Upgrades[5] = CatalogUp
    BY DEF Upgrades
  <2>2. PICK P : P = Passes[5]
    OBVIOUS
  <2>3. /\ Made("venue_types", {}, {}) \subseteq P
        /\ Made("amenity_translations", {"amenities", "languages"}, {}) \subseteq P
        /\ Made("venue_type_translations", {"languages", "venue_types"}, {}) \subseteq P
    BY <2>2 DEF Passes, Texts
  <2>4. QED  BY <2>1, <2>2, <2>3, StandingFits, PassingFits DEF FitsAll, CatalogUp
<1>4. FitsAll(6)
  <2>1. Upgrades[6] = VenueGroupsUp
    BY DEF Upgrades
  <2>2. PICK P : P = Passes[6]
    OBVIOUS
  <2>3. /\ ForeignKey("venue_groups", "venue_types") \in P
        /\ Column("venue_groups", "primary_venue_type_id") \in P
        /\ Made("venue_group_translations", {"languages", "venue_groups"}, {}) \subseteq P
    BY <2>2 DEF Passes, Texts
  <2>4. Fits(Add({Column("venue_groups", "primary_venue_type_id")}), 6)
    BY <2>2, <2>3, AddFits, ColumnIs DEF Fit
  <2>5. Fits(Create("venue_groups", {"users", "venue_types"}, {"owner_id"}), 6)
    BY <2>2, <2>3, MostlyStandingFits
  <2>6. QED  BY <2>1, <2>2, <2>3, <2>4, <2>5, PassingFits DEF FitsAll, VenueGroupsUp
<1>5. \A r \in 1..6 : r \in {1, 2, 3, 4, 5, 6}
  OBVIOUS
<1>6. QED  BY ONLY <1>1, <1>2, <1>3, <1>4, <1>5

LEMMA MiddleRevisionsFit == FitsAll(7) /\ FitsAll(8) /\ FitsAll(9) /\ FitsAll(10)
<1> USE DEF Birth, PassingTables, PassingTargets, PassingIndexes, PlanTables, TextTables, CodeTables,
            MoneyTables, TypeTables
<1>1. FitsAll(7)
  <2>1. Upgrades[7] = VenuesItself \o VenuesCalendar \o VenuesFloor
    BY DEF Upgrades
  <2>2. PICK P : P = Passes[7]
    OBVIOUS
  <2>3. /\ Made("venue_translations", {"languages", "venues"}, {"name_trgm"}) \subseteq P
        /\ Made("venue_venue_types", {"venues", "venue_types"}, {}) \subseteq P
        /\ Made("venue_zone_translations", {"languages", "venue_zones"}, {}) \subseteq P
    BY <2>2 DEF Passes, Texts
  <2>4. \A i \in 1..Len(VenuesItself) : Fits(VenuesItself[i], 7)
    BY StandingFits DEF VenuesItself
  <2>5. \A i \in 1..Len(VenuesCalendar) : Fits(VenuesCalendar[i], 7)
    BY <2>2, <2>3, StandingFits, PassingFits DEF VenuesCalendar
  <2>6. \A i \in 1..Len(VenuesFloor) : Fits(VenuesFloor[i], 7)
    BY <2>2, <2>3, StandingFits, PassingFits DEF VenuesFloor
  <2>7. QED  BY <2>1, <2>4, <2>5, <2>6 DEF FitsAll, VenuesItself, VenuesCalendar, VenuesFloor
<1>2. FitsAll(8)
  <2>1. Upgrades[8] = StaffRoles \o StaffPeople
    BY DEF Upgrades
  <2>2. PICK P : P = Passes[8]
    OBVIOUS
  <2>3. /\ SmsColumns \subseteq P
        /\ Made("staff_role_translations", {"languages", "staff_roles"}, {}) \subseteq P
    BY <2>2 DEF Passes, Texts
  <2>4. Fits(Add({Column("staff_invitations", "sms_sent_at"),
                  Column("staff_invitations", "sms_provider_id")}), 8)
    BY <2>2, <2>3, AddFits, ColumnIs DEF Fit, SmsColumns
  <2>5. \A i \in 1..Len(StaffRoles) : Fits(StaffRoles[i], 8)
    BY <2>2, <2>3, StandingFits, PassingFits DEF StaffRoles
  <2>6. \A i \in 1..Len(StaffPeople) : Fits(StaffPeople[i], 8)
    BY <2>4, StandingFits DEF StaffPeople
  <2>7. QED  BY <2>1, <2>5, <2>6 DEF FitsAll, StaffRoles, StaffPeople
<1>3. FitsAll(9)
  <2>1. Upgrades[9] = MenuDishes \o MenuVariants
    BY DEF Upgrades
  <2>2. PICK P : P = Passes[9]
    OBVIOUS
  <2>3. /\ Made("menu_category_translations", {"languages", "menu_categories"}, {}) \subseteq P
        /\ Made("menu_item_translations", {"languages", "menu_items"}, {"name_trgm"}) \subseteq P
        /\ Made("menu_item_variant_translations", {"languages", "menu_item_variants"}, {}) \subseteq P
    BY <2>2 DEF Passes, Texts
  <2>4. \A i \in 1..Len(MenuDishes) : Fits(MenuDishes[i], 9)
    BY <2>2, <2>3, StandingFits, PassingFits DEF MenuDishes
  <2>5. \A i \in 1..Len(MenuVariants) : Fits(MenuVariants[i], 9)
    BY <2>2, <2>3, StandingFits, PassingFits DEF MenuVariants
  <2>6. QED  BY <2>1, <2>4, <2>5 DEF FitsAll, MenuDishes, MenuVariants
<1>4. FitsAll(10)
  <2>1. Upgrades[10] = ServicesUp
    BY DEF Upgrades
  <2>2. PICK P : P = Passes[10]
    OBVIOUS
  <2>3. /\ ForeignKey("service_catalog", "venue_types") \in P
        /\ Column("service_catalog", "applies_to_venue_type_id") \in P
        /\ Made("service_catalog_translations", {"languages", "service_catalog"}, {}) \subseteq P
    BY <2>2 DEF Passes, Texts
  <2>4. Fits(Add({Column("service_catalog", "applies_to_venue_type_id")}), 10)
    BY <2>2, <2>3, AddFits, ColumnIs DEF Fit
  <2>5. Fits(Create("service_catalog", {"venue_types"}, {}), 10)
    BY <2>2, <2>3, MostlyStandingFits
  <2>6. QED  BY <2>1, <2>2, <2>3, <2>4, <2>5, StandingFits, PassingFits DEF FitsAll, ServicesUp
<1>5. QED  BY <1>1, <1>2, <1>3, <1>4

LEMMA MoneyRevisionsFit == FitsAll(11) /\ FitsAll(12) /\ FitsAll(13) /\ FitsAll(15)
<1> USE DEF Birth, PassingTables, PassingTargets, PassingIndexes, PlanTables, TextTables, CodeTables,
            MoneyTables, TypeTables
<1>1. FitsAll(11)
  <2>1. Upgrades[11] = PromotionsUp
    BY DEF Upgrades
  <2>2. PICK P : P = Passes[11]
    OBVIOUS
  <2>3. /\ Made("banners", {}, {}) \subseteq P /\ Made("promo_codes", {}, {}) \subseteq P
        /\ AppliesTo \in P /\ Column("promo_code_redemptions", "subscription_id") \in P
        /\ Made("banner_translations", {"banners", "languages"}, {}) \subseteq P
        /\ Made("user_promo_codes", {"promo_codes", "users"}, {"user_id_status_expires_at"}) \subseteq P
        /\ Made("promo_code_redemptions", {"promo_codes", "users"}, {}) \subseteq P
    BY <2>2 DEF Passes, Texts
  <2>4. Fits(Add({AppliesTo}), 11)
    BY <2>2, <2>3, AddFits, CheckIs DEF Fit, AppliesTo
  <2>5. Fits(Add({Column("promo_code_redemptions", "subscription_id")}), 11)
    BY <2>2, <2>3, AddFits, ColumnIs DEF Fit
  <2>6. /\ Fits(Create("banners", {}, {}), 11) /\ Fits(Create("promo_codes", {}, {}), 11)
        /\ Fits(Create("banner_translations", {"banners", "languages"}, {}), 11)
        /\ Fits(Create("user_promo_codes", {"promo_codes", "users"}, {"user_id_status_expires_at"}), 11)
        /\ Fits(Create("promo_code_redemptions", {"promo_codes", "users"}, {}), 11)
    BY <2>2, <2>3, PassingFits
  <2>7. QED  BY <2>1, <2>4, <2>5, <2>6 DEF FitsAll, PromotionsUp
<1>2. FitsAll(12)
  <2>1. Upgrades[12] = SubscriptionsUp
    BY DEF Upgrades
  <2>2. PICK P : P = Passes[12]
    OBVIOUS
  <2>3. /\ Made("subscription_plans", {}, {}) \subseteq P
        /\ Made("subscription_plan_translations", {"languages", "subscription_plans"}, {}) \subseteq P
        /\ Made("user_subscriptions", {"subscription_plans", "users"}, {"user_id"}) \subseteq P
    BY <2>2 DEF Passes, Texts
  <2>4. QED  BY <2>1, <2>2, <2>3, PassingFits DEF FitsAll, SubscriptionsUp
<1>3. FitsAll(13)
  <2>1. Upgrades[13] = BookingsItself \o BookingsChildren
    BY DEF Upgrades
  <2>2. PICK P : P = Passes[13]
    OBVIOUS
  <2>3. /\ ForeignKey("bookings", "promo_codes") \in P /\ Column("bookings", "promo_code_id") \in P
        /\ Column("bookings", "discount_amount") \in P /\ AnyPriceLine \in P
        /\ ForeignKey("promo_code_redemptions", "bookings") \in P
        /\ ForeignKey("promo_code_redemptions", "user_subscriptions") \in P
    BY <2>2 DEF Passes
  <2>4. Fits(Add({Column("bookings", "promo_code_id"), Column("bookings", "discount_amount")}), 13)
    BY <2>2, <2>3, AddFits, ColumnIs DEF Fit
  <2>5. Fits(Add({AnyPriceLine}), 13)
    BY <2>2, <2>3, AddFits, CheckIs DEF Fit, AnyPriceLine
  <2>6. /\ Fits(Add({ForeignKey("promo_code_redemptions", "bookings")}), 13)
        /\ Fits(Add({ForeignKey("promo_code_redemptions", "user_subscriptions")}), 13)
    BY <2>2, <2>3, AddFits, KeyIs DEF Fit, LaterKeys
  <2>7. Fits(Create("bookings", {"venue_guest_tiers", "promo_codes", "venue_tables", "users",
                                 "venues", "venue_services"},
                    {"user_id", "venue_id_booking_date_status", "one_hall_event_per_day"}), 13)
    BY <2>2, <2>3, MostlyStandingFits
  <2>8. \A i \in 1..Len(BookingsItself) : Fits(BookingsItself[i], 13)
    BY <2>4, <2>7 DEF BookingsItself
  <2>9. \A i \in 1..Len(BookingsChildren) : Fits(BookingsChildren[i], 13)
    BY <2>5, <2>6, StandingFits DEF BookingsChildren
  <2>10. QED  BY <2>1, <2>8, <2>9 DEF FitsAll, BookingsItself, BookingsChildren
<1>4. FitsAll(15)
  <2>1. Upgrades[15] = PaymentsUp
    BY DEF Upgrades
  <2>2. PICK P : P = Passes[15]
    OBVIOUS
  <2>3. /\ Made("payment_cards", {"users"}, {"user_id"}) \subseteq P
        /\ Made("payments", {"bookings", "payment_cards", "user_subscriptions", "users"}, {"user_id"})
             \subseteq P
        /\ Column("payments", "subscription_id") \in P /\ PaymentChecks \subseteq P
        /\ Made("refunds", {"payments"}, {"payment_id"}) \subseteq P
    BY <2>2 DEF Passes
  <2>4. \A o \in PaymentChecks : o.kind = "check" /\ o.table = "payments"
    BY CheckIs DEF PaymentChecks
  <2>5. Fits(Add({Column("payments", "subscription_id")} \cup PaymentChecks), 15)
    BY <2>2, <2>3, <2>4, AddFits, ColumnIs DEF Fit
  <2>6. /\ Fits(Create("payment_cards", {"users"}, {"user_id"}), 15)
        /\ Fits(Create("payments", {"bookings", "payment_cards", "user_subscriptions", "users"},
                       {"user_id"}), 15)
        /\ Fits(Create("refunds", {"payments"}, {"payment_id"}), 15)
    BY <2>2, <2>3, PassingFits
  <2>7. QED  BY <2>1, <2>5, <2>6 DEF FitsAll, PaymentsUp
<1>5. QED  BY <1>1, <1>2, <1>3, <1>4

LEMMA OtherRevisionsFit ==
  /\ FitsAll(14) /\ FitsAll(16) /\ FitsAll(17) /\ FitsAll(18) /\ FitsAll(19) /\ FitsAll(20)
<1> USE DEF Birth, PassingTables, PassingTargets, PassingIndexes, PlanTables, TextTables, CodeTables,
            MoneyTables, TypeTables
<1>1. FitsAll(14)
  <2>1. Upgrades[14] = OrdersItself \o OrdersMoney
    BY DEF Upgrades
  <2>2. \A i \in 1..Len(OrdersItself) : Fits(OrdersItself[i], 14)
    BY StandingFits DEF OrdersItself
  <2>3. \A i \in 1..Len(OrdersMoney) : Fits(OrdersMoney[i], 14)
    BY StandingFits DEF OrdersMoney
  <2>4. QED  BY <2>1, <2>2, <2>3 DEF FitsAll, OrdersItself, OrdersMoney
<1>2. FitsAll(16)
  <2>1. Upgrades[16] = ReviewsUp
    BY DEF Upgrades
  <2>2. QED  BY <2>1, StandingFits DEF FitsAll, ReviewsUp
<1>3. FitsAll(17)
  <2>1. Upgrades[17] = EngagementUp
    BY DEF Upgrades
  <2>2. QED  BY <2>1, StandingFits DEF FitsAll, EngagementUp
<1>4. FitsAll(18)
  <2>1. Upgrades[18] = AnalyticsUp
    BY DEF Upgrades
  <2>2. QED  BY <2>1, StandingFits DEF FitsAll, AnalyticsUp
<1>5. FitsAll(19)
  <2>1. Upgrades[19] = ReferenceDataUp
    BY DEF Upgrades
  <2>2. QED  BY <2>1, Statements DEF FitsAll, Fits, ReferenceDataUp
<1>6. FitsAll(20)
  <2>1. Upgrades[20] = SmsMessagesUp
    BY DEF Upgrades
  <2>2. PICK P : P = Passes[20]
    OBVIOUS
  <2>3. Made("sms_messages", {"users"}, {"phone_created_at", "status_created_at"}) \subseteq P
    BY <2>2 DEF Passes
  <2>4. QED  BY <2>1, <2>2, <2>3, PassingFits DEF FitsAll, SmsMessagesUp
<1>7. QED  BY <1>1, <1>2, <1>3, <1>4, <1>5, <1>6

LEMMA RevisionsFit == \A r \in 1..20 : FitsAll(r)
<1>1. \A r \in 1..20 : r \in 1..6 \cup {7, 8, 9, 10, 11, 12, 13, 14, 15, 16, 17, 18, 19, 20}
  OBVIOUS
<1>2. QED
  BY ONLY <1>1, FirstRevisionsFit, MiddleRevisionsFit, MoneyRevisionsFit, OtherRevisionsFit
-----------------------------------------------------------------------------
(* What each program adds, and what it hits.                                  *)

\* Every revision is a sequence of statements.
LEMMA ProgramsAreSequences ==
  ASSUME NEW r \in 1..31
  PROVE  /\ DOMAIN Upgrades[r] = 1..Len(Upgrades[r]) /\ Len(Upgrades[r]) \in Nat
         /\ DOMAIN Downgrades[r] = 1..Len(Downgrades[r]) /\ Len(Downgrades[r]) \in Nat
<1> DEFINE IsSequence(n) == /\ DOMAIN Upgrades[n] = 1..Len(Upgrades[n])
                            /\ DOMAIN Downgrades[n] = 1..Len(Downgrades[n])
<1>1. /\ Upgrades[1] = ExtensionsUp /\ Downgrades[1] = ExtensionsDown
      /\ Upgrades[2] = LocalizationUp /\ Downgrades[2] = LocalizationDown
      /\ Upgrades[3] = GeoUp /\ Downgrades[3] = GeoDown
      /\ Upgrades[4] = AuthUsers \o AuthSessions /\ Downgrades[4] = AuthDown
  BY DEF Upgrades, Downgrades
<1>2. IsSequence(1) /\ IsSequence(2) /\ IsSequence(3) /\ IsSequence(4)
  BY ONLY <1>1 DEF ExtensionsUp, ExtensionsDown, LocalizationUp, LocalizationDown, GeoUp,
     GeoDown, AuthUsers, AuthSessions, AuthDown
<1>3. /\ Upgrades[5] = CatalogUp /\ Downgrades[5] = CatalogDown
      /\ Upgrades[6] = VenueGroupsUp /\ Downgrades[6] = VenueGroupsDown
      /\ Upgrades[7] = VenuesItself \o VenuesCalendar \o VenuesFloor /\ Downgrades[7] = VenuesDown
      /\ Upgrades[8] = StaffRoles \o StaffPeople /\ Downgrades[8] = StaffDown
  BY DEF Upgrades, Downgrades
<1>4. IsSequence(5) /\ IsSequence(6) /\ IsSequence(7) /\ IsSequence(8)
  BY ONLY <1>3 DEF CatalogUp, CatalogDown, VenueGroupsUp, VenueGroupsDown, VenuesItself,
     VenuesCalendar, VenuesFloor, VenuesDown, StaffRoles, StaffPeople, StaffDown
<1>5. /\ Upgrades[9] = MenuDishes \o MenuVariants /\ Downgrades[9] = MenuDown
      /\ Upgrades[10] = ServicesUp /\ Downgrades[10] = ServicesDown
      /\ Upgrades[11] = PromotionsUp /\ Downgrades[11] = PromotionsDown
      /\ Upgrades[12] = SubscriptionsUp /\ Downgrades[12] = SubscriptionsDown
  BY DEF Upgrades, Downgrades
<1>6. IsSequence(9) /\ IsSequence(10) /\ IsSequence(11) /\ IsSequence(12)
  BY ONLY <1>5 DEF MenuDishes, MenuVariants, MenuDown, ServicesUp, ServicesDown, PromotionsUp,
     PromotionsDown, SubscriptionsUp, SubscriptionsDown
<1>7. /\ Upgrades[13] = BookingsItself \o BookingsChildren /\ Downgrades[13] = BookingsDown
      /\ Upgrades[14] = OrdersItself \o OrdersMoney /\ Downgrades[14] = OrdersDown
      /\ Upgrades[15] = PaymentsUp /\ Downgrades[15] = PaymentsDown
      /\ Upgrades[16] = ReviewsUp /\ Downgrades[16] = ReviewsDown
  BY DEF Upgrades, Downgrades
<1>8. IsSequence(13) /\ IsSequence(14) /\ IsSequence(15) /\ IsSequence(16)
  BY ONLY <1>7 DEF BookingsItself, BookingsChildren, BookingsDown, OrdersItself, OrdersMoney,
     OrdersDown, PaymentsUp, PaymentsDown, ReviewsUp, ReviewsDown
<1>9. /\ Upgrades[17] = EngagementUp /\ Downgrades[17] = EngagementDown
      /\ Upgrades[18] = AnalyticsUp /\ Downgrades[18] = AnalyticsDown
      /\ Upgrades[19] = ReferenceDataUp /\ Downgrades[19] = ReferenceDataDown
      /\ Upgrades[20] = SmsMessagesUp /\ Downgrades[20] = SmsMessagesDown
  BY DEF Upgrades, Downgrades
<1>10. IsSequence(17) /\ IsSequence(18) /\ IsSequence(19) /\ IsSequence(20)
  BY ONLY <1>9 DEF EngagementUp, EngagementDown, AnalyticsUp, AnalyticsDown, ReferenceDataUp,
     ReferenceDataDown, SmsMessagesUp, SmsMessagesDown
<1>11. /\ Upgrades[21] = DropSubscriptionsUp
      /\ Downgrades[21] = DropSubscriptionsDownTables \o DropSubscriptionsDownLinks
      /\ Upgrades[22] = CollapseUp /\ Downgrades[22] = CollapseDown
      /\ Upgrades[23] = RolePermissionsUp /\ Downgrades[23] = RolePermissionsDown
      /\ Upgrades[24] = DropSmsUp /\ Downgrades[24] = DropSmsDown
  BY DEF Upgrades, Downgrades
<1>12. IsSequence(21) /\ IsSequence(22) /\ IsSequence(23) /\ IsSequence(24)
  BY ONLY <1>11 DEF DropSubscriptionsUp, DropSubscriptionsDownTables, DropSubscriptionsDownLinks,
     CollapseUp, CollapseDown, RolePermissionsUp, RolePermissionsDown, DropSmsUp, DropSmsDown
<1>13. /\ Upgrades[25] = DropPaymentsUp
      /\ Downgrades[25] = DropPaymentsDownMoney \o DropPaymentsDownRefunds \o DropPaymentsDownBooking
      /\ Upgrades[26] = DropIdentitiesUp /\ Downgrades[26] = DropIdentitiesDown
      /\ Upgrades[27] = VenueTypeEnumUp /\ Downgrades[27] = VenueTypeEnumDown
      /\ Upgrades[28] = UniqueRegionCodeUp /\ Downgrades[28] = UniqueRegionCodeDown
  BY DEF Upgrades, Downgrades
<1>14. IsSequence(25) /\ IsSequence(26) /\ IsSequence(27) /\ IsSequence(28)
  BY ONLY <1>13 DEF DropPaymentsUp, DropPaymentsDownMoney, DropPaymentsDownRefunds,
     DropPaymentsDownBooking, DropIdentitiesUp, DropIdentitiesDown, VenueTypeEnumUp,
     VenueTypeEnumDown, UniqueRegionCodeUp, UniqueRegionCodeDown
<1>15. /\ Upgrades[29] = RegionsUp /\ Downgrades[29] = RegionsDown
      /\ Upgrades[30] = AmenityNamesUp /\ Downgrades[30] = AmenityNamesDown
      /\ Upgrades[31] = TelegramUp /\ Downgrades[31] = TelegramDown
  BY DEF Upgrades, Downgrades
<1>16. IsSequence(29) /\ IsSequence(30) /\ IsSequence(31)
  BY ONLY <1>15 DEF RegionsUp, RegionsDown, AmenityNamesUp, AmenityNamesDown, TelegramUp,
     TelegramDown
<1>17. r \in {1, 2, 3, 4, 5, 6, 7, 8, 9, 10, 11, 12, 13, 14, 15, 16, 17, 18, 19,
             20, 21, 22, 23, 24, 25, 26, 27, 28, 29, 30, 31}
  OBVIOUS
<1> HIDE DEF IsSequence
<1>18. IsSequence(r)
  BY ONLY <1>2, <1>4, <1>6, <1>8, <1>10, <1>12, <1>14, <1>16, <1>17
<1>19. QED  BY <1>18, ProgramsEnd, NewestIsLast DEF IsSequence

Is(o, kind, t, n) == o.kind = kind /\ o.table = t /\ o.name = n

LEMMA HitsNamed ==
  ASSUME NEW what, \A p \in what : p.kind # "table", NEW o
  PROVE  Hits(what, o) <=> \E p \in what : SameName(o, p)
  BY DEF Hits, Tables

LEMMA HitsTables ==
  ASSUME NEW T, NEW o, NEW I
  PROVE  /\ Hits({Relation(t) : t \in T}, o) <=> o.table \in T
         /\ \A t : Hits(Made(t, {}, I), o) <=> o.table = t
<1> DEFINE Rs == {Relation(t) : t \in T}
<1>1. ASSUME NEW p \in Rs  PROVE p.kind = "table" /\ p.table \in T
  <2>1. PICK t \in T : p = Relation(t)
    OBVIOUS
  <2>2. Relation(t).kind = "table" /\ Relation(t).table = t
    BY RelationIs
  <2>3. QED  BY <2>1, <2>2
<1>2. ASSUME NEW t  PROVE Hits(Made(t, {}, I), o) <=> o.table = t
  <2>1. Relation(t) \in Made(t, {}, I)
    BY DEF Made
  <2>2. \A p \in Made(t, {}, I) : p.table = t
    BY MadeHas
  <2>3. Relation(t).kind = "table" /\ Relation(t).table = t
    BY RelationIs
  <2>4. Tables(Made(t, {}, I)) = {t}
    BY <2>1, <2>2, <2>3 DEF Tables
  <2>5. QED  BY <2>2, <2>4 DEF Hits, SameName
<1>3. ASSUME NEW t \in T  PROVE \E p \in Rs : p.kind = "table" /\ p.table = t
  <2>1. Relation(t).kind = "table" /\ Relation(t).table = t
    BY RelationIs
  <2>2. QED  BY <2>1
<1> HIDE DEF Rs
<1>4. Tables(Rs) = T
  BY <1>1, <1>3 DEF Tables
<1>5. Hits(Rs, o) <=> o.table \in T
  BY <1>1, <1>4 DEF Hits, SameName
<1>6. QED  BY <1>2, <1>5 DEF Rs

LEMMA HitsParts ==
  ASSUME NEW t, NEW o
  PROVE  /\ \A c : Hits({Column(t, c)}, o) <=> Is(o, "column", t, c)
         /\ \A c, v : Hits({Check(t, c, v)}, o) <=> Is(o, "check", t, c)
         /\ \A q : Hits({ForeignKey(t, q)}, o) <=> Is(o, "key", t, q)
         /\ \A i : Hits({Index(t, i)}, o) <=> Is(o, "index", t, i)
<1>1. ASSUME NEW p, p.kind # "table"
      PROVE  Hits({p}, o) <=> Is(o, p.kind, p.table, p.name)
  BY <1>1, HitsNamed DEF SameName, Is
<1>2. \A c : Hits({Column(t, c)}, o) <=> Is(o, "column", t, c)
  BY <1>1, ColumnIs
<1>3. \A c, v : Hits({Check(t, c, v)}, o) <=> Is(o, "check", t, c)
  BY <1>1, CheckIs
<1>4. \A q : Hits({ForeignKey(t, q)}, o) <=> Is(o, "key", t, q)
  BY <1>1, KeyIs
<1>5. \A i : Hits({Index(t, i)}, o) <=> Is(o, "index", t, i)
  BY <1>1, IndexIs
<1>6. QED  BY <1>2, <1>3, <1>4, <1>5

\* What the statements that remove hit.
LEMMA RemoveHits ==
  ASSUME NEW o
  PROVE  /\ \A t, c : Hits(Remove({Column(t, c)}).what, o) <=> Is(o, "column", t, c)
         /\ \A t, c, v : Hits(Remove({Check(t, c, v)}).what, o) <=> Is(o, "check", t, c)
         /\ \A t, q : Hits(Remove({ForeignKey(t, q)}).what, o) <=> Is(o, "key", t, q)
         /\ \A t, i : Hits(Remove({Index(t, i)}).what, o) <=> Is(o, "index", t, i)
         /\ \A t, I : Hits(Drop(t, I).what, o) <=> o.table = t
<1>1. /\ \A x : Remove(x).what = x
      /\ \A t, I : Drop(t, I).what = Made(t, {}, I)
  BY Statements
<1>2. \A t, I : Hits(Made(t, {}, I), o) <=> o.table = t
  BY HitsTables
<1>3. \A t, I : Hits(Drop(t, I).what, o) <=> o.table = t
  BY <1>1, <1>2
<1>4. \A t, c : Hits(Remove({Column(t, c)}).what, o) <=> Is(o, "column", t, c)
  BY <1>1, HitsParts
<1>5. \A t, c, v : Hits(Remove({Check(t, c, v)}).what, o) <=> Is(o, "check", t, c)
  BY <1>1, HitsParts
<1>6. \A t, q : Hits(Remove({ForeignKey(t, q)}).what, o) <=> Is(o, "key", t, q)
  BY <1>1, HitsParts
<1>7. \A t, i : Hits(Remove({Index(t, i)}).what, o) <=> Is(o, "index", t, i)
  BY <1>1, HitsParts
<1>8. QED  BY <1>3, <1>4, <1>5, <1>6, <1>7

LEMMA HitsDone ==
  ASSUME NEW program, NEW o
  PROVE  Hits(Done(program, "remove"), o) <=>
           \E i \in DOMAIN program : program[i].do = "remove" /\ Hits(program[i].what, o)
  BY DEF Hits, Done, Tables

LEMMA InDone ==
  ASSUME NEW program, NEW o
  PROVE  o \in Done(program, "add") <=>
           \E i \in DOMAIN program : program[i].do = "add" /\ o \in program[i].what
  BY DEF Done

\* The texts move out of these tables, into tables that stay.
LEMMA MovesTexts ==
  /\ \A t : t \in TextTables <=> \E m \in Moves : m[2] = t
  /\ \A m \in Moves : m[1] \notin TextTables
  BY DEF Moves, TextTables

LEMMA MovedTextsStand ==
  \A o \in MovedTexts : o.kind = "column" /\ o.kind # "table" /\ o.table \notin TextTables
<1>1. ASSUME NEW o \in MovedTexts
      PROVE  o.kind = "column" /\ o.kind # "table" /\ o.table \notin TextTables
  <2>1. PICK m \in Moves : o \in {Column(m[1], c) : c \in m[3]}
    BY DEF MovedTexts
  <2>2. PICK c \in m[3] : o = Column(m[1], c)
    BY <2>1
  <2>3. o.kind = "column" /\ o.table = m[1]
    BY <2>2, ColumnIs
  <2>4. QED  BY <2>3, MovesTexts
<1>2. QED  BY <1>1

TextObjects ==
    UNION {{Relation(m[2]), ForeignKey(m[2], m[1]), ForeignKey(m[2], "languages")} : m \in Moves}

LEMMA TextsStand == \A o \in TextObjects : o.table \in TextTables
<1>1. ASSUME NEW o \in TextObjects  PROVE o.table \in TextTables
  <2>1. PICK m \in Moves :
          o = Relation(m[2]) \/ o = ForeignKey(m[2], m[1]) \/ o = ForeignKey(m[2], "languages")
    BY DEF TextObjects
  <2>2. Relation(m[2]).table = m[2] /\ \A r : ForeignKey(m[2], r).table = m[2]
    BY SMT DEF Relation, ForeignKey, Object
  <2>3. QED  BY <2>1, <2>2, MovesTexts
<1>2. QED  BY <1>1

\* Removals of several parts at once.
LEMMA HitsSets ==
  ASSUME NEW o
  PROVE  /\ Hits(PaymentChecks, o) <=>
              Is(o, "check", "payments", "target") \/ Is(o, "check", "payments", "kind")
         /\ Hits(BookingPaymentChecks, o) <=>
              Is(o, "check", "payments", "target") \/ Is(o, "check", "payments", "kind")
         /\ Hits({Relation(m[2]) : m \in Moves}, o) <=> o.table \in TextTables
         /\ Hits(SearchIndexes, o) <=> Is(o, "index", "venues", "name_trgm")
              \/ Is(o, "index", "menu_items", "name_trgm")
         /\ Hits(MovedTexts, o) <=>
              \E m \in Moves : o.kind = "column" /\ o.table = m[1] /\ o.name \in m[3]
         /\ Hits(VerifiedColumns, o) <=> Is(o, "column", "users", "phone_verified_at")
              \/ Is(o, "column", "users", "email_verified_at")
         /\ Hits(SmsColumns, o) <=> Is(o, "column", "staff_invitations", "sms_sent_at")
              \/ Is(o, "column", "staff_invitations", "sms_provider_id")
         /\ Hits({Column("service_catalog", "applies_to_venue_type_id"),
              ForeignKey("service_catalog", "venue_types")}, o) <=>
              Is(o, "column", "service_catalog", "applies_to_venue_type_id")
              \/ Is(o, "key", "service_catalog", "venue_types")
         /\ Hits({Column("venue_groups", "primary_venue_type_id"),
              ForeignKey("venue_groups", "venue_types")}, o) <=>
              Is(o, "column", "venue_groups", "primary_venue_type_id")
              \/ Is(o, "key", "venue_groups", "venue_types")
         /\ Hits({Index("venues", "venue_type")}, o) <=> Is(o, "index", "venues", "venue_type")
         /\ Hits(VenueTypeColumns \cup VenueTypeChecks, o) <=>
              Is(o, "column", "venues", "venue_type")
              \/ Is(o, "column", "venue_groups", "primary_venue_type")
              \/ Is(o, "column", "service_catalog", "applies_to_venue_type")
              \/ Is(o, "check", "venues", "venue_type")
              \/ Is(o, "check", "venue_groups", "primary_venue_type")
              \/ Is(o, "check", "service_catalog", "applies_to_venue_type")
<1>1. ASSUME NEW p, NEW q  PROVE Hits({p, q}, o) <=> Hits({p}, o) \/ Hits({q}, o)
  BY DEF Hits, Tables
<1>2. ASSUME NEW p, NEW q, NEW s
      PROVE  Hits({p, q, s}, o) <=> Hits({p}, o) \/ Hits({q}, o) \/ Hits({s}, o)
  BY DEF Hits, Tables
<1>3. /\ \A t, c : Hits({Column(t, c)}, o) <=> Is(o, "column", t, c)
      /\ \A t, c, v : Hits({Check(t, c, v)}, o) <=> Is(o, "check", t, c)
      /\ \A t, q : Hits({ForeignKey(t, q)}, o) <=> Is(o, "key", t, q)
      /\ \A t, i : Hits({Index(t, i)}, o) <=> Is(o, "index", t, i)
  <2>1. \A t, c : Hits({Column(t, c)}, o) <=> Is(o, "column", t, c)
    BY HitsParts
  <2>2. \A t, c, v : Hits({Check(t, c, v)}, o) <=> Is(o, "check", t, c)
    BY HitsParts
  <2>3. \A t, q : Hits({ForeignKey(t, q)}, o) <=> Is(o, "key", t, q)
    BY HitsParts
  <2>4. \A t, i : Hits({Index(t, i)}, o) <=> Is(o, "index", t, i)
    BY HitsParts
  <2>5. QED  BY <2>1, <2>2, <2>3, <2>4
<1>4. Hits(PaymentChecks, o) <=>
        Is(o, "check", "payments", "target") \/ Is(o, "check", "payments", "kind")
  BY <1>1, <1>3 DEF PaymentChecks
<1>5. Hits(BookingPaymentChecks, o) <=>
        Is(o, "check", "payments", "target") \/ Is(o, "check", "payments", "kind")
  BY <1>1, <1>3 DEF BookingPaymentChecks
<1>6. Hits({Relation(m[2]) : m \in Moves}, o) <=> o.table \in TextTables
  <2>1. {Relation(m[2]) : m \in Moves} = {Relation(t) : t \in TextTables}
    BY MovesTexts
  <2>2. Hits({Relation(t) : t \in TextTables}, o) <=> o.table \in TextTables
    BY HitsTables
  <2>3. QED  BY <2>1, <2>2
<1>7. Hits(SearchIndexes, o) <=>
        Is(o, "index", "venues", "name_trgm") \/ Is(o, "index", "menu_items", "name_trgm")
  BY <1>1, <1>3 DEF SearchIndexes
<1>8. Hits(MovedTexts, o) <=>
        \E m \in Moves : o.kind = "column" /\ o.table = m[1] /\ o.name \in m[3]
  <2>1. Hits(MovedTexts, o) <=> \E p \in MovedTexts : SameName(o, p)
    BY HitsNamed, MovedTextsStand
  <2>2. \A m, c : SameName(o, Column(m[1], c)) <=>
                    o.kind = "column" /\ o.table = m[1] /\ o.name = c
    BY ColumnIs DEF SameName
  <2>3. \A p : p \in MovedTexts <=> \E m \in Moves : \E c \in m[3] : p = Column(m[1], c)
    BY DEF MovedTexts
  <2>4. QED  BY <2>1, <2>2, <2>3
<1>9. Hits(VerifiedColumns, o) <=>
        Is(o, "column", "users", "phone_verified_at") \/ Is(o, "column", "users", "email_verified_at")
  BY <1>1, <1>3 DEF VerifiedColumns
<1>10. Hits(SmsColumns, o) <=> \/ Is(o, "column", "staff_invitations", "sms_sent_at")
                               \/ Is(o, "column", "staff_invitations", "sms_provider_id")
  BY <1>1, <1>3 DEF SmsColumns
<1>11. \A t, c, q : Hits({Column(t, c), ForeignKey(t, q)}, o) <=>
                      Is(o, "column", t, c) \/ Is(o, "key", t, q)
  BY <1>1, <1>3
<1>12. Hits(VenueTypeColumns, o) <=>
         \/ Is(o, "column", "venues", "venue_type")
         \/ Is(o, "column", "venue_groups", "primary_venue_type")
         \/ Is(o, "column", "service_catalog", "applies_to_venue_type")
  BY <1>2, <1>3 DEF VenueTypeColumns
<1>13. Hits(VenueTypeChecks, o) <=>
         \/ Is(o, "check", "venues", "venue_type")
         \/ Is(o, "check", "venue_groups", "primary_venue_type")
         \/ Is(o, "check", "service_catalog", "applies_to_venue_type")
  BY <1>2, <1>3, ZenonT(60) DEF VenueTypeChecks
<1>14. Hits(VenueTypeColumns \cup VenueTypeChecks, o) <=>
         Hits(VenueTypeColumns, o) \/ Hits(VenueTypeChecks, o)
  BY HitsAny
<1>15. QED
  BY <1>3, <1>4, <1>5, <1>6, <1>7, <1>8, <1>9, <1>10, <1>11, <1>12, <1>13, <1>14

\* The revisions that take something away, and the ways back.
LEMMA Up21 ==
  /\ \A o : Takes(21, o) <=>
           \/ o.table \in PlanTables \/ Is(o, "check", "payments", "target")
           \/ Is(o, "check", "payments", "kind") \/ Is(o, "check", "promo_codes", "applies_to")
           \/ Is(o, "key", "payments", "user_subscriptions")
           \/ Is(o, "column", "payments", "subscription_id")
           \/ Is(o, "key", "promo_code_redemptions", "user_subscriptions")
           \/ Is(o, "column", "promo_code_redemptions", "subscription_id")
  /\ Added(21) =
       BookingPaymentChecks \cup {AppliesToBookings}
  /\ KeepsItsOwn(Upgrades[21])
<1>1. PICK P : P = Upgrades[21]
  OBVIOUS
<1>2. /\ DOMAIN P = 1..12 /\ Len(P) = 12
      /\ P[1] = Remove(PaymentChecks)
      /\ P[2] = Remove({AppliesTo})
      /\ P[3] = Forbid({Row("payments", "target", "subscription")})
      /\ P[4] = Remove({ForeignKey("payments", "user_subscriptions")})
      /\ P[5] = Remove({Column("payments", "subscription_id")})
      /\ P[6] = Remove({ForeignKey("promo_code_redemptions", "user_subscriptions")})
      /\ P[7] = Remove({Column("promo_code_redemptions", "subscription_id")})
      /\ P[8] = Drop("subscription_plan_translations", {})
      /\ P[9] = Drop("user_subscriptions", {"user_id"})
      /\ P[10] = Drop("subscription_plans", {})
      /\ P[11] = Add(BookingPaymentChecks)
      /\ P[12] = Add({AppliesToBookings})
  BY <1>1 DEF Upgrades, DropSubscriptionsUp
<1>3. \A i : i \in 1..12 <=> i \in {1, 2, 3, 4, 5, 6, 7, 8, 9, 10, 11, 12}
  OBVIOUS
<1>4. /\ \A i \in {1, 2, 4, 5, 6, 7, 8, 9, 10} : P[i].do = "remove"
      /\ \A i \in {11, 12} : P[i].do = "add"
      /\ P[3].do = "forbid"
      /\ P[11].what = BookingPaymentChecks
      /\ P[12].what = {AppliesToBookings}
  BY <1>2, Statements
<1>5. ASSUME NEW o
      PROVE  /\ Hits(P[1].what, o) <=>
                  Is(o, "check", "payments", "target") \/ Is(o, "check", "payments", "kind")
             /\ Hits(P[2].what, o) <=> Is(o, "check", "promo_codes", "applies_to")
             /\ Hits(P[4].what, o) <=> Is(o, "key", "payments", "user_subscriptions")
             /\ Hits(P[5].what, o) <=> Is(o, "column", "payments", "subscription_id")
             /\ Hits(P[6].what, o) <=> Is(o, "key", "promo_code_redemptions", "user_subscriptions")
             /\ Hits(P[7].what, o) <=> Is(o, "column", "promo_code_redemptions", "subscription_id")
             /\ Hits(P[8].what, o) <=> o.table = "subscription_plan_translations"
             /\ Hits(P[9].what, o) <=> o.table = "user_subscriptions"
             /\ Hits(P[10].what, o) <=> o.table = "subscription_plans"
  <2>1. /\ P[1].what = PaymentChecks
    BY <1>2, Statements
  <2>2. /\ Hits(P[1].what, o) <=>
             Is(o, "check", "payments", "target") \/ Is(o, "check", "payments", "kind")
    BY <2>1, HitsSets
  <2>3. /\ Hits(P[2].what, o) <=> Is(o, "check", "promo_codes", "applies_to")
        /\ Hits(P[4].what, o) <=> Is(o, "key", "payments", "user_subscriptions")
        /\ Hits(P[5].what, o) <=> Is(o, "column", "payments", "subscription_id")
        /\ Hits(P[6].what, o) <=> Is(o, "key", "promo_code_redemptions", "user_subscriptions")
        /\ Hits(P[7].what, o) <=> Is(o, "column", "promo_code_redemptions", "subscription_id")
        /\ Hits(P[8].what, o) <=> o.table = "subscription_plan_translations"
        /\ Hits(P[9].what, o) <=> o.table = "user_subscriptions"
        /\ Hits(P[10].what, o) <=> o.table = "subscription_plans"
    BY <1>2, RemoveHits DEF AppliesTo
  <2>4. QED  BY <2>2, <2>3
<1>6. ASSUME NEW o
      PROVE  Takes(21, o) <=>
                 \/ o.table \in PlanTables \/ Is(o, "check", "payments", "target")
                 \/ Is(o, "check", "payments", "kind")
                 \/ Is(o, "check", "promo_codes", "applies_to")
                 \/ Is(o, "key", "payments", "user_subscriptions")
                 \/ Is(o, "column", "payments", "subscription_id")
                 \/ Is(o, "key", "promo_code_redemptions", "user_subscriptions")
                 \/ Is(o, "column", "promo_code_redemptions", "subscription_id")
  <2>1. Takes(21, o) <=> Hits(Done(P, "remove"), o)
    BY <1>1 DEF Takes, Hits
  <2>2. Takes(21, o) <=> \E i \in {1, 2, 4, 5, 6, 7, 8, 9, 10} : Hits(P[i].what, o)
    BY <2>1, <1>2, <1>3, <1>4, HitsDone
  <2>3. QED  BY <2>2, <1>5 DEF PlanTables
<1>7. Added(21) =
        BookingPaymentChecks \cup {AppliesToBookings}
  <2>1. \A o : o \in Added(21) <=> \E i \in {11, 12} : o \in P[i].what
    BY <1>1, <1>2, <1>3, <1>4, InDone DEF Added
  <2>2. QED  BY <2>1, <1>4
<1>8. KeepsItsOwn(P)
  BY <1>2, <1>3, <1>4 DEF KeepsItsOwn
<1>9. QED  BY <1>1, <1>6, <1>7, <1>8

LEMMA Down21 ==
  /\ \A o : Hits(Done(Downgrades[21], "remove"), o) <=>
           \/ Is(o, "check", "payments", "target") \/ Is(o, "check", "payments", "kind")
           \/ Is(o, "check", "promo_codes", "applies_to")
  /\ Done(Downgrades[21], "add") =
       Made("subscription_plans", {}, {})
              \cup Made("user_subscriptions", {"subscription_plans", "users"}, {"user_id"})
              \cup Made("subscription_plan_translations", {"languages", "subscription_plans"}, {})
              \cup {Column("payments", "subscription_id")}
              \cup {ForeignKey("payments", "user_subscriptions")}
              \cup {Column("promo_code_redemptions", "subscription_id")}
              \cup {ForeignKey("promo_code_redemptions", "user_subscriptions")}
              \cup PaymentChecks \cup {AppliesTo}
  /\ KeepsItsOwn(Downgrades[21])
<1>1. PICK P : P = Downgrades[21]
  OBVIOUS
<1>2. /\ DOMAIN P = 1..11 /\ Len(P) = 11
      /\ P[1] = Remove(BookingPaymentChecks)
      /\ P[2] = Remove({AppliesToBookings})
      /\ P[3] = Create("subscription_plans", {}, {})
      /\ P[4] = Create("user_subscriptions", {"subscription_plans", "users"}, {"user_id"})
      /\ P[5] = Create("subscription_plan_translations", {"languages", "subscription_plans"}, {})
      /\ P[6] = Add({Column("payments", "subscription_id")})
      /\ P[7] = Add({ForeignKey("payments", "user_subscriptions")})
      /\ P[8] = Add({Column("promo_code_redemptions", "subscription_id")})
      /\ P[9] = Add({ForeignKey("promo_code_redemptions", "user_subscriptions")})
      /\ P[10] = Add(PaymentChecks)
      /\ P[11] = Add({AppliesTo})
  BY <1>1 DEF Downgrades, DropSubscriptionsDownTables, DropSubscriptionsDownLinks
<1>3. \A i : i \in 1..11 <=> i \in {1, 2, 3, 4, 5, 6, 7, 8, 9, 10, 11}
  OBVIOUS
<1>4. /\ \A i \in {1, 2} : P[i].do = "remove"
      /\ \A i \in {3, 4, 5, 6, 7, 8, 9, 10, 11} : P[i].do = "add"
      /\ P[3].what = Made("subscription_plans", {}, {})
      /\ P[4].what = Made("user_subscriptions", {"subscription_plans", "users"}, {"user_id"})
      /\ P[5].what = Made("subscription_plan_translations", {"languages", "subscription_plans"}, {})
      /\ P[6].what = {Column("payments", "subscription_id")}
      /\ P[7].what = {ForeignKey("payments", "user_subscriptions")}
      /\ P[8].what = {Column("promo_code_redemptions", "subscription_id")}
      /\ P[9].what = {ForeignKey("promo_code_redemptions", "user_subscriptions")}
      /\ P[10].what = PaymentChecks
      /\ P[11].what = {AppliesTo}
  BY <1>2, Statements
<1>5. ASSUME NEW o
      PROVE  /\ Hits(P[1].what, o) <=>
                  Is(o, "check", "payments", "target") \/ Is(o, "check", "payments", "kind")
             /\ Hits(P[2].what, o) <=> Is(o, "check", "promo_codes", "applies_to")
  <2>1. /\ P[1].what = BookingPaymentChecks
    BY <1>2, Statements
  <2>2. /\ Hits(P[1].what, o) <=>
             Is(o, "check", "payments", "target") \/ Is(o, "check", "payments", "kind")
    BY <2>1, HitsSets
  <2>3. P[2].what = Remove({Check("promo_codes", "applies_to", {"booking", "both"})}).what
    BY <1>2, Zenon DEF AppliesToBookings
  <2>4. \A v : Hits(Remove({Check("promo_codes", "applies_to", v)}).what, o)
                <=> Is(o, "check", "promo_codes", "applies_to")
    BY ONLY RemoveHits
  <2>5. /\ Hits(P[2].what, o) <=> Is(o, "check", "promo_codes", "applies_to")
    BY ONLY <2>3, <2>4
  <2>6. QED  BY <2>2, <2>5
<1>6. ASSUME NEW o
      PROVE  Hits(Done(Downgrades[21], "remove"), o) <=>
                 \/ Is(o, "check", "payments", "target") \/ Is(o, "check", "payments", "kind")
                 \/ Is(o, "check", "promo_codes", "applies_to")
  <2>1. Hits(Done(Downgrades[21], "remove"), o) <=> Hits(Done(P, "remove"), o)
    BY <1>1
  <2>2. Hits(Done(Downgrades[21], "remove"), o) <=> \E i \in {1, 2} : Hits(P[i].what, o)
    BY <2>1, <1>2, <1>3, <1>4, HitsDone
  <2>3. QED  BY <2>2, <1>5
<1>7. Done(Downgrades[21], "add") =
        Made("subscription_plans", {}, {})
              \cup Made("user_subscriptions", {"subscription_plans", "users"}, {"user_id"})
              \cup Made("subscription_plan_translations", {"languages", "subscription_plans"}, {})
              \cup {Column("payments", "subscription_id")}
              \cup {ForeignKey("payments", "user_subscriptions")}
              \cup {Column("promo_code_redemptions", "subscription_id")}
              \cup {ForeignKey("promo_code_redemptions", "user_subscriptions")}
              \cup PaymentChecks \cup {AppliesTo}
  <2>1. \A o : o \in Done(Downgrades[21], "add") <=> \E i \in {3, 4, 5, 6, 7, 8, 9, 10, 11} :
          o \in P[i].what
    BY <1>1, <1>2, <1>3, <1>4, InDone
  <2>2. QED  BY <2>1, <1>4
<1>8. KeepsItsOwn(P)
  BY <1>2, <1>3, <1>4 DEF KeepsItsOwn
<1>9. QED  BY <1>1, <1>6, <1>7, <1>8

LEMMA Up22 ==
  /\ \A o : Takes(22, o) <=>
           \/ o.table \in TextTables
  /\ Added(22) =
       MovedTexts \cup SearchIndexes
  /\ KeepsItsOwn(Upgrades[22])
<1>1. PICK P : P = Upgrades[22]
  OBVIOUS
<1>2. /\ DOMAIN P = 1..3 /\ Len(P) = 3
      /\ P[1] = Add(MovedTexts)
      /\ P[2] = Add(SearchIndexes)
      /\ P[3] = Remove({Relation(m[2]) : m \in Moves})
  BY <1>1 DEF Upgrades, CollapseUp
<1>3. \A i : i \in 1..3 <=> i \in {1, 2, 3}
  OBVIOUS
<1>4. /\ \A i \in {3} : P[i].do = "remove"
      /\ \A i \in {1, 2} : P[i].do = "add"
      /\ P[1].what = MovedTexts
      /\ P[2].what = SearchIndexes
  BY <1>2, Statements
<1>5. ASSUME NEW o
      PROVE  /\ Hits(P[3].what, o) <=> o.table \in TextTables
  <2>1. /\ P[3].what = {Relation(m[2]) : m \in Moves}
    BY <1>2, Statements
  <2>2. /\ Hits(P[3].what, o) <=> o.table \in TextTables
    BY <2>1, HitsSets
  <2>3. QED  BY <2>2
<1>6. ASSUME NEW o
      PROVE  Takes(22, o) <=>
                 \/ o.table \in TextTables
  <2>1. Takes(22, o) <=> Hits(Done(P, "remove"), o)
    BY <1>1 DEF Takes, Hits
  <2>2. Takes(22, o) <=> \E i \in {3} : Hits(P[i].what, o)
    BY <2>1, <1>2, <1>3, <1>4, HitsDone
  <2>3. QED  BY <2>2, <1>5 DEF TextTables
<1>7. Added(22) =
        MovedTexts \cup SearchIndexes
  <2>1. \A o : o \in Added(22) <=> \E i \in {1, 2} : o \in P[i].what
    BY <1>1, <1>2, <1>3, <1>4, InDone DEF Added
  <2>2. QED  BY <2>1, <1>4
<1>8. KeepsItsOwn(P)
  <2>1. \A o \in P[1].what : o.kind = "column" /\ o.table \notin TextTables
    BY <1>4, MovedTextsStand
  <2>2. \A o \in P[2].what : o.table \in {"venues", "menu_items"}
    BY <1>4, IndexIs DEF SearchIndexes
  <2>3. ASSUME NEW i \in {1, 2}, NEW j \in {3}, i < j, NEW o \in P[i].what
        PROVE  ~Hits(P[j].what, o)
    BY <2>3, <1>5, <2>1, <2>2 DEF Is, TextTables
  <2>4. \A i, j \in 1..3 : i < j /\ P[i].do = "add" /\ P[j].do = "remove" =>
                i \in {1, 2} /\ j \in {3}
    BY <1>3, <1>4
  <2>5. QED  BY <1>2, <2>3, <2>4 DEF KeepsItsOwn
<1>9. QED  BY <1>1, <1>6, <1>7, <1>8

LEMMA Down22 ==
  /\ \A o : Hits(Done(Downgrades[22], "remove"), o) <=>
           \/ Is(o, "index", "venues", "name_trgm") \/ Is(o, "index", "menu_items", "name_trgm")
           \/ (\E m \in Moves : o.kind = "column" /\ o.table = m[1] /\ o.name \in m[3])
  /\ Done(Downgrades[22], "add") =
       TextObjects
  /\ KeepsItsOwn(Downgrades[22])
<1>1. PICK P : P = Downgrades[22]
  OBVIOUS
<1>2. /\ DOMAIN P = 1..3 /\ Len(P) = 3
      /\ P[1] = Add(TextObjects)
      /\ P[2] = Remove(SearchIndexes)
      /\ P[3] = Remove(MovedTexts)
  BY <1>1 DEF Downgrades, CollapseDown, TextObjects
<1>3. \A i : i \in 1..3 <=> i \in {1, 2, 3}
  OBVIOUS
<1>4. /\ \A i \in {2, 3} : P[i].do = "remove"
      /\ \A i \in {1} : P[i].do = "add"
      /\ P[1].what = TextObjects
  BY <1>2, Statements
<1>5. ASSUME NEW o
      PROVE  /\ Hits(P[2].what, o) <=> Is(o, "index", "venues", "name_trgm")
                  \/ Is(o, "index", "menu_items", "name_trgm")
             /\ Hits(P[3].what, o) <=>
                  (\E m \in Moves : o.kind = "column" /\ o.table = m[1] /\ o.name \in m[3])
  <2>1. /\ P[2].what = SearchIndexes
        /\ P[3].what = MovedTexts
    BY <1>2, Statements
  <2>2. /\ Hits(P[2].what, o) <=> Is(o, "index", "venues", "name_trgm")
             \/ Is(o, "index", "menu_items", "name_trgm")
        /\ Hits(P[3].what, o) <=>
             (\E m \in Moves : o.kind = "column" /\ o.table = m[1] /\ o.name \in m[3])
    BY <2>1, HitsSets
  <2>3. QED  BY <2>2
<1>6. ASSUME NEW o
      PROVE  Hits(Done(Downgrades[22], "remove"), o) <=>
                 \/ Is(o, "index", "venues", "name_trgm")
                 \/ Is(o, "index", "menu_items", "name_trgm")
                 \/ (\E m \in Moves : o.kind = "column" /\ o.table = m[1] /\ o.name \in m[3])
  <2>1. Hits(Done(Downgrades[22], "remove"), o) <=> Hits(Done(P, "remove"), o)
    BY <1>1
  <2>2. Hits(Done(Downgrades[22], "remove"), o) <=> \E i \in {2, 3} : Hits(P[i].what, o)
    BY <2>1, <1>2, <1>3, <1>4, HitsDone
  <2>3. QED  BY <2>2, <1>5 DEF TextTables, Moves
<1>7. Done(Downgrades[22], "add") =
        TextObjects
  <2>1. \A o : o \in Done(Downgrades[22], "add") <=> \E i \in {1} : o \in P[i].what
    BY <1>1, <1>2, <1>3, <1>4, InDone
  <2>2. QED  BY <2>1, <1>4
<1>8. KeepsItsOwn(P)
  <2>1. \A o \in P[1].what : o.table \in TextTables
    BY <1>4, TextsStand
  <2>2. ASSUME NEW i \in {1}, NEW j \in {2, 3}, i < j, NEW o \in P[i].what
        PROVE  ~Hits(P[j].what, o)
    BY <2>2, <1>5, <2>1 DEF Is, TextTables, Moves
  <2>3. \A i, j \in 1..3 : i < j /\ P[i].do = "add" /\ P[j].do = "remove" =>
                i \in {1} /\ j \in {2, 3}
    BY <1>3, <1>4
  <2>4. QED  BY <1>2, <2>2, <2>3 DEF KeepsItsOwn
<1>9. QED  BY <1>1, <1>6, <1>7, <1>8

LEMMA Up24 ==
  /\ \A o : Takes(24, o) <=>
           \/ o.table \in CodeTables \/ Is(o, "check", "auth_identities", "provider")
           \/ Is(o, "column", "users", "phone_verified_at")
           \/ Is(o, "column", "users", "email_verified_at")
           \/ Is(o, "column", "staff_invitations", "sms_sent_at")
           \/ Is(o, "column", "staff_invitations", "sms_provider_id")
  /\ Added(24) =
       {GoogleOnly}
  /\ KeepsItsOwn(Upgrades[24])
<1>1. PICK P : P = Upgrades[24]
  OBVIOUS
<1>2. /\ DOMAIN P = 1..7 /\ Len(P) = 7
      /\ P[1] = Drop("sms_messages", {"phone_created_at", "status_created_at"})
      /\ P[2] = Drop("verification_codes", {"destination_purpose_created_at"})
      /\ P[3] = Delete({Row("auth_identities", "provider", "apple")}, {})
      /\ P[4] = Remove({AnyProvider})
      /\ P[5] = Add({GoogleOnly})
      /\ P[6] = Remove(VerifiedColumns)
      /\ P[7] = Remove(SmsColumns)
  BY <1>1 DEF Upgrades, DropSmsUp
<1>3. \A i : i \in 1..7 <=> i \in {1, 2, 3, 4, 5, 6, 7}
  OBVIOUS
<1>4. /\ \A i \in {1, 2, 4, 6, 7} : P[i].do = "remove"
      /\ \A i \in {5} : P[i].do = "add"
      /\ P[3].do = "delete"
      /\ P[5].what = {GoogleOnly}
  BY <1>2, Statements
<1>5. ASSUME NEW o
      PROVE  /\ Hits(P[1].what, o) <=> o.table = "sms_messages"
             /\ Hits(P[2].what, o) <=> o.table = "verification_codes"
             /\ Hits(P[4].what, o) <=> Is(o, "check", "auth_identities", "provider")
             /\ Hits(P[6].what, o) <=> Is(o, "column", "users", "phone_verified_at")
                  \/ Is(o, "column", "users", "email_verified_at")
             /\ Hits(P[7].what, o) <=> Is(o, "column", "staff_invitations", "sms_sent_at")
                  \/ Is(o, "column", "staff_invitations", "sms_provider_id")
  <2>1. /\ P[6].what = VerifiedColumns
        /\ P[7].what = SmsColumns
    BY <1>2, Statements
  <2>2. /\ Hits(P[6].what, o) <=> Is(o, "column", "users", "phone_verified_at")
             \/ Is(o, "column", "users", "email_verified_at")
        /\ Hits(P[7].what, o) <=> Is(o, "column", "staff_invitations", "sms_sent_at")
             \/ Is(o, "column", "staff_invitations", "sms_provider_id")
    BY <2>1, HitsSets
  <2>3. /\ Hits(P[1].what, o) <=> o.table = "sms_messages"
        /\ Hits(P[2].what, o) <=> o.table = "verification_codes"
        /\ Hits(P[4].what, o) <=> Is(o, "check", "auth_identities", "provider")
    BY <1>2, RemoveHits DEF AnyProvider
  <2>4. QED  BY <2>2, <2>3
<1>6. ASSUME NEW o
      PROVE  Takes(24, o) <=>
                 \/ o.table \in CodeTables \/ Is(o, "check", "auth_identities", "provider")
                 \/ Is(o, "column", "users", "phone_verified_at")
                 \/ Is(o, "column", "users", "email_verified_at")
                 \/ Is(o, "column", "staff_invitations", "sms_sent_at")
                 \/ Is(o, "column", "staff_invitations", "sms_provider_id")
  <2>1. Takes(24, o) <=> Hits(Done(P, "remove"), o)
    BY <1>1 DEF Takes, Hits
  <2>2. Takes(24, o) <=> \E i \in {1, 2, 4, 6, 7} : Hits(P[i].what, o)
    BY <2>1, <1>2, <1>3, <1>4, HitsDone
  <2>3. QED  BY <2>2, <1>5 DEF CodeTables
<1>7. Added(24) =
        {GoogleOnly}
  <2>1. \A o : o \in Added(24) <=> \E i \in {5} : o \in P[i].what
    BY <1>1, <1>2, <1>3, <1>4, InDone DEF Added
  <2>2. QED  BY <2>1, <1>4
<1>8. KeepsItsOwn(P)
  <2>1. \A o \in P[5].what : o.kind = "check"
    BY <1>4, CheckIs DEF GoogleOnly
  <2>2. ASSUME NEW i \in {5}, NEW j \in {6, 7}, i < j, NEW o \in P[i].what
        PROVE  ~Hits(P[j].what, o)
    BY <2>2, <1>5, <2>1 DEF Is, CodeTables
  <2>3. \A i, j \in 1..7 : i < j /\ P[i].do = "add" /\ P[j].do = "remove" =>
                i \in {5} /\ j \in {6, 7}
    BY <1>3, <1>4
  <2>4. QED  BY <1>2, <2>2, <2>3 DEF KeepsItsOwn
<1>9. QED  BY <1>1, <1>6, <1>7, <1>8

LEMMA Down24 ==
  /\ \A o : Hits(Done(Downgrades[24], "remove"), o) <=>
           \/ Is(o, "check", "auth_identities", "provider")
  /\ Done(Downgrades[24], "add") =
       SmsColumns \cup VerifiedColumns \cup {AnyProvider}
              \cup Made("verification_codes", {"users"}, {"destination_purpose_created_at"})
              \cup Made("sms_messages", {"users"}, {"phone_created_at", "status_created_at"})
  /\ KeepsItsOwn(Downgrades[24])
<1>1. PICK P : P = Downgrades[24]
  OBVIOUS
<1>2. /\ DOMAIN P = 1..6 /\ Len(P) = 6
      /\ P[1] = Add(SmsColumns)
      /\ P[2] = Add(VerifiedColumns)
      /\ P[3] = Remove({GoogleOnly})
      /\ P[4] = Add({AnyProvider})
      /\ P[5] = Create("verification_codes", {"users"}, {"destination_purpose_created_at"})
      /\ P[6] = Create("sms_messages", {"users"}, {"phone_created_at", "status_created_at"})
  BY <1>1 DEF Downgrades, DropSmsDown
<1>3. \A i : i \in 1..6 <=> i \in {1, 2, 3, 4, 5, 6}
  OBVIOUS
<1>4. /\ \A i \in {3} : P[i].do = "remove"
      /\ \A i \in {1, 2, 4, 5, 6} : P[i].do = "add"
      /\ P[1].what = SmsColumns
      /\ P[2].what = VerifiedColumns
      /\ P[4].what = {AnyProvider}
      /\ P[5].what = Made("verification_codes", {"users"}, {"destination_purpose_created_at"})
      /\ P[6].what = Made("sms_messages", {"users"}, {"phone_created_at", "status_created_at"})
  BY <1>2, Statements
<1>5. ASSUME NEW o
      PROVE  /\ Hits(P[3].what, o) <=> Is(o, "check", "auth_identities", "provider")
  BY <1>2, RemoveHits DEF GoogleOnly
<1>6. ASSUME NEW o
      PROVE  Hits(Done(Downgrades[24], "remove"), o) <=>
                 \/ Is(o, "check", "auth_identities", "provider")
  <2>1. Hits(Done(Downgrades[24], "remove"), o) <=> Hits(Done(P, "remove"), o)
    BY <1>1
  <2>2. Hits(Done(Downgrades[24], "remove"), o) <=> \E i \in {3} : Hits(P[i].what, o)
    BY <2>1, <1>2, <1>3, <1>4, HitsDone
  <2>3. QED  BY <2>2, <1>5
<1>7. Done(Downgrades[24], "add") =
        SmsColumns \cup VerifiedColumns \cup {AnyProvider}
              \cup Made("verification_codes", {"users"}, {"destination_purpose_created_at"})
              \cup Made("sms_messages", {"users"}, {"phone_created_at", "status_created_at"})
  <2>1. \A o : o \in Done(Downgrades[24], "add") <=> \E i \in {1, 2, 4, 5, 6} : o \in P[i].what
    BY <1>1, <1>2, <1>3, <1>4, InDone
  <2>2. QED  BY <2>1, <1>4
<1>8. KeepsItsOwn(P)
  <2>1. \A o \in P[1].what : o.kind = "column"
    BY <1>4, ColumnIs DEF SmsColumns
  <2>2. \A o \in P[2].what : o.kind = "column"
    BY <1>4, ColumnIs DEF VerifiedColumns
  <2>3. ASSUME NEW i \in {1, 2}, NEW j \in {3}, i < j, NEW o \in P[i].what
        PROVE  ~Hits(P[j].what, o)
    BY <2>3, <1>5, <2>1, <2>2 DEF Is
  <2>4. \A i, j \in 1..6 : i < j /\ P[i].do = "add" /\ P[j].do = "remove" =>
                i \in {1, 2} /\ j \in {3}
    BY <1>3, <1>4
  <2>5. QED  BY <1>2, <2>3, <2>4 DEF KeepsItsOwn
<1>9. QED  BY <1>1, <1>6, <1>7, <1>8

LEMMA Up25 ==
  /\ \A o : Takes(25, o) <=>
           \/ o.table \in MoneyTables \/ Is(o, "key", "bookings", "promo_codes")
           \/ Is(o, "column", "bookings", "promo_code_id")
           \/ Is(o, "column", "bookings", "discount_amount")
           \/ Is(o, "check", "booking_price_lines", "line_type")
  /\ Added(25) =
       {UndiscountedLine}
  /\ KeepsItsOwn(Upgrades[25])
<1>1. PICK P : P = Upgrades[25]
  OBVIOUS
<1>2. /\ DOMAIN P = 1..13 /\ Len(P) = 13
      /\ P[1] = Remove({ForeignKey("bookings", "promo_codes")})
      /\ P[2] = Remove({Column("bookings", "promo_code_id")})
      /\ P[3] = Remove({Column("bookings", "discount_amount")})
      /\ P[4] = Delete({Row("booking_price_lines", "line_type", "discount")}, {})
      /\ P[5] = Remove({AnyPriceLine})
      /\ P[6] = Add({UndiscountedLine})
      /\ P[7] = Drop("promo_code_redemptions", {})
      /\ P[8] = Drop("user_promo_codes", {"user_id_status_expires_at"})
      /\ P[9] = Drop("refunds", {"payment_id"})
      /\ P[10] = Drop("payments", {"user_id"})
      /\ P[11] = Drop("payment_cards", {"user_id"})
      /\ P[12] = Drop("promo_codes", {})
      /\ P[13] = Drop("banners", {})
  BY <1>1 DEF Upgrades, DropPaymentsUp
<1>3. \A i : i \in 1..13 <=> i \in {1, 2, 3, 4, 5, 6, 7, 8, 9, 10, 11, 12, 13}
  OBVIOUS
<1>4. /\ \A i \in {1, 2, 3, 5, 7, 8, 9, 10, 11, 12, 13} : P[i].do = "remove"
      /\ \A i \in {6} : P[i].do = "add"
      /\ P[4].do = "delete"
      /\ P[6].what = {UndiscountedLine}
  BY <1>2, Statements
<1>5. ASSUME NEW o
      PROVE  /\ Hits(P[1].what, o) <=> Is(o, "key", "bookings", "promo_codes")
             /\ Hits(P[2].what, o) <=> Is(o, "column", "bookings", "promo_code_id")
             /\ Hits(P[3].what, o) <=> Is(o, "column", "bookings", "discount_amount")
             /\ Hits(P[5].what, o) <=> Is(o, "check", "booking_price_lines", "line_type")
             /\ Hits(P[7].what, o) <=> o.table = "promo_code_redemptions"
             /\ Hits(P[8].what, o) <=> o.table = "user_promo_codes"
             /\ Hits(P[9].what, o) <=> o.table = "refunds"
             /\ Hits(P[10].what, o) <=> o.table = "payments"
             /\ Hits(P[11].what, o) <=> o.table = "payment_cards"
             /\ Hits(P[12].what, o) <=> o.table = "promo_codes"
             /\ Hits(P[13].what, o) <=> o.table = "banners"
  BY <1>2, RemoveHits DEF AnyPriceLine
<1>6. ASSUME NEW o
      PROVE  Takes(25, o) <=>
                 \/ o.table \in MoneyTables \/ Is(o, "key", "bookings", "promo_codes")
                 \/ Is(o, "column", "bookings", "promo_code_id")
                 \/ Is(o, "column", "bookings", "discount_amount")
                 \/ Is(o, "check", "booking_price_lines", "line_type")
  <2>1. Takes(25, o) <=> Hits(Done(P, "remove"), o)
    BY <1>1 DEF Takes, Hits
  <2>2. Takes(25, o) <=> \E i \in {1, 2, 3, 5, 7, 8, 9, 10, 11, 12, 13} : Hits(P[i].what, o)
    BY <2>1, <1>2, <1>3, <1>4, HitsDone
  <2>3. QED  BY <2>2, <1>5 DEF MoneyTables
<1>7. Added(25) =
        {UndiscountedLine}
  <2>1. \A o : o \in Added(25) <=> \E i \in {6} : o \in P[i].what
    BY <1>1, <1>2, <1>3, <1>4, InDone DEF Added
  <2>2. QED  BY <2>1, <1>4
<1>8. KeepsItsOwn(P)
  <2>1. \A o \in P[6].what : o.table = "booking_price_lines"
    BY <1>4, CheckIs DEF UndiscountedLine
  <2>2. ASSUME NEW i \in {6}, NEW j \in {7, 8, 9, 10, 11, 12, 13}, i < j, NEW o \in P[i].what
        PROVE  ~Hits(P[j].what, o)
    BY <2>2, <1>5, <2>1 DEF Is, MoneyTables
  <2>3. \A i, j \in 1..13 : i < j /\ P[i].do = "add" /\ P[j].do = "remove" =>
                i \in {6} /\ j \in {7, 8, 9, 10, 11, 12, 13}
    BY <1>3, <1>4
  <2>4. QED  BY <1>2, <2>2, <2>3 DEF KeepsItsOwn
<1>9. QED  BY <1>1, <1>6, <1>7, <1>8

LEMMA Down25 ==
  /\ \A o : Hits(Done(Downgrades[25], "remove"), o) <=>
           \/ Is(o, "check", "booking_price_lines", "line_type")
  /\ Done(Downgrades[25], "add") =
       Made("banners", {}, {})
              \cup {Column("banners", "title"), Column("banners", "subtitle")}
              \cup Made("promo_codes", {}, {}) \cup {AppliesToBookings}
              \cup Made("payment_cards", {"users"}, {"user_id"})
              \cup Made("payments", {"bookings", "payment_cards", "users"}, {"user_id"})
              \cup BookingPaymentChecks \cup Made("refunds", {"payments"}, {"payment_id"})
              \cup Made("user_promo_codes", {"promo_codes", "users"}, {"user_id_status_expires_at"})
              \cup Made("promo_code_redemptions", {"bookings", "promo_codes", "users"}, {})
              \cup {AnyPriceLine} \cup {Column("bookings", "discount_amount")}
              \cup {Column("bookings", "promo_code_id")}
              \cup {ForeignKey("bookings", "promo_codes")}
  /\ KeepsItsOwn(Downgrades[25])
<1>1. PICK P : P = Downgrades[25]
  OBVIOUS
<1>2. /\ DOMAIN P = 1..15 /\ Len(P) = 15
      /\ P[1] = Create("banners", {}, {})
      /\ P[2] = Add({Column("banners", "title"), Column("banners", "subtitle")})
      /\ P[3] = Create("promo_codes", {}, {})
      /\ P[4] = Add({AppliesToBookings})
      /\ P[5] = Create("payment_cards", {"users"}, {"user_id"})
      /\ P[6] = Create("payments", {"bookings", "payment_cards", "users"}, {"user_id"})
      /\ P[7] = Add(BookingPaymentChecks)
      /\ P[8] = Create("refunds", {"payments"}, {"payment_id"})
      /\ P[9] = Create("user_promo_codes", {"promo_codes", "users"}, {"user_id_status_expires_at"})
      /\ P[10] = Create("promo_code_redemptions", {"bookings", "promo_codes", "users"}, {})
      /\ P[11] = Remove({UndiscountedLine})
      /\ P[12] = Add({AnyPriceLine})
      /\ P[13] = Add({Column("bookings", "discount_amount")})
      /\ P[14] = Add({Column("bookings", "promo_code_id")})
      /\ P[15] = Add({ForeignKey("bookings", "promo_codes")})
  BY <1>1 DEF Downgrades, DropPaymentsDownMoney, DropPaymentsDownRefunds,
              DropPaymentsDownBooking
<1>3. \A i : i \in 1..15 <=> i \in {1, 2, 3, 4, 5, 6, 7, 8, 9, 10, 11, 12, 13, 14, 15}
  OBVIOUS
<1>4. /\ \A i \in {11} : P[i].do = "remove"
      /\ \A i \in {1, 2, 3, 4, 5, 6, 7, 8, 9, 10, 12, 13, 14, 15} : P[i].do = "add"
      /\ P[1].what = Made("banners", {}, {})
      /\ P[2].what = {Column("banners", "title"), Column("banners", "subtitle")}
      /\ P[3].what = Made("promo_codes", {}, {})
      /\ P[4].what = {AppliesToBookings}
      /\ P[5].what = Made("payment_cards", {"users"}, {"user_id"})
      /\ P[6].what = Made("payments", {"bookings", "payment_cards", "users"}, {"user_id"})
      /\ P[7].what = BookingPaymentChecks
      /\ P[8].what = Made("refunds", {"payments"}, {"payment_id"})
      /\ P[9].what = Made("user_promo_codes", {"promo_codes", "users"}, {"user_id_status_expires_at"})
      /\ P[10].what = Made("promo_code_redemptions", {"bookings", "promo_codes", "users"}, {})
      /\ P[12].what = {AnyPriceLine}
      /\ P[13].what = {Column("bookings", "discount_amount")}
      /\ P[14].what = {Column("bookings", "promo_code_id")}
      /\ P[15].what = {ForeignKey("bookings", "promo_codes")}
  BY <1>2, Statements
<1>5. ASSUME NEW o
      PROVE  /\ Hits(P[11].what, o) <=> Is(o, "check", "booking_price_lines", "line_type")
  BY <1>2, RemoveHits DEF UndiscountedLine
<1>6. ASSUME NEW o
      PROVE  Hits(Done(Downgrades[25], "remove"), o) <=>
                 \/ Is(o, "check", "booking_price_lines", "line_type")
  <2>1. Hits(Done(Downgrades[25], "remove"), o) <=> Hits(Done(P, "remove"), o)
    BY <1>1
  <2>2. Hits(Done(Downgrades[25], "remove"), o) <=> \E i \in {11} : Hits(P[i].what, o)
    BY <2>1, <1>2, <1>3, <1>4, HitsDone
  <2>3. QED  BY <2>2, <1>5
<1>7. Done(Downgrades[25], "add") =
        Made("banners", {}, {})
              \cup {Column("banners", "title"), Column("banners", "subtitle")}
              \cup Made("promo_codes", {}, {}) \cup {AppliesToBookings}
              \cup Made("payment_cards", {"users"}, {"user_id"})
              \cup Made("payments", {"bookings", "payment_cards", "users"}, {"user_id"})
              \cup BookingPaymentChecks \cup Made("refunds", {"payments"}, {"payment_id"})
              \cup Made("user_promo_codes", {"promo_codes", "users"}, {"user_id_status_expires_at"})
              \cup Made("promo_code_redemptions", {"bookings", "promo_codes", "users"}, {})
              \cup {AnyPriceLine} \cup {Column("bookings", "discount_amount")}
              \cup {Column("bookings", "promo_code_id")}
              \cup {ForeignKey("bookings", "promo_codes")}
  <2>1. \A o : o \in Done(Downgrades[25], "add") <=>
          \E i \in {1, 2, 3, 4, 5, 6, 7, 8, 9, 10, 12, 13, 14, 15} : o \in P[i].what
    BY <1>1, <1>2, <1>3, <1>4, InDone
  <2>2. QED  BY <2>1, <1>4
<1>8. KeepsItsOwn(P)
  <2>1. \A o \in P[1].what : o.table = "banners"
    BY <1>4, MadeHas
  <2>2. \A o \in P[2].what : o.table = "banners"
    BY <1>4, ColumnIs
  <2>3. \A o \in P[3].what : o.table = "promo_codes"
    BY <1>4, MadeHas
  <2>4. \A o \in P[4].what : o.table = "promo_codes"
    BY <1>4, CheckIs DEF AppliesToBookings
  <2>5. \A o \in P[5].what : o.table = "payment_cards"
    BY <1>4, MadeHas
  <2>6. \A o \in P[6].what : o.table = "payments"
    BY <1>4, MadeHas
  <2>7. \A o \in P[7].what : o.table = "payments"
    BY <1>4, CheckIs DEF BookingPaymentChecks
  <2>8. \A o \in P[8].what : o.table = "refunds"
    BY <1>4, MadeHas
  <2>9. \A o \in P[9].what : o.table = "user_promo_codes"
    BY <1>4, MadeHas
  <2>10. \A o \in P[10].what : o.table = "promo_code_redemptions"
    BY <1>4, MadeHas
  <2>11. ASSUME NEW i \in {1, 2, 3, 4, 5, 6, 7, 8, 9, 10}, NEW j \in {11}, i < j, NEW o \in P[i].what
        PROVE  ~Hits(P[j].what, o)
    BY <2>11, <1>5, <2>1, <2>2, <2>3, <2>4, <2>5, <2>6, <2>7, <2>8, <2>9, <2>10 DEF Is
  <2>12. \A i, j \in 1..15 : i < j /\ P[i].do = "add" /\ P[j].do = "remove" =>
                i \in {1, 2, 3, 4, 5, 6, 7, 8, 9, 10} /\ j \in {11}
    BY <1>3, <1>4
  <2>13. QED  BY <1>2, <2>11, <2>12 DEF KeepsItsOwn
<1>9. QED  BY <1>1, <1>6, <1>7, <1>8

LEMMA Up26 ==
  /\ \A o : Takes(26, o) <=>
           \/ o.table = "auth_identities"
  /\ Added(26) =
       {}
  /\ KeepsItsOwn(Upgrades[26])
<1>1. PICK P : P = Upgrades[26]
  OBVIOUS
<1>2. /\ DOMAIN P = 1..1 /\ Len(P) = 1
      /\ P[1] = Drop("auth_identities", {"user_id"})
  BY <1>1 DEF Upgrades, DropIdentitiesUp
<1>3. \A i : i \in 1..1 <=> i \in {1}
  OBVIOUS
<1>4. /\ \A i \in {1} : P[i].do = "remove"
  BY <1>2, Statements
<1>5. ASSUME NEW o
      PROVE  /\ Hits(P[1].what, o) <=> o.table = "auth_identities"
  BY <1>2, RemoveHits
<1>6. ASSUME NEW o
      PROVE  Takes(26, o) <=>
                 \/ o.table = "auth_identities"
  <2>1. Takes(26, o) <=> Hits(Done(P, "remove"), o)
    BY <1>1 DEF Takes, Hits
  <2>2. Takes(26, o) <=> \E i \in {1} : Hits(P[i].what, o)
    BY <2>1, <1>2, <1>3, <1>4, HitsDone
  <2>3. QED  BY <2>2, <1>5
<1>7. Added(26) =
        {}
  <2>1. \A o : o \in Added(26) <=> \E i \in {} : o \in P[i].what
    BY <1>1, <1>2, <1>3, <1>4, InDone DEF Added
  <2>2. QED  BY <2>1, <1>4
<1>8. KeepsItsOwn(P)
  BY <1>2, <1>3, <1>4 DEF KeepsItsOwn
<1>9. QED  BY <1>1, <1>6, <1>7, <1>8

LEMMA Down26 ==
  /\ \A o : ~Hits(Done(Downgrades[26], "remove"), o)
  /\ Done(Downgrades[26], "add") =
       Made("auth_identities", {"users"}, {"user_id"}) \cup {GoogleOnly}
  /\ KeepsItsOwn(Downgrades[26])
<1>1. PICK P : P = Downgrades[26]
  OBVIOUS
<1>2. /\ DOMAIN P = 1..2 /\ Len(P) = 2
      /\ P[1] = Create("auth_identities", {"users"}, {"user_id"})
      /\ P[2] = Add({GoogleOnly})
  BY <1>1 DEF Downgrades, DropIdentitiesDown
<1>3. \A i : i \in 1..2 <=> i \in {1, 2}
  OBVIOUS
<1>4. /\ \A i \in {1, 2} : P[i].do = "add"
      /\ P[1].what = Made("auth_identities", {"users"}, {"user_id"})
      /\ P[2].what = {GoogleOnly}
  BY <1>2, Statements
<1>6. ASSUME NEW o
      PROVE  ~Hits(Done(Downgrades[26], "remove"), o)
  <2>1. Hits(Done(Downgrades[26], "remove"), o) <=> Hits(Done(P, "remove"), o)
    BY <1>1
  <2>2. Hits(Done(Downgrades[26], "remove"), o) <=> \E i \in {} : Hits(P[i].what, o)
    BY <2>1, <1>2, <1>3, <1>4, HitsDone
  <2>3. QED  BY <2>2
<1>7. Done(Downgrades[26], "add") =
        Made("auth_identities", {"users"}, {"user_id"}) \cup {GoogleOnly}
  <2>1. \A o : o \in Done(Downgrades[26], "add") <=> \E i \in {1, 2} : o \in P[i].what
    BY <1>1, <1>2, <1>3, <1>4, InDone
  <2>2. QED  BY <2>1, <1>4
<1>8. KeepsItsOwn(P)
  BY <1>2, <1>3, <1>4 DEF KeepsItsOwn
<1>9. QED  BY <1>1, <1>6, <1>7, <1>8

LEMMA Up27 ==
  /\ \A o : Takes(27, o) <=>
           \/ o.table \in TypeTables
           \/ Is(o, "column", "service_catalog", "applies_to_venue_type_id")
           \/ Is(o, "key", "service_catalog", "venue_types")
           \/ Is(o, "column", "venue_groups", "primary_venue_type_id")
           \/ Is(o, "key", "venue_groups", "venue_types")
  /\ Added(27) =
       VenueTypeColumns \cup VenueTypeChecks \cup {Index("venues", "venue_type")}
  /\ KeepsItsOwn(Upgrades[27])
<1>1. PICK P : P = Upgrades[27]
  OBVIOUS
<1>2. /\ DOMAIN P = 1..7 /\ Len(P) = 7
      /\ P[1] = Add(VenueTypeColumns)
      /\ P[2] = Add(VenueTypeChecks)
      /\ P[3] = Add({Index("venues", "venue_type")})
      /\ P[4] = Remove({Column("service_catalog", "applies_to_venue_type_id"),
           ForeignKey("service_catalog", "venue_types")})
      /\ P[5] = Remove({Column("venue_groups", "primary_venue_type_id"),
           ForeignKey("venue_groups", "venue_types")})
      /\ P[6] = Drop("venue_venue_types", {})
      /\ P[7] = Drop("venue_types", {})
  BY <1>1 DEF Upgrades, VenueTypeEnumUp
<1>3. \A i : i \in 1..7 <=> i \in {1, 2, 3, 4, 5, 6, 7}
  OBVIOUS
<1>4. /\ \A i \in {4, 5, 6, 7} : P[i].do = "remove"
      /\ \A i \in {1, 2, 3} : P[i].do = "add"
      /\ P[1].what = VenueTypeColumns
      /\ P[2].what = VenueTypeChecks
      /\ P[3].what = {Index("venues", "venue_type")}
  BY <1>2, Statements
<1>5. ASSUME NEW o
      PROVE  /\ Hits(P[4].what, o) <=> Is(o, "column", "service_catalog", "applies_to_venue_type_id")
                  \/ Is(o, "key", "service_catalog", "venue_types")
             /\ Hits(P[5].what, o) <=> Is(o, "column", "venue_groups", "primary_venue_type_id")
                  \/ Is(o, "key", "venue_groups", "venue_types")
             /\ Hits(P[6].what, o) <=> o.table = "venue_venue_types"
             /\ Hits(P[7].what, o) <=> o.table = "venue_types"
  <2>1. /\ P[4].what = {Column("service_catalog", "applies_to_venue_type_id"),
             ForeignKey("service_catalog", "venue_types")}
        /\ P[5].what = {Column("venue_groups", "primary_venue_type_id"),
             ForeignKey("venue_groups", "venue_types")}
    BY <1>2, Statements
  <2>2. /\ Hits(P[4].what, o) <=> Is(o, "column", "service_catalog", "applies_to_venue_type_id")
             \/ Is(o, "key", "service_catalog", "venue_types")
        /\ Hits(P[5].what, o) <=> Is(o, "column", "venue_groups", "primary_venue_type_id")
             \/ Is(o, "key", "venue_groups", "venue_types")
    BY <2>1, HitsSets
  <2>3. /\ Hits(P[6].what, o) <=> o.table = "venue_venue_types"
        /\ Hits(P[7].what, o) <=> o.table = "venue_types"
    BY <1>2, RemoveHits
  <2>4. QED  BY <2>2, <2>3
<1>6. ASSUME NEW o
      PROVE  Takes(27, o) <=>
                 \/ o.table \in TypeTables
                 \/ Is(o, "column", "service_catalog", "applies_to_venue_type_id")
                 \/ Is(o, "key", "service_catalog", "venue_types")
                 \/ Is(o, "column", "venue_groups", "primary_venue_type_id")
                 \/ Is(o, "key", "venue_groups", "venue_types")
  <2>1. Takes(27, o) <=> Hits(Done(P, "remove"), o)
    BY <1>1 DEF Takes, Hits
  <2>2. Takes(27, o) <=> \E i \in {4, 5, 6, 7} : Hits(P[i].what, o)
    BY <2>1, <1>2, <1>3, <1>4, HitsDone
  <2>3. QED  BY <2>2, <1>5 DEF TypeTables
<1>7. Added(27) =
        VenueTypeColumns \cup VenueTypeChecks \cup {Index("venues", "venue_type")}
  <2>1. \A o : o \in Added(27) <=> \E i \in {1, 2, 3} : o \in P[i].what
    BY <1>1, <1>2, <1>3, <1>4, InDone DEF Added
  <2>2. QED  BY <2>1, <1>4
<1>8. KeepsItsOwn(P)
  <2>1. \A o \in P[1].what : o.kind = "column" /\ o.table \notin TypeTables
                               /\ o.name \notin {"applies_to_venue_type_id", "primary_venue_type_id"}
    BY <1>4, ColumnIs DEF VenueTypeColumns, TypeTables
  <2>2. \A o \in P[2].what : o.kind = "check" /\ o.table \notin TypeTables
    BY <1>4, CheckIs DEF VenueTypeChecks, TypeTables
  <2>3. \A o \in P[3].what : o.kind = "index" /\ o.table \notin TypeTables
    BY <1>4, IndexIs DEF TypeTables
  <2>4. ASSUME NEW i \in {1, 2, 3}, NEW j \in {4, 5, 6, 7}, i < j, NEW o \in P[i].what
        PROVE  ~Hits(P[j].what, o)
    BY <2>4, <1>5, <2>1, <2>2, <2>3 DEF Is, TypeTables
  <2>5. \A i, j \in 1..7 : i < j /\ P[i].do = "add" /\ P[j].do = "remove" =>
                i \in {1, 2, 3} /\ j \in {4, 5, 6, 7}
    BY <1>3, <1>4
  <2>6. QED  BY <1>2, <2>4, <2>5 DEF KeepsItsOwn
<1>9. QED  BY <1>1, <1>6, <1>7, <1>8

LEMMA Down27 ==
  /\ \A o : Hits(Done(Downgrades[27], "remove"), o) <=>
           \/ Is(o, "index", "venues", "venue_type") \/ Is(o, "column", "venues", "venue_type")
           \/ Is(o, "column", "venue_groups", "primary_venue_type")
           \/ Is(o, "column", "service_catalog", "applies_to_venue_type")
           \/ Is(o, "check", "venues", "venue_type")
           \/ Is(o, "check", "venue_groups", "primary_venue_type")
           \/ Is(o, "check", "service_catalog", "applies_to_venue_type")
  /\ Done(Downgrades[27], "add") =
       Made("venue_types", {}, {}) \cup {Column("venue_types", "name")}
              \cup Made("venue_venue_types", {"venues", "venue_types"}, {})
              \cup {Column("venue_groups", "primary_venue_type_id"),
                ForeignKey("venue_groups", "venue_types")}
              \cup {Column("service_catalog", "applies_to_venue_type_id"),
                ForeignKey("service_catalog", "venue_types")}
  /\ KeepsItsOwn(Downgrades[27])
<1>1. PICK P : P = Downgrades[27]
  OBVIOUS
<1>2. /\ DOMAIN P = 1..8 /\ Len(P) = 8
      /\ P[1] = Create("venue_types", {}, {})
      /\ P[2] = Add({Column("venue_types", "name")})
      /\ P[3] = Insert({Seed("venue_types")})
      /\ P[4] = Create("venue_venue_types", {"venues", "venue_types"}, {})
      /\ P[5] = Add({Column("venue_groups", "primary_venue_type_id"),
           ForeignKey("venue_groups", "venue_types")})
      /\ P[6] = Add({Column("service_catalog", "applies_to_venue_type_id"),
           ForeignKey("service_catalog", "venue_types")})
      /\ P[7] = Remove({Index("venues", "venue_type")})
      /\ P[8] = Remove(VenueTypeColumns \cup VenueTypeChecks)
  BY <1>1 DEF Downgrades, VenueTypeEnumDown
<1>3. \A i : i \in 1..8 <=> i \in {1, 2, 3, 4, 5, 6, 7, 8}
  OBVIOUS
<1>4. /\ \A i \in {7, 8} : P[i].do = "remove"
      /\ \A i \in {1, 2, 4, 5, 6} : P[i].do = "add"
      /\ P[3].do = "insert"
      /\ P[1].what = Made("venue_types", {}, {})
      /\ P[2].what = {Column("venue_types", "name")}
      /\ P[4].what = Made("venue_venue_types", {"venues", "venue_types"}, {})
      /\ P[5].what = {Column("venue_groups", "primary_venue_type_id"),
           ForeignKey("venue_groups", "venue_types")}
      /\ P[6].what = {Column("service_catalog", "applies_to_venue_type_id"),
           ForeignKey("service_catalog", "venue_types")}
  BY <1>2, Statements
<1>5. ASSUME NEW o
      PROVE  /\ Hits(P[7].what, o) <=> Is(o, "index", "venues", "venue_type")
             /\ Hits(P[8].what, o) <=> Is(o, "column", "venues", "venue_type")
                  \/ Is(o, "column", "venue_groups", "primary_venue_type")
                  \/ Is(o, "column", "service_catalog", "applies_to_venue_type")
                  \/ Is(o, "check", "venues", "venue_type")
                  \/ Is(o, "check", "venue_groups", "primary_venue_type")
                  \/ Is(o, "check", "service_catalog", "applies_to_venue_type")
  <2>1. /\ P[7].what = {Index("venues", "venue_type")}
        /\ P[8].what = VenueTypeColumns \cup VenueTypeChecks
    BY <1>2, Statements
  <2>2. /\ Hits(P[7].what, o) <=> Is(o, "index", "venues", "venue_type")
        /\ Hits(P[8].what, o) <=> Is(o, "column", "venues", "venue_type")
             \/ Is(o, "column", "venue_groups", "primary_venue_type")
             \/ Is(o, "column", "service_catalog", "applies_to_venue_type")
             \/ Is(o, "check", "venues", "venue_type")
             \/ Is(o, "check", "venue_groups", "primary_venue_type")
             \/ Is(o, "check", "service_catalog", "applies_to_venue_type")
    BY <2>1, HitsSets
  <2>3. QED  BY <2>2
<1>6. ASSUME NEW o
      PROVE  Hits(Done(Downgrades[27], "remove"), o) <=>
                 \/ Is(o, "index", "venues", "venue_type")
                 \/ Is(o, "column", "venues", "venue_type")
                 \/ Is(o, "column", "venue_groups", "primary_venue_type")
                 \/ Is(o, "column", "service_catalog", "applies_to_venue_type")
                 \/ Is(o, "check", "venues", "venue_type")
                 \/ Is(o, "check", "venue_groups", "primary_venue_type")
                 \/ Is(o, "check", "service_catalog", "applies_to_venue_type")
  <2>1. Hits(Done(Downgrades[27], "remove"), o) <=> Hits(Done(P, "remove"), o)
    BY <1>1
  <2>2. Hits(Done(Downgrades[27], "remove"), o) <=> \E i \in {7, 8} : Hits(P[i].what, o)
    BY <2>1, <1>2, <1>3, <1>4, HitsDone
  <2>3. QED  BY <2>2, <1>5
<1>7. Done(Downgrades[27], "add") =
        Made("venue_types", {}, {}) \cup {Column("venue_types", "name")}
              \cup Made("venue_venue_types", {"venues", "venue_types"}, {})
              \cup {Column("venue_groups", "primary_venue_type_id"),
                ForeignKey("venue_groups", "venue_types")}
              \cup {Column("service_catalog", "applies_to_venue_type_id"),
                ForeignKey("service_catalog", "venue_types")}
  <2>1. \A o : o \in Done(Downgrades[27], "add") <=> \E i \in {1, 2, 4, 5, 6} : o \in P[i].what
    BY <1>1, <1>2, <1>3, <1>4, InDone
  <2>2. QED  BY <2>1, <1>4
<1>8. KeepsItsOwn(P)
  <2>1. \A o \in P[1].what : o.table = "venue_types"
    BY <1>4, MadeHas
  <2>2. \A o \in P[2].what : o.table = "venue_types"
    BY <1>4, ColumnIs
  <2>3. \A o \in P[4].what : o.table = "venue_venue_types"
    BY <1>4, MadeHas
  <2>4. \A o \in P[5].what : o.name \in {"primary_venue_type_id", "venue_types"}
    BY <1>4, ColumnIs, KeyIs
  <2>5. \A o \in P[6].what : o.name \in {"applies_to_venue_type_id", "venue_types"}
    BY <1>4, ColumnIs, KeyIs
  <2>6. ASSUME NEW i \in {1, 2, 4, 5, 6}, NEW j \in {7, 8}, i < j, NEW o \in P[i].what
        PROVE  ~Hits(P[j].what, o)
    BY <2>6, <1>5, <2>1, <2>2, <2>3, <2>4, <2>5 DEF Is
  <2>7. \A i, j \in 1..8 : i < j /\ P[i].do = "add" /\ P[j].do = "remove" =>
                i \in {1, 2, 4, 5, 6} /\ j \in {7, 8}
    BY <1>3, <1>4
  <2>8. QED  BY <1>2, <2>6, <2>7 DEF KeepsItsOwn
<1>9. QED  BY <1>1, <1>6, <1>7, <1>8

LEMMA Up28 ==
  /\ \A o : ~Takes(28, o)
  /\ Added(28) =
       {Check("regions", "code", RegionCodes)}
  /\ KeepsItsOwn(Upgrades[28])
<1>1. PICK P : P = Upgrades[28]
  OBVIOUS
<1>2. /\ DOMAIN P = 1..1 /\ Len(P) = 1
      /\ P[1] = Add({Check("regions", "code", RegionCodes)})
  BY <1>1 DEF Upgrades, UniqueRegionCodeUp
<1>3. \A i : i \in 1..1 <=> i \in {1}
  OBVIOUS
<1>4. /\ \A i \in {1} : P[i].do = "add"
      /\ P[1].what = {Check("regions", "code", RegionCodes)}
  BY <1>2, Statements
<1>6. ASSUME NEW o
      PROVE  ~Takes(28, o)
  <2>1. Takes(28, o) <=> Hits(Done(P, "remove"), o)
    BY <1>1 DEF Takes, Hits
  <2>2. Takes(28, o) <=> \E i \in {} : Hits(P[i].what, o)
    BY <2>1, <1>2, <1>3, <1>4, HitsDone
  <2>3. QED  BY <2>2
<1>7. Added(28) =
        {Check("regions", "code", RegionCodes)}
  <2>1. \A o : o \in Added(28) <=> \E i \in {1} : o \in P[i].what
    BY <1>1, <1>2, <1>3, <1>4, InDone DEF Added
  <2>2. QED  BY <2>1, <1>4
<1>8. KeepsItsOwn(P)
  BY <1>2, <1>3, <1>4 DEF KeepsItsOwn
<1>9. QED  BY <1>1, <1>6, <1>7, <1>8

LEMMA Down28 ==
  /\ \A o : Hits(Done(Downgrades[28], "remove"), o) <=>
           \/ Is(o, "check", "regions", "code")
  /\ Done(Downgrades[28], "add") =
       {}
  /\ KeepsItsOwn(Downgrades[28])
<1>1. PICK P : P = Downgrades[28]
  OBVIOUS
<1>2. /\ DOMAIN P = 1..1 /\ Len(P) = 1
      /\ P[1] = Remove({Check("regions", "code", {})})
  BY <1>1 DEF Downgrades, UniqueRegionCodeDown
<1>3. \A i : i \in 1..1 <=> i \in {1}
  OBVIOUS
<1>4. /\ \A i \in {1} : P[i].do = "remove"
  BY <1>2, Statements
<1>5. ASSUME NEW o
      PROVE  /\ Hits(P[1].what, o) <=> Is(o, "check", "regions", "code")
  BY <1>2, RemoveHits
<1>6. ASSUME NEW o
      PROVE  Hits(Done(Downgrades[28], "remove"), o) <=>
                 \/ Is(o, "check", "regions", "code")
  <2>1. Hits(Done(Downgrades[28], "remove"), o) <=> Hits(Done(P, "remove"), o)
    BY <1>1
  <2>2. Hits(Done(Downgrades[28], "remove"), o) <=> \E i \in {1} : Hits(P[i].what, o)
    BY <2>1, <1>2, <1>3, <1>4, HitsDone
  <2>3. QED  BY <2>2, <1>5
<1>7. Done(Downgrades[28], "add") =
        {}
  <2>1. \A o : o \in Done(Downgrades[28], "add") <=> \E i \in {} : o \in P[i].what
    BY <1>1, <1>2, <1>3, <1>4, InDone
  <2>2. QED  BY <2>1, <1>4
<1>8. KeepsItsOwn(P)
  BY <1>2, <1>3, <1>4 DEF KeepsItsOwn
<1>9. QED  BY <1>1, <1>6, <1>7, <1>8

LEMMA Up31 ==
  /\ \A o : Takes(31, o) <=>
           \/ Is(o, "check", "users", "identity")
  /\ Added(31) =
       {Column("users", "telegram_id"), Check("users", "telegram_id", {"once"})}
              \cup {AnyIdentity}
  /\ KeepsItsOwn(Upgrades[31])
<1>1. PICK P : P = Upgrades[31]
  OBVIOUS
<1>2. /\ DOMAIN P = 1..3 /\ Len(P) = 3
      /\ P[1] = Add({Column("users", "telegram_id"), Check("users", "telegram_id", {"once"})})
      /\ P[2] = Remove({PhoneOrEmail})
      /\ P[3] = Add({AnyIdentity})
  BY <1>1 DEF Upgrades, TelegramUp
<1>3. \A i : i \in 1..3 <=> i \in {1, 2, 3}
  OBVIOUS
<1>4. /\ \A i \in {2} : P[i].do = "remove"
      /\ \A i \in {1, 3} : P[i].do = "add"
      /\ P[1].what = {Column("users", "telegram_id"), Check("users", "telegram_id", {"once"})}
      /\ P[3].what = {AnyIdentity}
  BY <1>2, Statements
<1>5. ASSUME NEW o
      PROVE  /\ Hits(P[2].what, o) <=> Is(o, "check", "users", "identity")
  BY <1>2, RemoveHits DEF PhoneOrEmail
<1>6. ASSUME NEW o
      PROVE  Takes(31, o) <=>
                 \/ Is(o, "check", "users", "identity")
  <2>1. Takes(31, o) <=> Hits(Done(P, "remove"), o)
    BY <1>1 DEF Takes, Hits
  <2>2. Takes(31, o) <=> \E i \in {2} : Hits(P[i].what, o)
    BY <2>1, <1>2, <1>3, <1>4, HitsDone
  <2>3. QED  BY <2>2, <1>5
<1>7. Added(31) =
        {Column("users", "telegram_id"), Check("users", "telegram_id", {"once"})}
              \cup {AnyIdentity}
  <2>1. \A o : o \in Added(31) <=> \E i \in {1, 3} : o \in P[i].what
    BY <1>1, <1>2, <1>3, <1>4, InDone DEF Added
  <2>2. QED  BY <2>1, <1>4
<1>8. KeepsItsOwn(P)
  <2>1. \A o \in P[1].what : o.name = "telegram_id"
    BY <1>4, ColumnIs, CheckIs
  <2>2. ASSUME NEW i \in {1}, NEW j \in {2}, i < j, NEW o \in P[i].what
        PROVE  ~Hits(P[j].what, o)
    BY <2>2, <1>5, <2>1 DEF Is
  <2>3. \A i, j \in 1..3 : i < j /\ P[i].do = "add" /\ P[j].do = "remove" =>
                i \in {1} /\ j \in {2}
    BY <1>3, <1>4
  <2>4. QED  BY <1>2, <2>2, <2>3 DEF KeepsItsOwn
<1>9. QED  BY <1>1, <1>6, <1>7, <1>8

LEMMA Down31 ==
  /\ \A o : Hits(Done(Downgrades[31], "remove"), o) <=>
           \/ Is(o, "check", "users", "identity") \/ Is(o, "check", "users", "telegram_id")
           \/ Is(o, "column", "users", "telegram_id")
  /\ Done(Downgrades[31], "add") =
       {PhoneOrEmail}
  /\ KeepsItsOwn(Downgrades[31])
<1>1. PICK P : P = Downgrades[31]
  OBVIOUS
<1>2. /\ DOMAIN P = 1..5 /\ Len(P) = 5
      /\ P[1] = Delete({TelegramGuest}, OfTelegramGuests)
      /\ P[2] = Remove({AnyIdentity})
      /\ P[3] = Add({PhoneOrEmail})
      /\ P[4] = Remove({Check("users", "telegram_id", {})})
      /\ P[5] = Remove({Column("users", "telegram_id")})
  BY <1>1 DEF Downgrades, TelegramDown
<1>3. \A i : i \in 1..5 <=> i \in {1, 2, 3, 4, 5}
  OBVIOUS
<1>4. /\ \A i \in {2, 4, 5} : P[i].do = "remove"
      /\ \A i \in {3} : P[i].do = "add"
      /\ P[1].do = "delete"
      /\ P[3].what = {PhoneOrEmail}
  BY <1>2, Statements
<1>5. ASSUME NEW o
      PROVE  /\ Hits(P[2].what, o) <=> Is(o, "check", "users", "identity")
             /\ Hits(P[4].what, o) <=> Is(o, "check", "users", "telegram_id")
             /\ Hits(P[5].what, o) <=> Is(o, "column", "users", "telegram_id")
  <2>1. /\ \A t, c, v : Hits(Remove({Check(t, c, v)}).what, o) <=> Is(o, "check", t, c)
        /\ \A t, c : Hits(Remove({Column(t, c)}).what, o) <=> Is(o, "column", t, c)
    BY RemoveHits
  <2>2. Hits(P[2].what, o) <=> Is(o, "check", "users", "identity")
    BY <1>2, <2>1 DEF AnyIdentity
  <2>3. Hits(P[4].what, o) <=> Is(o, "check", "users", "telegram_id")
    BY <1>2, <2>1
  <2>4. Hits(P[5].what, o) <=> Is(o, "column", "users", "telegram_id")
    BY <1>2, <2>1
  <2>5. QED  BY <2>2, <2>3, <2>4
<1>6. ASSUME NEW o
      PROVE  Hits(Done(Downgrades[31], "remove"), o) <=>
                 \/ Is(o, "check", "users", "identity") \/ Is(o, "check", "users", "telegram_id")
                 \/ Is(o, "column", "users", "telegram_id")
  <2>1. Hits(Done(Downgrades[31], "remove"), o) <=> Hits(Done(P, "remove"), o)
    BY <1>1
  <2>2. Hits(Done(Downgrades[31], "remove"), o) <=> \E i \in {2, 4, 5} : Hits(P[i].what, o)
    BY <2>1, <1>2, <1>3, <1>4, HitsDone
  <2>3. QED  BY <2>2, <1>5
<1>7. Done(Downgrades[31], "add") =
        {PhoneOrEmail}
  <2>1. \A o : o \in Done(Downgrades[31], "add") <=> \E i \in {3} : o \in P[i].what
    BY <1>1, <1>2, <1>3, <1>4, InDone
  <2>2. QED  BY <2>1, <1>4
<1>8. KeepsItsOwn(P)
  <2>1. \A o \in P[3].what : o.name = "identity"
    BY <1>4, CheckIs DEF PhoneOrEmail
  <2>2. ASSUME NEW i \in {3}, NEW j \in {4, 5}, i < j, NEW o \in P[i].what
        PROVE  ~Hits(P[j].what, o)
    BY <2>2, <1>5, <2>1 DEF Is
  <2>3. \A i, j \in 1..5 : i < j /\ P[i].do = "add" /\ P[j].do = "remove" =>
                i \in {3} /\ j \in {4, 5}
    BY <1>3, <1>4
  <2>4. QED  BY <1>2, <2>2, <2>3 DEF KeepsItsOwn
<1>9. QED  BY <1>1, <1>6, <1>7, <1>8
-----------------------------------------------------------------------------
(* Up to the twentieth revision, a way back drops what the way up has made.   *)

\* A statement of the way back from r, which touches nothing older than r.
Undoes(st, r) ==
    /\ st.do \notin {"add", "insert"}
    /\ st.do = "remove" => \A o : Hits(st.what, o) =>
           \/ Birth(o.table) = r
           \/ o.kind = "key" /\ Birth(o.name) = r
           \/ r = 13 /\ Is(o, "key", "promo_code_redemptions", "user_subscriptions")

UndoesAll(r) ==
    /\ \A i \in 1..Len(Downgrades[r]) : Undoes(Downgrades[r][i], r)
    /\ \A t : Birth(t) = r => \E i \in 1..Len(Downgrades[r]) : \E I : Downgrades[r][i] = Drop(t, I)

LEMMA DropUndoes ==
  ASSUME NEW t, NEW I
  PROVE  Undoes(Drop(t, I), Birth(t))
<1>1. Drop(t, I).do = "remove"
  BY Statements
<1>2. \A o : Hits(Drop(t, I).what, o) <=> o.table = t
  BY RemoveHits
<1>3. QED  BY <1>1, <1>2 DEF Undoes

LEMMA KeyUndoes ==
  ASSUME NEW t, NEW q, NEW r,
         Birth(q) = r \/ (r = 13 /\ t = "promo_code_redemptions" /\ q = "user_subscriptions")
  PROVE  Undoes(Remove({ForeignKey(t, q)}), r)
<1>1. Remove({ForeignKey(t, q)}).do = "remove"
  BY Statements
<1>2. \A o : Hits(Remove({ForeignKey(t, q)}).what, o) <=> Is(o, "key", t, q)
  BY RemoveHits
<1>3. QED  BY <1>1, <1>2 DEF Undoes, Is

LEMMA WaysBackUndo == \A r \in 1..20 : UndoesAll(r)
<1>1. UndoesAll(1)
  <2>1. Downgrades[1] = ExtensionsDown
    BY DEF Downgrades
  <2>2. QED  BY <2>1 DEF UndoesAll, ExtensionsDown, Birth
<1>2. UndoesAll(19)
  <2>1. Downgrades[19] = ReferenceDataDown
    BY DEF Downgrades
  <2>2. QED  BY <2>1, Statements DEF UndoesAll, Undoes, ReferenceDataDown, Birth
<1>3. UndoesAll(2)
  <2>1. Downgrades[2] = LocalizationDown
    BY DEF Downgrades
  <2>2. QED  BY <2>1, DropUndoes DEF UndoesAll, LocalizationDown, Birth
<1>4. UndoesAll(3)
  <2>1. Downgrades[3] = GeoDown
    BY DEF Downgrades
  <2>2. QED  BY <2>1, DropUndoes DEF UndoesAll, GeoDown, Birth
<1>5. UndoesAll(4)
  <2>1. Downgrades[4] = AuthDown
    BY DEF Downgrades
  <2>2. QED  BY <2>1, DropUndoes, KeyUndoes DEF UndoesAll, AuthDown, Birth
<1>6. UndoesAll(5)
  <2>1. Downgrades[5] = CatalogDown
    BY DEF Downgrades
  <2>2. QED  BY <2>1, DropUndoes DEF UndoesAll, CatalogDown, Birth
<1>7. UndoesAll(6)
  <2>1. Downgrades[6] = VenueGroupsDown
    BY DEF Downgrades
  <2>2. QED  BY <2>1, DropUndoes DEF UndoesAll, VenueGroupsDown, Birth
<1>8. UndoesAll(7)
  <2>1. Downgrades[7] = VenuesDown
    BY DEF Downgrades
  <2>2. QED  BY <2>1, DropUndoes DEF UndoesAll, VenuesDown, Birth
<1>9. UndoesAll(8)
  <2>1. Downgrades[8] = StaffDown
    BY DEF Downgrades
  <2>2. QED  BY <2>1, DropUndoes DEF UndoesAll, StaffDown, Birth
<1>10. UndoesAll(9)
  <2>1. Downgrades[9] = MenuDown
    BY DEF Downgrades
  <2>2. QED  BY <2>1, DropUndoes DEF UndoesAll, MenuDown, Birth
<1>11. UndoesAll(10)
  <2>1. Downgrades[10] = ServicesDown
    BY DEF Downgrades
  <2>2. QED  BY <2>1, DropUndoes DEF UndoesAll, ServicesDown, Birth
<1>12. UndoesAll(11)
  <2>1. Downgrades[11] = PromotionsDown
    BY DEF Downgrades
  <2>2. QED  BY <2>1, DropUndoes DEF UndoesAll, PromotionsDown, Birth
<1>13. UndoesAll(12)
  <2>1. Downgrades[12] = SubscriptionsDown
    BY DEF Downgrades
  <2>2. QED  BY <2>1, DropUndoes DEF UndoesAll, SubscriptionsDown, Birth
<1>14. UndoesAll(13)
  <2>1. Downgrades[13] = BookingsDown
    BY DEF Downgrades
  <2>2. QED  BY <2>1, DropUndoes, KeyUndoes DEF UndoesAll, BookingsDown, Birth
<1>15. UndoesAll(14)
  <2>1. Downgrades[14] = OrdersDown
    BY DEF Downgrades
  <2>2. QED  BY <2>1, DropUndoes DEF UndoesAll, OrdersDown, Birth
<1>16. UndoesAll(15)
  <2>1. Downgrades[15] = PaymentsDown
    BY DEF Downgrades
  <2>2. QED  BY <2>1, DropUndoes DEF UndoesAll, PaymentsDown, Birth
<1>17. UndoesAll(16)
  <2>1. Downgrades[16] = ReviewsDown
    BY DEF Downgrades
  <2>2. QED  BY <2>1, DropUndoes DEF UndoesAll, ReviewsDown, Birth
<1>18. UndoesAll(17)
  <2>1. Downgrades[17] = EngagementDown
    BY DEF Downgrades
  <2>2. QED  BY <2>1, DropUndoes DEF UndoesAll, EngagementDown, Birth
<1>19. UndoesAll(18)
  <2>1. Downgrades[18] = AnalyticsDown
    BY DEF Downgrades
  <2>2. QED  BY <2>1, DropUndoes DEF UndoesAll, AnalyticsDown, Birth
<1>20. UndoesAll(20)
  <2>1. Downgrades[20] = SmsMessagesDown
    BY DEF Downgrades
  <2>2. QED  BY <2>1, DropUndoes DEF UndoesAll, SmsMessagesDown, Birth
<1>21. \A r \in 1..20 : r \in {1, 2, 3, 4, 5, 6, 7, 8, 9, 10, 11, 12, 13, 14, 15, 16, 17, 18, 19, 20}
  OBVIOUS
<1>22. QED
  BY ONLY <1>1, <1>2, <1>3, <1>4, <1>5, <1>6, <1>7, <1>8, <1>9, <1>10, <1>11, <1>12, <1>13, <1>14,
            <1>15, <1>16, <1>17, <1>18, <1>19, <1>20, <1>21

\* Three revisions leave the schema as it is.
LEMMA UpQuiet ==
  /\ Added(23) = {} /\ Added(29) = {} /\ Added(30) = {}
  /\ \A o : ~Takes(23, o) /\ ~Takes(29, o) /\ ~Takes(30, o)
  /\ KeepsItsOwn(Upgrades[23]) /\ KeepsItsOwn(Upgrades[29]) /\ KeepsItsOwn(Upgrades[30])
<1>1. /\ Upgrades[23] = <<Insert({Seed("staff_role_permissions")})>>
      /\ Upgrades[29] = <<Insert(RegionRows)>> /\ Upgrades[30] = <<>>
  BY DEF Upgrades, RolePermissionsUp, RegionsUp, AmenityNamesUp
<1>2. \A x : \A i \in DOMAIN <<Insert(x)>> : <<Insert(x)>>[i].do = "insert"
  BY Statements
<1>3. \A x : \A kind \in {"add", "remove"} : Done(<<Insert(x)>>, kind) = {} /\ Done(<<>>, kind) = {}
  BY <1>2 DEF Done
<1>4. \A x : KeepsItsOwn(<<Insert(x)>>)
  BY <1>2 DEF KeepsItsOwn
<1>5. KeepsItsOwn(<<>>)
  BY DEF KeepsItsOwn
<1>6. \A o : ~Hits({}, o)
  BY DEF Hits, Tables
<1>7. \A r \in {23, 29, 30} : Done(Upgrades[r], "add") = {} /\ Done(Upgrades[r], "remove") = {}
  BY <1>1, <1>3
<1>8. \A r \in {23, 29, 30} : \A o : ~Takes(r, o)
  BY <1>6, <1>7 DEF Takes, Hits
<1>9. Added(23) = {} /\ Added(29) = {} /\ Added(30) = {}
  BY <1>7 DEF Added
<1>10. QED  BY <1>1, <1>4, <1>5, <1>8, <1>9

LEMMA DownQuiet ==
  ASSUME NEW r \in {23, 29, 30}
  PROVE  /\ Done(Downgrades[r], "add") = {} /\ KeepsItsOwn(Downgrades[r])
         /\ \A o : ~Hits(Done(Downgrades[r], "remove"), o)
<1>1. /\ Downgrades[23] = <<Delete({Seed("staff_role_permissions")}, {})>>
      /\ Downgrades[29] = <<Delete({Seed("districts")}, OfDistricts),
                            Delete({Row("regions", "code", "seeded")}, {})>>
      /\ Downgrades[30] = <<>>
  BY DEF Downgrades, RolePermissionsDown, RegionsDown, AmenityNamesDown
<1>2. \A i \in DOMAIN Downgrades[r] : Downgrades[r][i].do = "delete"
  BY <1>1, Statements
<1>3. DOMAIN Downgrades[r] = 1..Len(Downgrades[r])
  <2>1. r \in 1..31
    OBVIOUS
  <2>2. QED  BY <2>1, ProgramsAreSequences
<1>4. Done(Downgrades[r], "add") = {} /\ Done(Downgrades[r], "remove") = {}
  BY <1>2 DEF Done
<1>5. KeepsItsOwn(Downgrades[r])
  BY <1>2, <1>3 DEF KeepsItsOwn
<1>6. QED  BY <1>4, <1>5 DEF Hits, Tables

LEMMA TakesNothing ==
  ASSUME NEW r \in 1..20
  PROVE  KeepsItsOwn(Upgrades[r]) /\ \A o : ~Takes(r, o)
<1>1. \A i \in 1..Len(Upgrades[r]) : Upgrades[r][i].do # "remove"
  BY RevisionsFit DEF FitsAll, Fits
<1>2. DOMAIN Upgrades[r] = 1..Len(Upgrades[r])
  <2>1. r \in 1..31
    OBVIOUS
  <2>2. QED  BY <2>1, ProgramsAreSequences
<1>3. Done(Upgrades[r], "remove") = {}
  BY <1>1, <1>2 DEF Done
<1>4. QED  BY <1>1, <1>3 DEF KeepsItsOwn, Takes, Tables

LEMMA Births == \A t : Birth(t) \in Nat /\ (Birth(t) > 20 => Birth(t) = 32)
  BY DEF Birth

LEMMA AddedFits ==
  ASSUME NEW r \in 1..20, NEW o \in Added(r)
  PROVE  Fit(o, r)
<1>1. DOMAIN Upgrades[r] = 1..Len(Upgrades[r])
  <2>1. r \in 1..31
    OBVIOUS
  <2>2. QED  BY <2>1, ProgramsAreSequences
<1>2. PICK i \in DOMAIN Upgrades[r] : Upgrades[r][i].do = "add" /\ o \in Upgrades[r][i].what
  BY InDone DEF Added
<1>3. QED  BY <1>1, <1>2, RevisionsFit DEF FitsAll, Fits

\* Nothing stands on a table that is still to come.
LEMMA NothingEarly ==
  ASSUME NEW r \in 0..20, NEW o \in Intended(r)
  PROVE  Birth(o.table) <= r /\ (o.kind = "key" => Birth(o.name) <= r)
<1>1. PICK f \in 1..r : o \in Added(f)
  BY IntendedObjects
<1>2. f \in 1..20 /\ f <= r
  OBVIOUS
<1>3. Fit(o, f)
  BY <1>1, <1>2, AddedFits
<1>4. o \in LaterKeys(f) => Birth(o.table) <= f
  <2>1. /\ ForeignKey("user_recent_locations", "users").table = "user_recent_locations"
        /\ ForeignKey("promo_code_redemptions", "bookings").table = "promo_code_redemptions"
        /\ ForeignKey("promo_code_redemptions", "user_subscriptions").table = "promo_code_redemptions"
    BY KeyIs
  <2>2. Birth("user_recent_locations") = 3 /\ Birth("promo_code_redemptions") = 11
    BY DEF Birth
  <2>3. QED  BY <2>1, <2>2 DEF LaterKeys
<1>5. Birth(o.table) \in Nat /\ Birth(o.name) \in Nat
  BY Births
<1>6. QED  BY <1>2, <1>3, <1>4, <1>5 DEF Fit

\* What is known of a passing object at a revision: who added it, and that
\* nobody has taken it since.
LEMMA PassingHistory ==
  ASSUME NEW r \in 0..30, NEW o \in Intended(r), Passing(o)
  PROVE  \E f \in 1..r : o \in Passes[f] /\ \A b \in (f + 1)..r : ~Takes(b, o)
<1>1. PICK f \in 1..r : o \in Added(f) /\ \A b \in (f + 1)..r : ~Takes(b, o)
  BY IntendedObjects
<1>2. CASE f \in 1..20
  BY <1>1, <1>2, AddedFits DEF Fit
<1>3. CASE f \in 21..30
  <2>1. f \in {21, 22, 23, 24, 25, 26, 27, 28, 29, 30}
    BY <1>3
  <2>2. /\ Added(21) = Passes[21] /\ Added(22) = Passes[22] /\ Added(24) = Passes[24]
        /\ Added(25) = Passes[25] /\ Added(26) = Passes[26] /\ Added(27) = Passes[27]
        /\ Added(28) = Passes[28]
    BY Up21, Up22, Up24, Up25, Up26, Up27, Up28 DEF Passes
  <2>3. Added(23) = {} /\ Added(29) = {} /\ Added(30) = {}
    BY UpQuiet
  <2>4. QED  BY <1>1, <2>1, <2>2, <2>3
<1>4. f \in 1..20 \/ f \in 21..30
  OBVIOUS
<1>5. QED  BY <1>2, <1>3, <1>4
-----------------------------------------------------------------------------
(* The passing objects, one by one.                                           *)

LEMMA AddsWhat ==
  ASSUME NEW program, NEW i \in DOMAIN program
  PROVE  /\ \A x : program[i] = Add(x) => x \subseteq Done(program, "add")
         /\ \A t, R, I : program[i] = Create(t, R, I) => Made(t, R, I) \subseteq Done(program, "add")
<1>1. program[i].do = "add" => program[i].what \subseteq Done(program, "add")
  BY InDone
<1>2. QED  BY <1>1, Statements

LEMMA KeyMade == \A t, R, I : \A q \in R : ForeignKey(t, q) \in Made(t, R, I)
  BY DEF Made

\* What is listed as passing is what the revisions add.
LEMMA PassesAreAdded == \A f \in 1..30 : Passes[f] \subseteq Added(f)
<1>1. Passes[4] \subseteq Added(4)
  <2>1. PICK P : P = Upgrades[4]
    OBVIOUS
  <2>2. DOMAIN P = 1..9
    BY <2>1 DEF Upgrades, AuthUsers, AuthSessions
  <2>3. /\ P[2] = Add({Column("users", "phone_verified_at"), Column("users", "email_verified_at"),
                 Check("users", "identity", {"phone", "email"})})
        /\ P[3] = Create("auth_identities", {"users"}, {"user_id"})
        /\ P[4] = Add({Check("auth_identities", "provider", {"apple", "google"})})
        /\ P[7] = Create("verification_codes", {"users"}, {"destination_purpose_created_at"})
    BY <2>1 DEF Upgrades, AuthUsers, AuthSessions
  <2>4. {2, 3, 4, 7} \subseteq 1..9
    OBVIOUS
  <2>5. /\ {Column("users", "phone_verified_at"), Column("users", "email_verified_at"),
                 Check("users", "identity", {"phone", "email"})} \subseteq Done(P, "add")
        /\ Made("auth_identities", {"users"}, {"user_id"}) \subseteq Done(P, "add")
        /\ {Check("auth_identities", "provider", {"apple", "google"})} \subseteq Done(P, "add")
        /\ Made("verification_codes", {"users"}, {"destination_purpose_created_at"})
             \subseteq Done(P, "add")
    BY <2>2, <2>3, <2>4, AddsWhat
  <2>6. QED  BY <2>1, <2>5 DEF Added, Passes, VerifiedColumns, PhoneOrEmail, AnyProvider
<1>2. Passes[5] \subseteq Added(5)
  <2>1. PICK P : P = Upgrades[5]
    OBVIOUS
  <2>2. DOMAIN P = 1..4
    BY <2>1 DEF Upgrades, CatalogUp
  <2>3. /\ P[2] = Create("venue_types", {}, {})
        /\ P[3] = Create("amenity_translations", {"amenities", "languages"}, {})
        /\ P[4] = Create("venue_type_translations", {"languages", "venue_types"}, {})
    BY <2>1 DEF Upgrades, CatalogUp
  <2>4. {2, 3, 4} \subseteq 1..4
    OBVIOUS
  <2>5. /\ Made("venue_types", {}, {}) \subseteq Done(P, "add")
        /\ Made("amenity_translations", {"amenities", "languages"}, {}) \subseteq Done(P, "add")
        /\ Made("venue_type_translations", {"languages", "venue_types"}, {}) \subseteq Done(P, "add")
    BY <2>2, <2>3, <2>4, AddsWhat
  <2>6. QED  BY <2>1, <2>5 DEF Added, Passes, Texts
<1>3. Passes[6] \subseteq Added(6)
  <2>1. PICK P : P = Upgrades[6]
    OBVIOUS
  <2>2. DOMAIN P = 1..3
    BY <2>1 DEF Upgrades, VenueGroupsUp
  <2>3. /\ P[1] = Create("venue_groups", {"users", "venue_types"}, {"owner_id"})
        /\ P[2] = Add({Column("venue_groups", "primary_venue_type_id")})
        /\ P[3] = Create("venue_group_translations", {"languages", "venue_groups"}, {})
    BY <2>1 DEF Upgrades, VenueGroupsUp
  <2>4. {1, 2, 3} \subseteq 1..3
    OBVIOUS
  <2>5. /\ Made("venue_groups", {"users", "venue_types"}, {"owner_id"}) \subseteq Done(P, "add")
        /\ {Column("venue_groups", "primary_venue_type_id")} \subseteq Done(P, "add")
        /\ Made("venue_group_translations", {"languages", "venue_groups"}, {}) \subseteq Done(P, "add")
    BY <2>2, <2>3, <2>4, AddsWhat
  <2>6. QED  BY <2>1, <2>5, KeyMade DEF Added, Passes, Texts
<1>4. Passes[7] \subseteq Added(7)
  <2>1. PICK P : P = Upgrades[7]
    OBVIOUS
  <2>2. DOMAIN P = 1..12
    BY <2>1 DEF Upgrades, VenuesItself, VenuesCalendar, VenuesFloor
  <2>3. /\ P[6] = Create("venue_translations", {"languages", "venues"}, {"name_trgm"})
        /\ P[7] = Create("venue_venue_types", {"venues", "venue_types"}, {})
        /\ P[11] = Create("venue_zone_translations", {"languages", "venue_zones"}, {})
    BY <2>1 DEF Upgrades, VenuesItself, VenuesCalendar, VenuesFloor
  <2>4. {6, 7, 11} \subseteq 1..12
    OBVIOUS
  <2>5. /\ Made("venue_translations", {"languages", "venues"}, {"name_trgm"}) \subseteq Done(P, "add")
        /\ Made("venue_venue_types", {"venues", "venue_types"}, {}) \subseteq Done(P, "add")
        /\ Made("venue_zone_translations", {"languages", "venue_zones"}, {}) \subseteq Done(P, "add")
    BY <2>2, <2>3, <2>4, AddsWhat
  <2>6. QED  BY <2>1, <2>5 DEF Added, Passes, Texts
<1>5. Passes[8] \subseteq Added(8)
  <2>1. PICK P : P = Upgrades[8]
    OBVIOUS
  <2>2. DOMAIN P = 1..7
    BY <2>1 DEF Upgrades, StaffRoles, StaffPeople
  <2>3. /\ P[4] = Create("staff_role_translations", {"languages", "staff_roles"}, {})
        /\ P[6] = Add({Column("staff_invitations", "sms_sent_at"),
                 Column("staff_invitations", "sms_provider_id")})
    BY <2>1 DEF Upgrades, StaffRoles, StaffPeople
  <2>4. {4, 6} \subseteq 1..7
    OBVIOUS
  <2>5. /\ Made("staff_role_translations", {"languages", "staff_roles"}, {}) \subseteq Done(P, "add")
        /\ {Column("staff_invitations", "sms_sent_at"),
                 Column("staff_invitations", "sms_provider_id")} \subseteq Done(P, "add")
    BY <2>2, <2>3, <2>4, AddsWhat
  <2>6. QED  BY <2>1, <2>5 DEF Added, Passes, Texts, SmsColumns
<1>6. Passes[9] \subseteq Added(9)
  <2>1. PICK P : P = Upgrades[9]
    OBVIOUS
  <2>2. DOMAIN P = 1..8
    BY <2>1 DEF Upgrades, MenuDishes, MenuVariants
  <2>3. /\ P[2] = Create("menu_category_translations", {"languages", "menu_categories"}, {})
        /\ P[5] = Create("menu_item_translations", {"languages", "menu_items"}, {"name_trgm"})
        /\ P[8] = Create("menu_item_variant_translations", {"languages", "menu_item_variants"}, {})
    BY <2>1 DEF Upgrades, MenuDishes, MenuVariants
  <2>4. {2, 5, 8} \subseteq 1..8
    OBVIOUS
  <2>5. /\ Made("menu_category_translations", {"languages", "menu_categories"}, {})
             \subseteq Done(P, "add")
        /\ Made("menu_item_translations", {"languages", "menu_items"}, {"name_trgm"})
             \subseteq Done(P, "add")
        /\ Made("menu_item_variant_translations", {"languages", "menu_item_variants"}, {})
             \subseteq Done(P, "add")
    BY <2>2, <2>3, <2>4, AddsWhat
  <2>6. QED  BY <2>1, <2>5 DEF Added, Passes, Texts
<1>7. Passes[10] \subseteq Added(10)
  <2>1. PICK P : P = Upgrades[10]
    OBVIOUS
  <2>2. DOMAIN P = 1..5
    BY <2>1 DEF Upgrades, ServicesUp
  <2>3. /\ P[1] = Create("service_catalog", {"venue_types"}, {})
        /\ P[2] = Add({Column("service_catalog", "applies_to_venue_type_id")})
        /\ P[3] = Create("service_catalog_translations", {"languages", "service_catalog"}, {})
    BY <2>1 DEF Upgrades, ServicesUp
  <2>4. {1, 2, 3} \subseteq 1..5
    OBVIOUS
  <2>5. /\ Made("service_catalog", {"venue_types"}, {}) \subseteq Done(P, "add")
        /\ {Column("service_catalog", "applies_to_venue_type_id")} \subseteq Done(P, "add")
        /\ Made("service_catalog_translations", {"languages", "service_catalog"}, {})
             \subseteq Done(P, "add")
    BY <2>2, <2>3, <2>4, AddsWhat
  <2>6. QED  BY <2>1, <2>5, KeyMade DEF Added, Passes, Texts
<1>8. Passes[11] \subseteq Added(11)
  <2>1. PICK P : P = Upgrades[11]
    OBVIOUS
  <2>2. DOMAIN P = 1..7
    BY <2>1 DEF Upgrades, PromotionsUp
  <2>3. /\ P[1] = Create("banners", {}, {})
        /\ P[2] = Create("promo_codes", {}, {})
        /\ P[3] = Add({AppliesTo})
        /\ P[4] = Create("banner_translations", {"banners", "languages"}, {})
        /\ P[5] = Create("user_promo_codes", {"promo_codes", "users"}, {"user_id_status_expires_at"})
        /\ P[6] = Create("promo_code_redemptions", {"promo_codes", "users"}, {})
        /\ P[7] = Add({Column("promo_code_redemptions", "subscription_id")})
    BY <2>1 DEF Upgrades, PromotionsUp
  <2>4. {1, 2, 3, 4, 5, 6, 7} \subseteq 1..7
    OBVIOUS
  <2>5. /\ Made("banners", {}, {}) \subseteq Done(P, "add")
        /\ Made("promo_codes", {}, {}) \subseteq Done(P, "add")
        /\ {AppliesTo} \subseteq Done(P, "add")
        /\ Made("banner_translations", {"banners", "languages"}, {}) \subseteq Done(P, "add")
        /\ Made("user_promo_codes", {"promo_codes", "users"}, {"user_id_status_expires_at"})
             \subseteq Done(P, "add")
        /\ Made("promo_code_redemptions", {"promo_codes", "users"}, {}) \subseteq Done(P, "add")
        /\ {Column("promo_code_redemptions", "subscription_id")} \subseteq Done(P, "add")
    BY <2>2, <2>3, <2>4, AddsWhat
  <2>6. QED  BY <2>1, <2>5 DEF Added, Passes, Texts
<1>9. Passes[12] \subseteq Added(12)
  <2>1. PICK P : P = Upgrades[12]
    OBVIOUS
  <2>2. DOMAIN P = 1..3
    BY <2>1 DEF Upgrades, SubscriptionsUp
  <2>3. /\ P[1] = Create("subscription_plans", {}, {})
        /\ P[2] = Create("subscription_plan_translations", {"languages", "subscription_plans"}, {})
        /\ P[3] = Create("user_subscriptions", {"subscription_plans", "users"}, {"user_id"})
    BY <2>1 DEF Upgrades, SubscriptionsUp
  <2>4. {1, 2, 3} \subseteq 1..3
    OBVIOUS
  <2>5. /\ Made("subscription_plans", {}, {}) \subseteq Done(P, "add")
        /\ Made("subscription_plan_translations", {"languages", "subscription_plans"}, {})
             \subseteq Done(P, "add")
        /\ Made("user_subscriptions", {"subscription_plans", "users"}, {"user_id"})
             \subseteq Done(P, "add")
    BY <2>2, <2>3, <2>4, AddsWhat
  <2>6. QED  BY <2>1, <2>5 DEF Added, Passes, Texts
<1>10. Passes[13] \subseteq Added(13)
  <2>1. PICK P : P = Upgrades[13]
    OBVIOUS
  <2>2. DOMAIN P = 1..10
    BY <2>1 DEF Upgrades, BookingsItself, BookingsChildren
  <2>3. /\ P[1] = Create("bookings",
             {"venue_guest_tiers", "promo_codes", "venue_tables", "users", "venues",
                            "venue_services"},
                    {"user_id", "venue_id_booking_date_status", "one_hall_event_per_day"})
        /\ P[2] = Add({Column("bookings", "promo_code_id"), Column("bookings", "discount_amount")})
        /\ P[6] = Add({AnyPriceLine})
        /\ P[9] = Add({ForeignKey("promo_code_redemptions", "bookings")})
        /\ P[10] = Add({ForeignKey("promo_code_redemptions", "user_subscriptions")})
    <3>1. P[1] = Create("bookings",
            {"venue_guest_tiers", "promo_codes", "venue_tables", "users", "venues",
                            "venue_services"},
                    {"user_id", "venue_id_booking_date_status", "one_hall_event_per_day"})
      BY <2>1 DEF Upgrades, BookingsItself, BookingsChildren
    <3>2. P[2] = Add({Column("bookings", "promo_code_id"), Column("bookings", "discount_amount")})
      BY <2>1 DEF Upgrades, BookingsItself, BookingsChildren
    <3>3. P[6] = Add({AnyPriceLine})
      BY <2>1 DEF Upgrades, BookingsItself, BookingsChildren
    <3>4. P[9] = Add({ForeignKey("promo_code_redemptions", "bookings")})
      BY <2>1 DEF Upgrades, BookingsItself, BookingsChildren
    <3>5. P[10] = Add({ForeignKey("promo_code_redemptions", "user_subscriptions")})
      BY <2>1 DEF Upgrades, BookingsItself, BookingsChildren
    <3>6. QED  BY <3>1, <3>2, <3>3, <3>4, <3>5
  <2>4. {1, 2, 6, 9, 10} \subseteq 1..10
    OBVIOUS
  <2>5. /\ Made("bookings", {"venue_guest_tiers", "promo_codes", "venue_tables", "users", "venues",
                            "venue_services"},
                    {"user_id", "venue_id_booking_date_status", "one_hall_event_per_day"})
                      \subseteq Done(P, "add")
        /\ {Column("bookings", "promo_code_id"), Column("bookings", "discount_amount")}
             \subseteq Done(P, "add")
        /\ {AnyPriceLine} \subseteq Done(P, "add")
        /\ {ForeignKey("promo_code_redemptions", "bookings")} \subseteq Done(P, "add")
        /\ {ForeignKey("promo_code_redemptions", "user_subscriptions")} \subseteq Done(P, "add")
    BY <2>2, <2>3, <2>4, AddsWhat
  <2>6. QED  BY <2>1, <2>5, KeyMade DEF Added, Passes
<1>11. Passes[15] \subseteq Added(15)
  <2>1. PICK P : P = Upgrades[15]
    OBVIOUS
  <2>2. DOMAIN P = 1..4
    BY <2>1 DEF Upgrades, PaymentsUp
  <2>3. /\ P[1] = Create("payment_cards", {"users"}, {"user_id"})
        /\ P[2] = Create("payments", {"bookings", "payment_cards", "user_subscriptions", "users"},
             {"user_id"})
        /\ P[3] = Add({Column("payments", "subscription_id")} \cup PaymentChecks)
        /\ P[4] = Create("refunds", {"payments"}, {"payment_id"})
    BY <2>1 DEF Upgrades, PaymentsUp
  <2>4. {1, 2, 3, 4} \subseteq 1..4
    OBVIOUS
  <2>5. /\ Made("payment_cards", {"users"}, {"user_id"}) \subseteq Done(P, "add")
        /\ Made("payments", {"bookings", "payment_cards", "user_subscriptions", "users"},
             {"user_id"}) \subseteq Done(P, "add")
        /\ {Column("payments", "subscription_id")} \cup PaymentChecks \subseteq Done(P, "add")
        /\ Made("refunds", {"payments"}, {"payment_id"}) \subseteq Done(P, "add")
    BY <2>2, <2>3, <2>4, AddsWhat
  <2>6. QED  BY <2>1, <2>5 DEF Added, Passes
<1>12. Passes[20] \subseteq Added(20)
  <2>1. PICK P : P = Upgrades[20]
    OBVIOUS
  <2>2. DOMAIN P = 1..1
    BY <2>1 DEF Upgrades, SmsMessagesUp
  <2>3. /\ P[1] = Create("sms_messages", {"users"}, {"phone_created_at", "status_created_at"})
    BY <2>1 DEF Upgrades, SmsMessagesUp
  <2>4. {1} \subseteq 1..1
    OBVIOUS
  <2>5. /\ Made("sms_messages", {"users"}, {"phone_created_at", "status_created_at"})
             \subseteq Done(P, "add")
    BY <2>2, <2>3, <2>4, AddsWhat
  <2>6. QED  BY <2>1, <2>5 DEF Added, Passes
<1>13. /\ Passes[1] = {} /\ Passes[2] = {} /\ Passes[3] = {} /\ Passes[14] = {} /\ Passes[16] = {}
       /\ Passes[17] = {} /\ Passes[18] = {} /\ Passes[19] = {} /\ Passes[23] = {} /\ Passes[26] = {}
       /\ Passes[29] = {} /\ Passes[30] = {}
  BY DEF Passes
<1>14. /\ Passes[21] \subseteq Added(21) /\ Passes[22] \subseteq Added(22)
       /\ Passes[24] \subseteq Added(24) /\ Passes[25] \subseteq Added(25)
       /\ Passes[27] \subseteq Added(27) /\ Passes[28] \subseteq Added(28)
  BY Up21, Up22, Up24, Up25, Up27, Up28 DEF Passes
<1>15. \A f \in 1..30 : f \in {1, 2, 3, 4, 5, 6, 7, 8, 9, 10, 11, 12, 13, 14, 15, 16, 17, 18, 19, 20,
                            21, 22, 23, 24, 25, 26, 27, 28, 29, 30}
  OBVIOUS
<1>16. QED
  BY ONLY <1>1, <1>2, <1>3, <1>4, <1>5, <1>6, <1>7, <1>8, <1>9, <1>10, <1>11, <1>12, <1>13, <1>14, <1>15

\* The tables that the passing objects of each revision belong to.
PassingAt == <<
    {}, {}, {}, {"users", "auth_identities", "verification_codes"},
    {"venue_types", "amenity_translations", "venue_type_translations"},
    {"venue_groups", "venue_group_translations"},
    {"venue_translations", "venue_venue_types", "venue_zone_translations"},
    {"staff_invitations", "staff_role_translations"},
    {"menu_category_translations", "menu_item_translations", "menu_item_variant_translations"},
    {"service_catalog", "service_catalog_translations"},
    {"banners", "promo_codes", "banner_translations", "user_promo_codes",
         "promo_code_redemptions"},
    {"subscription_plans", "subscription_plan_translations", "user_subscriptions"},
    {"bookings", "booking_price_lines", "promo_code_redemptions"}, {},
    {"payment_cards", "payments", "refunds"}, {}, {}, {}, {}, {"sms_messages"},
    {"payments", "promo_codes"},
    {"amenities", "venue_types", "menu_categories", "menu_items", "menu_item_variants",
         "banners", "service_catalog", "staff_roles", "venue_groups", "venues", "venue_zones"},
    {}, {"auth_identities"}, {"booking_price_lines"}, {},
    {"venues", "venue_groups", "service_catalog"}, {"regions"}, {}, {}, {}>>

LEMMA TheirTables ==
  /\ \A t, R, I : \A o \in Made(t, R, I) : o.table = t
  /\ \A t, r : ForeignKey(t, r).table = t
  /\ \A t, i : Index(t, i).table = t
  /\ \A t, c : Column(t, c).table = t
  /\ \A t, c, v : Check(t, c, v).table = t
  BY MadeHas, KeyIs, IndexIs, ColumnIs, CheckIs

LEMMA PassingTablesKnown == \A f \in 1..30 : \A o \in Passes[f] : o.table \in PassingAt[f]
<1>1. \A o \in Passes[4] : o.table \in PassingAt[4]
  BY TheirTables DEF Passes, PassingAt, VerifiedColumns, PhoneOrEmail, AnyProvider
<1>2. \A o \in Passes[5] : o.table \in PassingAt[5]
  BY TheirTables DEF Passes, PassingAt, Texts
<1>3. \A o \in Passes[6] : o.table \in PassingAt[6]
  BY TheirTables DEF Passes, PassingAt, Texts
<1>4. \A o \in Passes[7] : o.table \in PassingAt[7]
  BY TheirTables DEF Passes, PassingAt, Texts
<1>5. \A o \in Passes[8] : o.table \in PassingAt[8]
  BY TheirTables DEF Passes, PassingAt, Texts, SmsColumns
<1>6. \A o \in Passes[9] : o.table \in PassingAt[9]
  BY TheirTables DEF Passes, PassingAt, Texts
<1>7. \A o \in Passes[10] : o.table \in PassingAt[10]
  BY TheirTables DEF Passes, PassingAt, Texts
<1>8. \A o \in Passes[11] : o.table \in PassingAt[11]
  BY TheirTables DEF Passes, PassingAt, Texts, AppliesTo
<1>9. \A o \in Passes[12] : o.table \in PassingAt[12]
  BY TheirTables DEF Passes, PassingAt, Texts
<1>10. \A o \in Passes[13] : o.table \in PassingAt[13]
  BY TheirTables DEF Passes, PassingAt, AnyPriceLine
<1>11. \A o \in Passes[15] : o.table \in PassingAt[15]
  BY TheirTables DEF Passes, PassingAt, PaymentChecks
<1>12. \A o \in Passes[20] : o.table \in PassingAt[20]
  BY TheirTables DEF Passes, PassingAt
<1>13. \A o \in Passes[21] : o.table \in PassingAt[21]
  BY TheirTables DEF Passes, PassingAt, BookingPaymentChecks, AppliesToBookings
<1>14. \A o \in Passes[22] : o.table \in PassingAt[22]
  <2>1. \A o \in MovedTexts : \E m \in Moves : o.table = m[1]
    BY TheirTables DEF MovedTexts
  <2>2. \A m \in Moves : m[1] \in PassingAt[22]
    BY DEF Moves, PassingAt
  <2>3. \A o \in SearchIndexes : o.table \in PassingAt[22]
    BY TheirTables DEF SearchIndexes, PassingAt
  <2>4. Passes[22] = MovedTexts \cup SearchIndexes
    BY DEF Passes
  <2>5. QED  BY <2>1, <2>2, <2>3, <2>4
<1>15. \A o \in Passes[24] : o.table \in PassingAt[24]
  BY TheirTables DEF Passes, PassingAt, GoogleOnly
<1>16. \A o \in Passes[25] : o.table \in PassingAt[25]
  BY TheirTables DEF Passes, PassingAt, UndiscountedLine
<1>17. \A o \in Passes[27] : o.table \in PassingAt[27]
  BY TheirTables DEF Passes, PassingAt, VenueTypeColumns, VenueTypeChecks
<1>18. \A o \in Passes[28] : o.table \in PassingAt[28]
  BY TheirTables DEF Passes, PassingAt
<1>19. /\ Passes[1] = {} /\ Passes[2] = {} /\ Passes[3] = {} /\ Passes[14] = {} /\ Passes[16] = {}
       /\ Passes[17] = {} /\ Passes[18] = {} /\ Passes[19] = {} /\ Passes[23] = {} /\ Passes[26] = {}
       /\ Passes[29] = {} /\ Passes[30] = {}
  BY DEF Passes
<1>20. \A f \in 1..30 : f \in {1, 2, 3, 4, 5, 6, 7, 8, 9, 10, 11, 12, 13, 14, 15, 16, 17, 18, 19, 20,
                            21, 22, 23, 24, 25, 26, 27, 28, 29, 30}
  OBVIOUS
<1>21. QED
  BY ONLY <1>1, <1>2, <1>3, <1>4, <1>5, <1>6, <1>7, <1>8, <1>9, <1>10, <1>11, <1>12, <1>13, <1>14,
            <1>15, <1>16, <1>17, <1>18, <1>19, <1>20
-----------------------------------------------------------------------------
(* A way back turns the schema of a revision into that of the one before.     *)

Reverses(r) ==
    /\ Done(Downgrades[r], "add") \subseteq Intended(r - 1)
    /\ \A o \in Added(r) : Hits(Done(Downgrades[r], "remove"), o)
    /\ \A o \in Intended(r - 1) \ LostIndexes :
           Takes(r, o) \/ Hits(Done(Downgrades[r], "remove"), o) => o \in Done(Downgrades[r], "add")

\* Which revisions add the passing objects of a table.
LEMMA PassingWhen ==
  ASSUME NEW f \in 1..30, NEW o \in Passes[f]
  PROVE  /\ o.table = "payments" => f \in {15, 21}
         /\ o.table = "promo_codes" => f \in {11, 21}
         /\ o.table = "promo_code_redemptions" => f \in {11, 13}
         /\ o.table \in PlanTables => f = 12
         /\ o.table \in CodeTables => f \in {4, 20}
         /\ o.table = "auth_identities" => f \in {4, 24}
         /\ o.table = "users" => f = 4
         /\ o.table = "staff_invitations" => f = 8
         /\ o.table \in MoneyTables => f \in {11, 13, 15, 21, 22}
         /\ o.table = "bookings" => f = 13
         /\ o.table = "booking_price_lines" => f \in {13, 25}
         /\ o.table \in TypeTables => f \in {5, 7, 22}
         /\ o.table = "service_catalog" => f \in {10, 22, 27}
         /\ o.table = "venue_groups" => f \in {6, 22, 27}
         /\ o.table = "venues" => f \in {22, 27}
         /\ o.table = "menu_items" => f = 22
         /\ o.table = "regions" => f = 28
         /\ o.table \in TextTables => f \in {5, 6, 7, 8, 9, 10, 11}
         /\ (\E m \in Moves : o.table = m[1]) => f \in {5, 6, 10, 11, 22, 27}
<1>1. o.table \in PassingAt[f]
  BY PassingTablesKnown
<1>2. f \in {1, 2, 3, 4, 5, 6, 7, 8, 9, 10, 11, 12, 13, 14, 15, 16, 17, 18, 19, 20,
             21, 22, 23, 24, 25, 26, 27, 28, 29, 30}
  OBVIOUS
<1>3. PICK t : t = o.table
  OBVIOUS
<1>4. /\ t = "payments" => f \in {15, 21}
      /\ t = "promo_codes" => f \in {11, 21}
      /\ t = "promo_code_redemptions" => f \in {11, 13}
      /\ t \in PlanTables => f = 12
      /\ t \in CodeTables => f \in {4, 20}
      /\ t = "auth_identities" => f \in {4, 24}
      /\ t = "users" => f = 4
      /\ t = "staff_invitations" => f = 8
      /\ t \in MoneyTables => f \in {11, 13, 15, 21, 22}
      /\ t = "bookings" => f = 13
  BY <1>1, <1>2, <1>3 DEF PassingAt, PlanTables, CodeTables, MoneyTables
<1>5. /\ t = "booking_price_lines" => f \in {13, 25}
      /\ t \in TypeTables => f \in {5, 7, 22}
      /\ t = "service_catalog" => f \in {10, 22, 27}
      /\ t = "venue_groups" => f \in {6, 22, 27}
      /\ t = "venues" => f \in {22, 27}
      /\ t = "menu_items" => f = 22
      /\ t = "regions" => f = 28
  BY <1>1, <1>2, <1>3 DEF PassingAt, TypeTables
<1>6. t \in TextTables => f \in {5, 6, 7, 8, 9, 10, 11}
  BY <1>1, <1>2, <1>3 DEF PassingAt, TextTables
<1>7. ASSUME NEW m \in Moves, t = m[1]  PROVE f \in {5, 6, 10, 11, 22, 27}
  <2>1. t \in {"amenities", "venue_types", "menu_categories", "menu_items", "menu_item_variants",
               "banners", "service_catalog", "staff_roles", "venue_groups", "venues", "venue_zones"}
    BY <1>7 DEF Moves
  <2>2. QED  BY <2>1, <1>1, <1>2, <1>3 DEF PassingAt
<1>8. QED  BY <1>3, <1>4, <1>5, <1>6, <1>7

\* Only seven revisions take anything.
LEMMA TakersAreFew ==
  ASSUME NEW b \in 1..31, b \notin {21, 22, 24, 25, 26, 27, 31}
  PROVE  \A o : ~Takes(b, o)
<1>1. b \in 1..20 \/ b \in {23, 28, 29, 30}
  OBVIOUS
<1>2. QED  BY <1>1, TakesNothing, UpQuiet, Up28

\* A passing object is there while none of them takes it.
LEMMA Kept ==
  ASSUME NEW r \in 20..30, NEW f \in 1..r, NEW o \in Passes[f],
         \A b \in {21, 22, 24, 25, 26, 27} : f < b /\ b <= r => ~Takes(b, o)
  PROVE  o \in Intended(r)
<1>1. f \in 1..30
  OBVIOUS
<1>2. o \in Added(f)
  BY <1>1, PassesAreAdded
<1>3. ASSUME NEW b \in (f + 1)..r  PROVE ~Takes(b, o)
  <2>1. b \in 1..31 /\ f < b /\ b <= r /\ b # 31
    OBVIOUS
  <2>2. QED  BY <2>1, TakersAreFew
<1>4. r \in 0..31
  OBVIOUS
<1>5. QED  BY <1>2, <1>3, <1>4, IntendedObjects

LEMMA EarlyAddNothing ==
  ASSUME NEW r \in 1..20
  PROVE  Done(Downgrades[r], "add") = {} /\ KeepsItsOwn(Downgrades[r])
<1>1. DOMAIN Downgrades[r] = 1..Len(Downgrades[r])
  <2>1. r \in 1..31
    OBVIOUS
  <2>2. QED  BY <2>1, ProgramsAreSequences
<1>2. \A i \in 1..Len(Downgrades[r]) : Downgrades[r][i].do # "add"
  BY WaysBackUndo DEF UndoesAll, Undoes
<1>3. QED  BY <1>1, <1>2 DEF Done, KeepsItsOwn

LEMMA EarlyAreUndone ==
  ASSUME NEW r \in 1..20, NEW o \in Added(r)
  PROVE  Hits(Done(Downgrades[r], "remove"), o)
<1>1. DOMAIN Downgrades[r] = 1..Len(Downgrades[r])
  <2>1. r \in 1..31
    OBVIOUS
  <2>2. QED  BY <2>1, ProgramsAreSequences
<1>2. Fit(o, r)
  BY AddedFits
<1>3. CASE Birth(o.table) = r
  <2>1. PICK i \in 1..Len(Downgrades[r]) : \E I : Downgrades[r][i] = Drop(o.table, I)
    BY <1>3, WaysBackUndo DEF UndoesAll
  <2>2. PICK I : Downgrades[r][i] = Drop(o.table, I)
    BY <2>1
  <2>3. Drop(o.table, I).do = "remove"
    BY Statements
  <2>4. Hits(Drop(o.table, I).what, o)
    BY RemoveHits
  <2>5. QED  BY <1>1, <2>2, <2>3, <2>4, HitsDone
<1>4. ASSUME NEW i \in 1..Len(Downgrades[r]), NEW t, NEW q,
             Downgrades[r][i] = Remove({ForeignKey(t, q)}), o = ForeignKey(t, q)
      PROVE  Hits(Done(Downgrades[r], "remove"), o)
  <2>1. Remove({ForeignKey(t, q)}).do = "remove"
    BY Statements
  <2>2. Is(o, "key", t, q)
    BY <1>4, KeyIs DEF Is
  <2>3. Hits(Remove({ForeignKey(t, q)}).what, o)
    BY <2>2, RemoveHits
  <2>4. QED  BY <1>1, <1>4, <2>1, <2>3, HitsDone
<1>5. CASE o \in LaterKeys(r)
  <2>1. CASE r = 4
    <3>1. o = ForeignKey("user_recent_locations", "users")
      BY <1>5, <2>1 DEF LaterKeys
    <3>2. /\ Downgrades[4][1] = Remove({ForeignKey("user_recent_locations", "users")})
          /\ 1 \in 1..Len(Downgrades[4])
      BY DEF Downgrades, AuthDown
    <3>3. QED  BY <1>4, <2>1, <3>1, <3>2
  <2>2. CASE r = 13
    <3>1. \/ o = ForeignKey("promo_code_redemptions", "bookings")
          \/ o = ForeignKey("promo_code_redemptions", "user_subscriptions")
      BY <1>5, <2>2 DEF LaterKeys
    <3>2. /\ Downgrades[13][1] = Remove({ForeignKey("promo_code_redemptions", "user_subscriptions")})
          /\ Downgrades[13][2] = Remove({ForeignKey("promo_code_redemptions", "bookings")})
          /\ 1 \in 1..Len(Downgrades[13]) /\ 2 \in 1..Len(Downgrades[13])
      BY DEF Downgrades, BookingsDown
    <3>3. QED  BY <1>4, <2>2, <3>1, <3>2
  <2>3. CASE r # 4 /\ r # 13
    BY <1>5, <2>3 DEF LaterKeys
  <2>4. QED  BY <2>1, <2>2, <2>3
<1>6. QED  BY <1>2, <1>3, <1>5 DEF Fit

LEMMA EarlySpareTheRest ==
  ASSUME NEW r \in 1..20, NEW o \in Intended(r - 1)
  PROVE  ~Hits(Done(Downgrades[r], "remove"), o)
<1> SUFFICES ASSUME Hits(Done(Downgrades[r], "remove"), o)  PROVE FALSE
  OBVIOUS
<1>1. DOMAIN Downgrades[r] = 1..Len(Downgrades[r])
  <2>1. r \in 1..31
    OBVIOUS
  <2>2. QED  BY <2>1, ProgramsAreSequences
<1>2. PICK i \in 1..Len(Downgrades[r]) :
        Downgrades[r][i].do = "remove" /\ Hits(Downgrades[r][i].what, o)
  BY <1>1, HitsDone
<1>3. \/ Birth(o.table) = r
      \/ o.kind = "key" /\ Birth(o.name) = r
      \/ r = 13 /\ Is(o, "key", "promo_code_redemptions", "user_subscriptions")
  BY <1>2, WaysBackUndo DEF UndoesAll, Undoes
<1>4. r - 1 \in 0..20 /\ r - 1 \in 0..30
  OBVIOUS
<1>5. Birth(o.table) <= r - 1 /\ (o.kind = "key" => Birth(o.name) <= r - 1)
  BY <1>4, NothingEarly
<1>6. Birth(o.table) \in Nat /\ Birth(o.name) \in Nat
  BY Births
<1>7. r = 13 /\ Is(o, "key", "promo_code_redemptions", "user_subscriptions")
  BY <1>3, <1>5, <1>6
<1>8. Passing(o)
  BY <1>7 DEF Is, Passing, PassingTargets
<1>9. PICK f \in 1..12 : o \in Passes[f]
  BY <1>4, <1>7, <1>8, PassingHistory
<1>10. f = 11
  <2>1. f \in 1..30
    OBVIOUS
  <2>2. o.table = "promo_code_redemptions"
    BY <1>7 DEF Is
  <2>3. f \in {11, 13}
    BY ONLY <1>9, <2>1, <2>2, PassingWhen, ZenonT(60)
  <2>4. QED  BY <2>3
<1>11. o \in Passes[11] /\ o.kind = "key" /\ o.table = "promo_code_redemptions" /\ o.name = "user_subscriptions"
  BY <1>7, <1>9, <1>10 DEF Is
<1>12. /\ \A R, I : o \in Made("promo_code_redemptions", R, I) => "user_subscriptions" \in R
       /\ \A t, R, I : o \in Made(t, R, I) => t = "promo_code_redemptions"
  BY <1>11, MadeHas
<1>13. o # AppliesTo /\ o # Column("promo_code_redemptions", "subscription_id")
  BY <1>11, ColumnIs, CheckIs DEF AppliesTo
<1>14. QED  BY <1>11, <1>12, <1>13 DEF Passes, Texts

LEMMA EarlyReverse == \A r \in 1..20 : Reverses(r)
  BY EarlyAddNothing, EarlyAreUndone, EarlySpareTheRest, TakesNothing DEF Reverses
-----------------------------------------------------------------------------
(* The eleven ways back from a revision after the twentieth.                  *)

LEMMA MovedOf ==
  ASSUME NEW o \in MovedTexts
  PROVE  /\ o.kind = "column"
         /\ o.table = "banners" => o \in {Column("banners", "title"), Column("banners", "subtitle")}
         /\ o.table = "venue_types" => o = Column("venue_types", "name")
         /\ o.table = "service_catalog" => o.name = "name"
         /\ o.table = "venue_groups" => o.name \in {"name", "description"}
         /\ o.table = "venues" => o.name \in {"name", "description", "tagline"}
         /\ o.table \in MoneyTables => o.table = "banners"
         /\ o.table \in TypeTables => o.table = "venue_types"
<1>1. PICK m \in Moves : o \in {Column(m[1], c) : c \in m[3]}
  BY DEF MovedTexts
<1>2. PICK c \in m[3] : o = Column(m[1], c)
  BY <1>1
<1>3. o.kind = "column" /\ o.table = m[1] /\ o.name = c
  BY <1>2, ColumnIs
<1>4. /\ m[1] = "banners" => m[3] = {"title", "subtitle"}
      /\ m[1] = "venue_types" => m[3] = {"name"}
      /\ m[1] = "service_catalog" => m[3] = {"name"}
      /\ m[1] = "venue_groups" => m[3] = {"name", "description"}
      /\ m[1] = "venues" => m[3] = {"name", "description", "tagline"}
  BY DEF Moves
<1>5. /\ m[1] \in MoneyTables => m[1] = "banners"
      /\ m[1] \in TypeTables => m[1] = "venue_types"
  BY DEF Moves, MoneyTables, TypeTables
<1>6. o.table = "banners" => o \in {Column("banners", "title"), Column("banners", "subtitle")}
  BY <1>2, <1>3, <1>4
<1>7. o.table = "venue_types" => o = Column("venue_types", "name")
  BY <1>2, <1>3, <1>4
<1>8. QED  BY <1>3, <1>4, <1>5, <1>6, <1>7

LEMMA MovedAmong ==
  /\ Column("banners", "title") \in MovedTexts /\ Column("banners", "subtitle") \in MovedTexts
  /\ Column("venue_types", "name") \in MovedTexts
<1>1. ASSUME NEW m \in Moves, NEW c \in m[3]  PROVE Column(m[1], c) \in MovedTexts
  BY DEF MovedTexts
<1>2. /\ <<"banners", "banner_translations", {"title", "subtitle"}>> \in Moves
      /\ <<"venue_types", "venue_type_translations", {"name"}>> \in Moves
  BY DEF Moves
<1>3. \A a, b, X : <<a, b, X>>[1] = a /\ <<a, b, X>>[3] = X
  OBVIOUS
<1>4. \A a, b, X, c : <<a, b, X>> \in Moves /\ c \in X => Column(a, c) \in MovedTexts
  BY <1>1, <1>3
<1>5. QED  BY <1>2, <1>4

\* What a late revision adds, its way back removes.
LEMMA LateAreUndone ==
  \A r \in 21..31 : \A o \in Added(r) : Hits(Done(Downgrades[r], "remove"), o)
<1>1. \A o \in Added(21) : Hits(Done(Downgrades[21], "remove"), o)
  BY Up21, Down21, CheckIs DEF BookingPaymentChecks, AppliesToBookings, Is
<1>2. \A o \in Added(22) : Hits(Done(Downgrades[22], "remove"), o)
  <2>1. ASSUME NEW o \in MovedTexts
        PROVE  \E m \in Moves : o.kind = "column" /\ o.table = m[1] /\ o.name \in m[3]
    <3>1. PICK m \in Moves : o \in {Column(m[1], c) : c \in m[3]}
      BY DEF MovedTexts
    <3>2. PICK c \in m[3] : o = Column(m[1], c)
      BY <3>1
    <3>3. o.kind = "column" /\ o.table = m[1] /\ o.name = c
      BY <3>2, ColumnIs
    <3>4. QED  BY <3>3
  <2>2. ASSUME NEW o \in SearchIndexes
        PROVE  Is(o, "index", "venues", "name_trgm") \/ Is(o, "index", "menu_items", "name_trgm")
    BY IndexIs DEF SearchIndexes, Is
  <2>3. Added(22) = MovedTexts \cup SearchIndexes
    BY Up22
  <2>4. QED  BY <2>1, <2>2, <2>3, Down22
<1>3. \A o \in Added(24) : Hits(Done(Downgrades[24], "remove"), o)
  BY Up24, Down24, CheckIs DEF GoogleOnly, Is
<1>4. \A o \in Added(25) : Hits(Done(Downgrades[25], "remove"), o)
  BY Up25, Down25, CheckIs DEF UndiscountedLine, Is
<1>5. \A o \in Added(27) : Hits(Done(Downgrades[27], "remove"), o)
  BY Up27, Down27, CheckIs, ColumnIs, IndexIs DEF VenueTypeColumns, VenueTypeChecks, Is
<1>6. \A o \in Added(28) : Hits(Done(Downgrades[28], "remove"), o)
  BY Up28, Down28, CheckIs DEF Is
<1>7. \A o \in Added(31) : Hits(Done(Downgrades[31], "remove"), o)
  BY Up31, Down31, CheckIs, ColumnIs DEF AnyIdentity, Is
<1>8. Added(23) = {} /\ Added(26) = {} /\ Added(29) = {} /\ Added(30) = {}
  BY UpQuiet, Up26
<1>9. \A r \in 21..31 : r \in {21, 22, 23, 24, 25, 26, 27, 28, 29, 30, 31}
  OBVIOUS
<1>10. QED
  BY ONLY <1>1, <1>2, <1>3, <1>4, <1>5, <1>6, <1>7, <1>8, <1>9

\* Whom the taking revisions spare.
LEMMA Spared ==
  ASSUME NEW o
  PROVE  /\ o.table \notin PlanTables \cup {"payments", "promo_codes", "promo_code_redemptions"} =>
              ~Takes(21, o)
         /\ o.table \notin TextTables => ~Takes(22, o)
         /\ o.table \notin CodeTables \cup {"auth_identities", "users", "staff_invitations"} =>
              ~Takes(24, o)
         /\ o.table \notin MoneyTables \cup {"bookings", "booking_price_lines"} => ~Takes(25, o)
         /\ o.table # "auth_identities" => ~Takes(26, o)
<1>1. o.table \notin PlanTables \cup {"payments", "promo_codes", "promo_code_redemptions"} =>
        ~Takes(21, o)
  BY Up21 DEF Is
<1>2. o.table \notin TextTables => ~Takes(22, o)
  BY Up22
<1>3. o.table \notin CodeTables \cup {"auth_identities", "users", "staff_invitations"} => ~Takes(24, o)
  BY Up24 DEF Is
<1>4. o.table \notin MoneyTables \cup {"bookings", "booking_price_lines"} => ~Takes(25, o)
  BY Up25 DEF Is
<1>5. o.table # "auth_identities" => ~Takes(26, o)
  BY Up26
<1>6. QED  BY <1>1, <1>2, <1>3, <1>4, <1>5

\* What a way back adds had been there.
LEMMA PlansHadBeen == Done(Downgrades[21], "add") \subseteq Intended(20)
<1>1. ASSUME NEW f \in 1..20, NEW o \in Passes[f]  PROVE o \in Intended(20)
  <2>1. 20 \in 20..30
    OBVIOUS
  <2>2. \A b \in {21, 22, 24, 25, 26, 27} : ~(f < b /\ b <= 20)
    OBVIOUS
  <2>3. QED  BY <2>1, <2>2, Kept
<1>2. /\ Made("subscription_plans", {}, {}) \subseteq Passes[12]
      /\ Made("user_subscriptions", {"subscription_plans", "users"}, {"user_id"}) \subseteq Passes[12]
      /\ Made("subscription_plan_translations", {"languages", "subscription_plans"}, {})
           \subseteq Passes[12]
  BY DEF Passes, Texts
<1>3. /\ Column("payments", "subscription_id") \in Passes[15] /\ PaymentChecks \subseteq Passes[15]
      /\ ForeignKey("payments", "user_subscriptions") \in Passes[15]
  BY KeyMade DEF Passes
<1>4. Column("promo_code_redemptions", "subscription_id") \in Passes[11] /\ AppliesTo \in Passes[11]
  BY DEF Passes
<1>5. ForeignKey("promo_code_redemptions", "user_subscriptions") \in Passes[13]
  BY DEF Passes
<1>6. Passes[11] \cup Passes[12] \cup Passes[13] \cup Passes[15] \subseteq Intended(20)
  BY <1>1
<1>7. QED  BY <1>2, <1>3, <1>4, <1>5, <1>6, Down21

LEMMA TextsHadBeen == Done(Downgrades[22], "add") \subseteq Intended(21)
<1>1. ASSUME NEW f \in 1..20, NEW o \in Passes[f], o.table \in TextTables  PROVE o \in Intended(21)
  <2>1. 21 \in 20..30 /\ f \in 1..21
    OBVIOUS
  <2>2. o.table \notin PlanTables \cup {"payments", "promo_codes", "promo_code_redemptions"}
    BY <1>1 DEF TextTables, PlanTables
  <2>3. \A b \in {21, 22, 24, 25, 26, 27} : f < b /\ b <= 21 => ~Takes(b, o)
    BY <2>2, Spared
  <2>4. QED  BY <2>1, <2>3, Kept
<1>2. ASSUME NEW f \in 1..20, NEW t, NEW q, NEW I, Made(t, {"languages", q}, I) \subseteq Passes[f],
             t \in TextTables
      PROVE  {Relation(t), ForeignKey(t, q), ForeignKey(t, "languages")} \subseteq Intended(21)
  <2>1. {Relation(t), ForeignKey(t, q), ForeignKey(t, "languages")}
          \subseteq Made(t, {"languages", q}, I)
    BY DEF Made
  <2>2. Relation(t).table = t /\ ForeignKey(t, q).table = t /\ ForeignKey(t, "languages").table = t
    BY SMT DEF Relation, ForeignKey, Object
  <2>3. QED  BY <1>1, <1>2, <2>1, <2>2
<1>3. ASSUME NEW m \in Moves
      PROVE  \E f \in 1..20, I \in {{}, {"name_trgm"}} :
               Made(m[2], {"languages", m[1]}, I) \subseteq Passes[f]
  <2>1. m[2] = "venue_translations" =>
          m[1] = "venues" /\ Made(m[2], {"languages", m[1]}, {"name_trgm"}) \subseteq Passes[7]
    BY DEF Moves, Passes
  <2>2. m[2] = "menu_item_translations" =>
          m[1] = "menu_items" /\ Made(m[2], {"languages", m[1]}, {"name_trgm"}) \subseteq Passes[9]
    BY DEF Moves, Passes
  <2>3. m[2] \notin {"venue_translations", "menu_item_translations"} =>
          \E f \in {5, 6, 7, 8, 9, 10, 11} : Texts(m[2], m[1]) \subseteq Passes[f]
    BY DEF Moves, Passes
  <2>4. Texts(m[2], m[1]) = Made(m[2], {"languages", m[1]}, {})
    BY DEF Texts
  <2>5. {5, 6, 7, 8, 9, 10, 11} \subseteq 1..20
    OBVIOUS
  <2>6. QED  BY <2>1, <2>2, <2>3, <2>4, <2>5
<1>4. ASSUME NEW m \in Moves
      PROVE  {Relation(m[2]), ForeignKey(m[2], m[1]), ForeignKey(m[2], "languages")}
               \subseteq Intended(21)
  <2>1. PICK f \in 1..20, I \in {{}, {"name_trgm"}} :
          Made(m[2], {"languages", m[1]}, I) \subseteq Passes[f]
    BY <1>3
  <2>2. m[2] \in TextTables
    BY MovesTexts
  <2>3. QED  BY <1>2, <2>1, <2>2
<1>5. TextObjects \subseteq Intended(21)
  BY <1>4 DEF TextObjects
<1>6. QED  BY <1>5, Down22

LEMMA CodesHadBeen == Done(Downgrades[24], "add") \subseteq Intended(23)
<1>1. ASSUME NEW f \in 1..20, NEW o \in Passes[f],
             o.table \in CodeTables \cup {"auth_identities", "users", "staff_invitations"}
      PROVE  o \in Intended(23)
  <2>1. 23 \in 20..30 /\ f \in 1..23
    OBVIOUS
  <2>2. /\ o.table \notin PlanTables \cup {"payments", "promo_codes", "promo_code_redemptions"}
        /\ o.table \notin TextTables
    BY <1>1 DEF TextTables, PlanTables, CodeTables
  <2>3. \A b \in {21, 22, 24, 25, 26, 27} : f < b /\ b <= 23 => ~Takes(b, o)
    BY <2>2, Spared
  <2>4. QED  BY <2>1, <2>3, Kept
<1>2. /\ SmsColumns \subseteq Passes[8]
      /\ VerifiedColumns \subseteq Passes[4] /\ AnyProvider \in Passes[4]
      /\ Made("verification_codes", {"users"}, {"destination_purpose_created_at"}) \subseteq Passes[4]
      /\ Made("sms_messages", {"users"}, {"phone_created_at", "status_created_at"}) \subseteq Passes[20]
  BY DEF Passes
<1>3. /\ \A o \in SmsColumns : o.table = "staff_invitations"
      /\ \A o \in VerifiedColumns : o.table = "users"
      /\ AnyProvider.table = "auth_identities"
      /\ \A R, I : \A o \in Made("verification_codes", R, I) : o.table \in CodeTables
      /\ \A R, I : \A o \in Made("sms_messages", R, I) : o.table \in CodeTables
  BY TheirTables DEF SmsColumns, VerifiedColumns, AnyProvider, CodeTables
<1>4. SmsColumns \subseteq Intended(23) /\ VerifiedColumns \subseteq Intended(23)
  BY <1>1, <1>2, <1>3
<1>5. AnyProvider \in Intended(23)
  BY <1>1, <1>2, <1>3
<1>6. Made("verification_codes", {"users"}, {"destination_purpose_created_at"}) \subseteq Intended(23)
  BY <1>1, <1>2, <1>3
<1>7. Made("sms_messages", {"users"}, {"phone_created_at", "status_created_at"}) \subseteq Intended(23)
  BY <1>1, <1>2, <1>3
<1>8. QED  BY <1>4, <1>5, <1>6, <1>7, Down24

LEMMA MoneyHadBeen == Done(Downgrades[25], "add") \subseteq Intended(24)
<1>1. ASSUME NEW f \in 1..24, NEW o \in Passes[f],
             o.table \in MoneyTables \cup {"bookings", "booking_price_lines"},
             f < 21 => ~Takes(21, o)
      PROVE  o \in Intended(24)
  <2>1. 24 \in 20..30
    OBVIOUS
  <2>2. /\ o.table \notin CodeTables \cup {"auth_identities", "users", "staff_invitations"}
        /\ o.table \notin TextTables
    BY <1>1 DEF TextTables, MoneyTables, CodeTables
  <2>3. \A b \in {21, 22, 24, 25, 26, 27} : f < b /\ b <= 24 => ~Takes(b, o)
    BY <1>1, <2>2, Spared
  <2>4. QED  BY <2>1, <2>3, Kept
<1>2. ASSUME NEW o, o.table \notin PlanTables,
        o.kind \in {"table", "index"} \/ (o.kind = "key" /\ o.name # "user_subscriptions")
      PROVE  ~Takes(21, o)
  BY <1>2, Up21 DEF Is
<1>3. ASSUME NEW f \in 1..24, NEW t \in MoneyTables, NEW R, NEW I, Made(t, R, I) \subseteq Passes[f]
      PROVE  \A o \in Made(t, R, I) : (o.kind = "key" => o.name # "user_subscriptions") =>
               o \in Intended(24)
  <2>1. t \notin PlanTables
    BY DEF MoneyTables, PlanTables
  <2>2. \A o \in Made(t, R, I) : o.table = t /\ o.kind \in {"table", "key", "index"}
    BY MadeHas
  <2>3. QED  BY <1>1, <1>2, <1>3, <2>1, <2>2
<1>4. ASSUME NEW f \in 1..24, NEW t \in MoneyTables, NEW R, NEW I, Made(t, R, I) \subseteq Passes[f],
             "user_subscriptions" \notin R
      PROVE  Made(t, R, I) \subseteq Intended(24)
  <2>1. \A o \in Made(t, R, I) : o.kind = "key" => o.name \in R
    BY MadeHas
  <2>2. QED  BY <1>3, <1>4, <2>1
<1>5. /\ Made("banners", {}, {}) \subseteq Passes[11]
      /\ Made("promo_codes", {}, {}) \subseteq Passes[11]
      /\ Made("user_promo_codes", {"promo_codes", "users"}, {"user_id_status_expires_at"})
           \subseteq Passes[11]
      /\ Made("promo_code_redemptions", {"promo_codes", "users"}, {}) \subseteq Passes[11]
      /\ Made("payment_cards", {"users"}, {"user_id"}) \subseteq Passes[15]
      /\ Made("payments", {"bookings", "payment_cards", "user_subscriptions", "users"},
           {"user_id"}) \subseteq Passes[15]
      /\ Made("refunds", {"payments"}, {"payment_id"}) \subseteq Passes[15]
  BY DEF Passes
<1>6. /\ Made("banners", {}, {}) \subseteq Intended(24)
      /\ Made("promo_codes", {}, {}) \subseteq Intended(24)
      /\ Made("user_promo_codes", {"promo_codes", "users"}, {"user_id_status_expires_at"})
           \subseteq Intended(24)
      /\ Made("promo_code_redemptions", {"promo_codes", "users"}, {}) \subseteq Intended(24)
      /\ Made("payment_cards", {"users"}, {"user_id"}) \subseteq Intended(24)
      /\ Made("refunds", {"payments"}, {"payment_id"}) \subseteq Intended(24)
  <2>1. /\ "banners" \in MoneyTables /\ "promo_codes" \in MoneyTables /\ "user_promo_codes" \in MoneyTables
        /\ "promo_code_redemptions" \in MoneyTables /\ "payment_cards" \in MoneyTables
        /\ "refunds" \in MoneyTables
    BY DEF MoneyTables
  <2>2. /\ "user_subscriptions" \notin {} /\ "user_subscriptions" \notin {"promo_codes", "users"}
        /\ "user_subscriptions" \notin {"users"} /\ "user_subscriptions" \notin {"payments"}
    OBVIOUS
  <2>3. 11 \in 1..24 /\ 15 \in 1..24
    OBVIOUS
  <2>4. QED  BY <1>4, <1>5, <2>1, <2>2, <2>3
<1>7. Made("payments", {"bookings", "payment_cards", "users"}, {"user_id"}) \subseteq Intended(24)
  <2>1. \A o \in Made("payments", {"bookings", "payment_cards", "users"}, {"user_id"}) :
          o.kind = "key" => o.name # "user_subscriptions"
    BY MadeHas
  <2>2. Made("payments", {"bookings", "payment_cards", "users"}, {"user_id"})
          \subseteq Made("payments", {"bookings", "payment_cards", "user_subscriptions", "users"},
            {"user_id"})
    BY DEF Made
  <2>3. "payments" \in MoneyTables /\ 15 \in 1..24
    BY DEF MoneyTables
  <2>4. QED  BY <1>3, <1>5, <2>1, <2>2, <2>3
<1>8. ASSUME NEW o \in {Column("banners", "title"), Column("banners", "subtitle")}
      PROVE  o \in Intended(24)
  <2>1. o \in Passes[22]
    BY MovedAmong DEF Passes
  <2>2. o.table = "banners" /\ "banners" \in MoneyTables
    BY ColumnIs DEF MoneyTables
  <2>3. 22 \in 1..24 /\ ~(22 < 21)
    OBVIOUS
  <2>4. QED  BY <1>1, <2>1, <2>2, <2>3
<1>9. ASSUME NEW o \in BookingPaymentChecks \cup {AppliesToBookings}
      PROVE  o \in Intended(24)
  <2>1. o \in Passes[21]
    BY DEF Passes
  <2>2. o.table \in {"payments", "promo_codes"}
    BY CheckIs DEF BookingPaymentChecks, AppliesToBookings
  <2>3. 21 \in 1..24 /\ ~(21 < 21)
    OBVIOUS
  <2>4. "payments" \in MoneyTables /\ "promo_codes" \in MoneyTables
    BY DEF MoneyTables
  <2>5. QED  BY <1>1, <2>1, <2>2, <2>3, <2>4
<1>10. ASSUME NEW o \in {AnyPriceLine, Column("bookings", "discount_amount"),
         Column("bookings", "promo_code_id"),
                         ForeignKey("bookings", "promo_codes")}
       PROVE  o \in Intended(24)
  <2>1. o \in Passes[13]
    BY DEF Passes
  <2>2. o.table \in {"bookings", "booking_price_lines"}
    BY CheckIs, ColumnIs, KeyIs DEF AnyPriceLine
  <2>3. ~Takes(21, o)
    BY <2>2, Spared DEF PlanTables
  <2>4. 13 \in 1..24
    OBVIOUS
  <2>5. QED  BY <1>1, <2>1, <2>2, <2>3, <2>4
<1>11. Made("promo_code_redemptions", {"bookings", "promo_codes", "users"}, {}) \subseteq Intended(24)
  <2>1. Made("promo_code_redemptions", {"bookings", "promo_codes", "users"}, {}) =
          Made("promo_code_redemptions", {"promo_codes", "users"}, {})
            \cup {ForeignKey("promo_code_redemptions", "bookings")}
    BY DEF Made
  <2>2. PICK o : o = ForeignKey("promo_code_redemptions", "bookings")
    OBVIOUS
  <2>3. o.kind = "key" /\ o.table = "promo_code_redemptions" /\ o.name = "bookings"
    BY <2>2, KeyIs
  <2>4. o \in Passes[13]
    BY <2>2 DEF Passes
  <2>5. ~Takes(21, o)
    BY <1>2, <2>3 DEF PlanTables
  <2>6. 13 \in 1..24 /\ "promo_code_redemptions" \in MoneyTables
    BY DEF MoneyTables
  <2>7. o \in Intended(24)
    BY <1>1, <2>3, <2>4, <2>5, <2>6
  <2>8. QED  BY <1>6, <2>1, <2>2, <2>7
<1>12. QED  BY <1>6, <1>7, <1>8, <1>9, <1>10, <1>11, Down25

LEMMA IdentitiesHadBeen == Done(Downgrades[26], "add") \subseteq Intended(25)
<1>1. ASSUME NEW f \in 1..25, NEW o \in Passes[f], o.table = "auth_identities", f < 24 => ~Takes(24, o)
      PROVE  o \in Intended(25)
  <2>1. 25 \in 20..30
    OBVIOUS
  <2>2. /\ o.table \notin PlanTables \cup {"payments", "promo_codes", "promo_code_redemptions"}
        /\ o.table \notin TextTables
        /\ o.table \notin MoneyTables \cup {"bookings", "booking_price_lines"}
    BY <1>1 DEF TextTables, MoneyTables, PlanTables
  <2>3. \A b \in {21, 22, 24, 25, 26, 27} : f < b /\ b <= 25 => ~Takes(b, o)
    BY <1>1, <2>2, Spared
  <2>4. QED  BY <2>1, <2>3, Kept
<1>2. ASSUME NEW o \in Made("auth_identities", {"users"}, {"user_id"})
      PROVE  o \in Intended(25)
  <2>1. o.table = "auth_identities" /\ o.kind \in {"table", "key", "index"}
    BY MadeHas
  <2>2. o \in Passes[4]
    BY DEF Passes
  <2>3. ~Takes(24, o)
    BY <2>1, Up24 DEF Is, CodeTables
  <2>4. 4 \in 1..25
    OBVIOUS
  <2>5. QED  BY <1>1, <2>1, <2>2, <2>3, <2>4
<1>3. GoogleOnly \in Intended(25)
  <2>1. GoogleOnly.table = "auth_identities"
    BY CheckIs DEF GoogleOnly
  <2>2. GoogleOnly \in Passes[24]
    BY DEF Passes
  <2>3. 24 \in 1..25 /\ ~(24 < 24)
    OBVIOUS
  <2>4. QED  BY <1>1, <2>1, <2>2, <2>3
<1>4. QED  BY <1>2, <1>3, Down26

LEMMA TypesHadBeen == Done(Downgrades[27], "add") \subseteq Intended(26)
<1>1. ASSUME NEW f \in 1..26, NEW o \in Passes[f],
             o.table \in TypeTables \cup {"venue_groups", "service_catalog"}
      PROVE  o \in Intended(26)
  <2>1. 26 \in 20..30
    OBVIOUS
  <2>2. /\ o.table \notin PlanTables \cup {"payments", "promo_codes", "promo_code_redemptions"}
        /\ o.table \notin TextTables
        /\ o.table \notin CodeTables \cup {"auth_identities", "users", "staff_invitations"}
        /\ o.table \notin MoneyTables \cup {"bookings", "booking_price_lines"}
    BY <1>1 DEF TextTables, MoneyTables, PlanTables, CodeTables, TypeTables
  <2>3. \A b \in {21, 22, 24, 25, 26, 27} : f < b /\ b <= 26 => ~Takes(b, o)
    BY <2>2, Spared
  <2>4. QED  BY <2>1, <2>3, Kept
<1>2. /\ Made("venue_types", {}, {}) \subseteq Passes[5]
      /\ Made("venue_venue_types", {"venues", "venue_types"}, {}) \subseteq Passes[7]
      /\ {Column("venue_groups", "primary_venue_type_id"), ForeignKey("venue_groups", "venue_types")}
           \subseteq Passes[6]
      /\ {Column("service_catalog", "applies_to_venue_type_id"),
           ForeignKey("service_catalog", "venue_types")}
           \subseteq Passes[10]
  BY DEF Passes
<1>3. Column("venue_types", "name") \in Passes[22]
  BY MovedAmong DEF Passes
<1>4. "venue_types" \in TypeTables /\ "venue_venue_types" \in TypeTables
  BY DEF TypeTables
<1>5. 5 \in 1..26 /\ 6 \in 1..26 /\ 7 \in 1..26 /\ 10 \in 1..26 /\ 22 \in 1..26
  OBVIOUS
<1>6. Made("venue_types", {}, {}) \subseteq Intended(26)
  BY <1>1, <1>2, <1>4, <1>5, TheirTables
<1>7. Made("venue_venue_types", {"venues", "venue_types"}, {}) \subseteq Intended(26)
  BY <1>1, <1>2, <1>4, <1>5, TheirTables
<1>8. {Column("venue_groups", "primary_venue_type_id"), ForeignKey("venue_groups", "venue_types")}
           \subseteq Intended(26)
  BY <1>1, <1>2, <1>5, TheirTables
<1>9. {Column("service_catalog", "applies_to_venue_type_id"),
        ForeignKey("service_catalog", "venue_types")}
           \subseteq Intended(26)
  BY <1>1, <1>2, <1>5, TheirTables
<1>10. Column("venue_types", "name") \in Intended(26)
  BY <1>1, <1>3, <1>4, <1>5, TheirTables
<1>11. QED  BY <1>6, <1>7, <1>8, <1>9, <1>10, Down27

LEMMA IdentityHadBeen == Done(Downgrades[31], "add") \subseteq Intended(30)
<1>1. PICK o : o = PhoneOrEmail
  OBVIOUS
<1>2. o.table = "users" /\ o.kind = "check" /\ o.name = "identity"
  BY <1>1, CheckIs DEF PhoneOrEmail
<1>3. o \in Passes[4]
  BY <1>1 DEF Passes
<1>4. /\ o.table \notin PlanTables \cup {"payments", "promo_codes", "promo_code_redemptions"}
      /\ o.table \notin TextTables /\ o.table # "auth_identities"
      /\ o.table \notin MoneyTables \cup {"bookings", "booking_price_lines"}
  BY <1>2 DEF TextTables, MoneyTables, PlanTables
<1>5. ~Takes(21, o) /\ ~Takes(22, o) /\ ~Takes(25, o) /\ ~Takes(26, o)
  BY <1>4, Spared
<1>6. ~Takes(24, o)
  BY <1>2, Up24 DEF Is, CodeTables
<1>7. ~Takes(27, o)
  BY <1>2, Up27 DEF Is, TypeTables
<1>8. 30 \in 20..30 /\ 4 \in 1..30
  OBVIOUS
<1>9. o \in Intended(30)
  BY <1>3, <1>5, <1>6, <1>7, <1>8, Kept
<1>10. QED  BY <1>1, <1>9, Down31
-----------------------------------------------------------------------------
(* What goes on the way back comes back, but for the lost indexes.            *)

LEMMA PlansComeBack ==
  ASSUME NEW o \in Intended(20), Takes(21, o) \/ Hits(Done(Downgrades[21], "remove"), o)
  PROVE  o \in Done(Downgrades[21], "add")
<1>1. \/ o.table \in PlanTables \/ Is(o, "check", "payments", "target")
      \/ Is(o, "check", "payments", "kind") \/ Is(o, "check", "promo_codes", "applies_to")
      \/ Is(o, "key", "payments", "user_subscriptions")
      \/ Is(o, "column", "payments", "subscription_id")
      \/ Is(o, "key", "promo_code_redemptions", "user_subscriptions")
      \/ Is(o, "column", "promo_code_redemptions", "subscription_id")
  BY Up21, Down21
<1>2. Passing(o)
  BY <1>1 DEF Is, Passing, PassingTables, PassingTargets
<1>3. PICK f \in 1..20 : o \in Passes[f]
  <2>1. 20 \in 0..30
    OBVIOUS
  <2>2. QED  BY <1>2, <2>1, PassingHistory
<1>4. f \in 1..30 /\ f # 21
  OBVIOUS
<1>5. /\ o.table = "payments" => f = 15
      /\ o.table = "promo_codes" => f = 11
      /\ o.table = "promo_code_redemptions" => f \in {11, 13}
      /\ o.table \in PlanTables => f = 12
  BY <1>3, <1>4, PassingWhen
<1>6. CASE o.table \in PlanTables
  <2>1. o \in Passes[12]
    BY <1>3, <1>5, <1>6
  <2>2. QED  BY <2>1, Down21 DEF Passes, Texts
<1>7. CASE o.table = "payments"
  <2>1. o \in Passes[15] /\ "payments" \notin PlanTables
    BY <1>3, <1>5, <1>7 DEF PlanTables
  <2>2. /\ o \notin Made("payment_cards", {"users"}, {"user_id"})
        /\ o \notin Made("refunds", {"payments"}, {"payment_id"})
    BY <1>7, MadeHas
  <2>3. \/ o \in Made("payments", {"bookings", "payment_cards", "user_subscriptions", "users"},
             {"user_id"})
        \/ o = Column("payments", "subscription_id") \/ o \in PaymentChecks
    BY <2>1, <2>2 DEF Passes
  <2>4. o \in Made("payments", {"bookings", "payment_cards", "user_subscriptions", "users"},
          {"user_id"}) =>
          o = ForeignKey("payments", "user_subscriptions")
    <3>1. HAVE o \in Made("payments", {"bookings", "payment_cards", "user_subscriptions", "users"},
            {"user_id"})
    <3>2. o.kind \in {"table", "key", "index"} /\ (o.kind = "key" => o = ForeignKey("payments", o.name))
      BY <3>1, MadeHas
    <3>3. o.kind = "key" /\ o.name = "user_subscriptions"
      BY <1>1, <1>7, <2>1, <3>2 DEF Is
    <3>4. QED  BY <3>2, <3>3
  <2>5. QED  BY <2>3, <2>4, Down21
<1>8. CASE o.table = "promo_codes"
  <2>1. o \in Passes[11] /\ o.kind = "check"
    BY <1>1, <1>3, <1>5, <1>8 DEF Is, PlanTables
  <2>2. \A t, R, I : o \notin Made(t, R, I)
    BY <2>1, MadeHas
  <2>3. o # Column("promo_code_redemptions", "subscription_id")
    BY <2>1, ColumnIs
  <2>4. o = AppliesTo
    BY <2>1, <2>2, <2>3 DEF Passes, Texts
  <2>5. QED  BY <2>4, Down21
<1>9. CASE o.table = "promo_code_redemptions"
  <2>1. /\ \/ o.kind = "key" /\ o.name = "user_subscriptions"
           \/ o.kind = "column" /\ o.name = "subscription_id"
        /\ \/ o \in Passes[11]
           \/ o \in Passes[13]
    <3>1. o.table \notin PlanTables
      BY <1>9 DEF PlanTables
    <3>2. f = 11 \/ f = 13
      BY <1>5, <1>9
    <3>3. QED  BY <1>1, <1>3, <1>9, <3>1, <3>2 DEF Is
  <2>2. ASSUME NEW t, NEW R, NEW I, o \in Made(t, R, I)
        PROVE  t = "promo_code_redemptions" /\ "user_subscriptions" \in R
    BY <1>9, <2>1, <2>2, MadeHas
  <2>3. o # AppliesTo
    BY <2>1, CheckIs DEF AppliesTo
  <2>4. o \in Passes[11] => o = Column("promo_code_redemptions", "subscription_id")
    BY <2>2, <2>3 DEF Passes, Texts
  <2>5. o \in Passes[13] => o = ForeignKey("promo_code_redemptions", "user_subscriptions")
    <3>1. /\ o # ForeignKey("bookings", "promo_codes") /\ o # Column("bookings", "promo_code_id")
          /\ o # Column("bookings", "discount_amount") /\ o # AnyPriceLine
      BY <1>9, TheirTables DEF AnyPriceLine
    <3>2. o # ForeignKey("promo_code_redemptions", "bookings")
      BY <2>1, KeyIs
    <3>3. QED  BY <3>1, <3>2 DEF Passes
  <2>6. QED  BY <2>1, <2>4, <2>5, Down21
<1>10. QED  BY <1>1, <1>6, <1>7, <1>8, <1>9 DEF Is

LEMMA TextsComeBack ==
  ASSUME NEW o \in Intended(21) \ LostIndexes, Takes(22, o) \/ Hits(Done(Downgrades[22], "remove"), o)
  PROVE  o \in Done(Downgrades[22], "add")
<1>1. \/ o.table \in TextTables
      \/ Is(o, "index", "venues", "name_trgm") \/ Is(o, "index", "menu_items", "name_trgm")
      \/ \E m \in Moves : o.kind = "column" /\ o.table = m[1] /\ o.name \in m[3]
  BY Up22, Down22
<1>2. Passing(o)
  BY <1>1 DEF Is, Passing, PassingTables, PassingIndexes
<1>3. PICK f \in 1..21 : o \in Passes[f]
  <2>1. 21 \in 0..30
    OBVIOUS
  <2>2. QED  BY <1>2, <2>1, PassingHistory
<1>4. f \in 1..30 /\ f # 22 /\ f # 27
  OBVIOUS
<1>5. /\ o.table = "venues" => FALSE
      /\ o.table = "menu_items" => FALSE
      /\ o.table \in TextTables => f \in {5, 6, 7, 8, 9, 10, 11}
      /\ (\E m \in Moves : o.table = m[1]) => f \in {5, 6, 10, 11}
  BY <1>3, <1>4, PassingWhen
<1>6. o.table \in TextTables
  <2> SUFFICES ASSUME NEW m \in Moves, o.kind = "column", o.table = m[1], o.name \in m[3]  PROVE FALSE
    BY <1>1, <1>5 DEF Is
  <2>1. f \in {5, 6, 10, 11}
    BY <1>5
  <2>2. \A t, R, I : o \notin Made(t, R, I)
    BY MadeHas
  <2>3. o # AppliesTo /\ \A t, q : o # ForeignKey(t, q)
    BY CheckIs, KeyIs DEF AppliesTo
  <2>4. \/ o = Column("venue_groups", "primary_venue_type_id")
        \/ o = Column("service_catalog", "applies_to_venue_type_id")
        \/ o = Column("promo_code_redemptions", "subscription_id")
    BY <1>3, <2>1, <2>2, <2>3 DEF Passes, Texts
  <2>5. \/ o.table = "venue_groups" /\ o.name = "primary_venue_type_id"
        \/ o.table = "service_catalog" /\ o.name = "applies_to_venue_type_id"
        \/ o.table = "promo_code_redemptions"
    BY <2>4, ColumnIs
  <2>6. /\ m[1] = "venue_groups" => m[3] = {"name", "description"}
        /\ m[1] = "service_catalog" => m[3] = {"name"}
        /\ m[1] # "promo_code_redemptions"
    BY DEF Moves
  <2>7. QED  BY <2>5, <2>6
<1>7. ASSUME NEW t, NEW q, NEW I, \E m \in Moves : m[1] = q /\ m[2] = t,
             o \in Made(t, {"languages", q}, I), I \subseteq {"name_trgm"}, o.kind # "index"
      PROVE  o \in TextObjects
  <2>1. PICK m \in Moves : m[1] = q /\ m[2] = t
    BY <1>7
  <2>2. o \in {Relation(t), ForeignKey(t, q), ForeignKey(t, "languages")}
    BY <1>7, MadeHas
  <2>3. QED  BY <2>1, <2>2 DEF TextObjects
<1>8. PICK t, q, I : o \in Made(t, {"languages", q}, I) /\ I \subseteq {"name_trgm"}
                     /\ (I # {} => t \in {"venue_translations", "menu_item_translations"})
                     /\ \E m \in Moves : m[1] = q /\ m[2] = t
  <2> DEFINE Moved(t, q) == \E m \in Moves : m[1] = q /\ m[2] = t
             Is8(t, q, I) == o \in Made(t, {"languages", q}, I) /\ I \subseteq {"name_trgm"}
                     /\ (I # {} => t \in {"venue_translations", "menu_item_translations"})
                     /\ Moved(t, q)
  <2>1. \A a, b, X : <<a, b, X>>[1] = a /\ <<a, b, X>>[2] = b
    OBVIOUS
  <2>2. \A a, b, X : <<a, b, X>> \in Moves => Moved(b, a)
    BY <2>1
  <2>3. /\ Moved("amenity_translations", "amenities") /\ Moved("venue_type_translations", "venue_types")
        /\ Moved("venue_group_translations", "venue_groups") /\ Moved("venue_translations", "venues")
        /\ Moved("venue_zone_translations", "venue_zones")
        /\ Moved("staff_role_translations", "staff_roles")
        /\ Moved("menu_category_translations", "menu_categories")
        /\ Moved("menu_item_translations", "menu_items")
        /\ Moved("menu_item_variant_translations", "menu_item_variants")
        /\ Moved("service_catalog_translations", "service_catalog")
        /\ Moved("banner_translations", "banners")
    <3>1. /\ <<"amenities", "amenity_translations", {"name"}>> \in Moves
          /\ <<"venue_types", "venue_type_translations", {"name"}>> \in Moves
          /\ <<"venue_groups", "venue_group_translations", {"name", "description"}>> \in Moves
          /\ <<"venues", "venue_translations", {"name", "description", "tagline"}>> \in Moves
          /\ <<"venue_zones", "venue_zone_translations", {"name"}>> \in Moves
          /\ <<"staff_roles", "staff_role_translations", {"name"}>> \in Moves
          /\ <<"menu_categories", "menu_category_translations", {"name"}>> \in Moves
          /\ <<"menu_items", "menu_item_translations", {"name", "description"}>> \in Moves
          /\ <<"menu_item_variants", "menu_item_variant_translations", {"name"}>> \in Moves
          /\ <<"service_catalog", "service_catalog_translations", {"name"}>> \in Moves
          /\ <<"banners", "banner_translations", {"title", "subtitle"}>> \in Moves
      BY DEF Moves
    <3> HIDE DEF Moved
    <3>2. QED  BY <2>2, <3>1
  <2> HIDE DEF Moved
  <2>4. \A t, q : Moved(t, q) /\ o \in Texts(t, q) => Is8(t, q, {})
    BY DEF Texts
  <2>5. \A t, q : Moved(t, q) /\ t \in {"venue_translations", "menu_item_translations"}
                    /\ o \in Made(t, {"languages", q}, {"name_trgm"}) => Is8(t, q, {"name_trgm"})
    OBVIOUS
  <2>6. /\ \A t, R, I : o \in Made(t, R, I) => t \in TextTables
        /\ \A t, c : o # Column(t, c)
        /\ \A t, c : t \notin TextTables => o # ForeignKey(t, c)
        /\ o # AppliesTo /\ o \notin SmsColumns
    <3>1. \A t, R, I : o \in Made(t, R, I) => t \in TextTables
      BY <1>6, MadeHas
    <3>2. \A t, c : t \notin TextTables => o # ForeignKey(t, c) /\ o # Column(t, c)
      BY <1>6, KeyIs, ColumnIs
    <3>3. o # AppliesTo
      BY <1>6, CheckIs DEF AppliesTo, TextTables
    <3>4. ASSUME NEW t, NEW c, o = Column(t, c), o \in Passes[f]  PROVE FALSE
      <4>1. \A t1, R, I : o \notin Made(t1, R, I)
        BY <3>4, MadeHas, ColumnIs
      <4>2. /\ "venue_groups" \notin TextTables /\ "service_catalog" \notin TextTables
            /\ "promo_code_redemptions" \notin TextTables
        BY DEF TextTables
      <4>3. o \notin SmsColumns
        BY <1>6, ColumnIs DEF SmsColumns, TextTables
      <4>4. \A t1, q : o # ForeignKey(t1, q)
        BY <3>4, KeyIs, ColumnIs
      <4>5. /\ o # Column("venue_groups", "primary_venue_type_id")
            /\ o # Column("service_catalog", "applies_to_venue_type_id")
            /\ o # Column("promo_code_redemptions", "subscription_id")
        BY <3>2, <4>2
      <4>6. f \in {5, 6, 7, 8, 9, 10, 11}
        BY <1>5, <1>6
      <4>7. QED  BY <3>3, <3>4, <4>1, <4>3, <4>4, <4>5, <4>6 DEF Passes, Texts
    <3>5. o \notin SmsColumns
      BY <1>6, ColumnIs DEF SmsColumns, TextTables
    <3>6. QED  BY <1>3, <3>1, <3>2, <3>3, <3>4, <3>5
  <2>7. /\ "venue_types" \notin TextTables /\ "venue_venue_types" \notin TextTables
        /\ "venue_groups" \notin TextTables /\ "service_catalog" \notin TextTables
        /\ "banners" \notin TextTables /\ "promo_codes" \notin TextTables
        /\ "user_promo_codes" \notin TextTables /\ "promo_code_redemptions" \notin TextTables
    BY DEF TextTables
  <2>8. /\ \A R, I : o \notin Made("venue_types", R, I) /\ o \notin Made("venue_venue_types", R, I)
        /\ \A R, I : o \notin Made("banners", R, I) /\ o \notin Made("promo_codes", R, I)
        /\ \A R, I : o \notin Made("user_promo_codes", R, I)
        /\ \A R, I : o \notin Made("promo_code_redemptions", R, I)
        /\ o # ForeignKey("venue_groups", "venue_types")
        /\ o # ForeignKey("service_catalog", "venue_types")
    BY <2>6, <2>7
  <2>9. f \in {5, 6, 7, 8, 9, 10, 11}
    BY <1>5, <1>6
  <2>10. \/ o \in Texts("amenity_translations", "amenities")
         \/ o \in Texts("venue_type_translations", "venue_types")
         \/ o \in Texts("venue_group_translations", "venue_groups")
         \/ o \in Texts("venue_zone_translations", "venue_zones")
         \/ o \in Texts("staff_role_translations", "staff_roles")
         \/ o \in Texts("menu_category_translations", "menu_categories")
         \/ o \in Texts("menu_item_variant_translations", "menu_item_variants")
         \/ o \in Texts("service_catalog_translations", "service_catalog")
         \/ o \in Texts("banner_translations", "banners")
         \/ o \in Made("venue_translations", {"languages", "venues"}, {"name_trgm"})
         \/ o \in Made("menu_item_translations", {"languages", "menu_items"}, {"name_trgm"})
    BY <1>3, <2>6, <2>8, <2>9 DEF Passes
  <2>11. \E t, q, I : Is8(t, q, I)
    <3> HIDE DEF Is8
    <3> QED  BY <2>3, <2>4, <2>5, <2>10
  <2>12. QED  BY <2>11 DEF Moved
<1>9. o.kind # "index"
  <2> SUFFICES ASSUME o.kind = "index"  PROVE FALSE
    OBVIOUS
  <2>1. o.name \in I /\ o = Index(t, o.name)
    BY <1>8, MadeHas
  <2>2. o \in LostIndexes
    BY <1>8, <2>1 DEF LostIndexes
  <2>3. QED  BY <2>2
<1>10. o \in TextObjects
  BY <1>7, <1>8, <1>9
<1>11. QED  BY <1>10, Down22

LEMMA CodesComeBack ==
  ASSUME NEW o \in Intended(23), Takes(24, o) \/ Hits(Done(Downgrades[24], "remove"), o)
  PROVE  o \in Done(Downgrades[24], "add")
<1>1. \/ o.table \in CodeTables \/ Is(o, "check", "auth_identities", "provider")
      \/ Is(o, "column", "users", "phone_verified_at")
      \/ Is(o, "column", "users", "email_verified_at")
      \/ Is(o, "column", "staff_invitations", "sms_sent_at")
      \/ Is(o, "column", "staff_invitations", "sms_provider_id")
  BY Up24, Down24
<1>2. Passing(o)
  BY <1>1 DEF Is, Passing, PassingTables
<1>3. PICK f \in 1..23 : o \in Passes[f]
  <2>1. 23 \in 0..30
    OBVIOUS
  <2>2. QED  BY <1>2, <2>1, PassingHistory
<1>4. f \in 1..30 /\ f # 24
  OBVIOUS
<1>5. /\ o.table \in CodeTables => f \in {4, 20}
      /\ o.table = "auth_identities" => f = 4
      /\ o.table = "users" => f = 4
      /\ o.table = "staff_invitations" => f = 8
  BY <1>3, <1>4, PassingWhen
<1>6. CASE o.table \in CodeTables
  <2>1. /\ o \notin VerifiedColumns /\ o # PhoneOrEmail /\ o # AnyProvider
        /\ o \notin Made("auth_identities", {"users"}, {"user_id"})
    BY <1>6, TheirTables DEF VerifiedColumns, PhoneOrEmail, AnyProvider, CodeTables
  <2>2. o \in Passes[4] \/ o \in Passes[20]
    BY <1>3, <1>5, <1>6
  <2>3. QED  BY <2>1, <2>2, Down24 DEF Passes
<1>7. CASE o.table = "auth_identities" /\ o.kind = "check"
  <2>1. \A t, R, I : o \notin Made(t, R, I)
    BY <1>7, MadeHas
  <2>2. o \notin VerifiedColumns /\ o # PhoneOrEmail
    BY <1>7, TheirTables DEF VerifiedColumns, PhoneOrEmail
  <2>3. o = AnyProvider
    BY <1>3, <1>5, <1>7, <2>1, <2>2 DEF Passes
  <2>4. QED  BY <2>3, Down24
<1>8. CASE o.table = "users" /\ o.kind = "column"
  <2>1. \A t, R, I : o \notin Made(t, R, I)
    BY <1>8, MadeHas
  <2>2. o # AnyProvider /\ o # PhoneOrEmail
    BY <1>8, CheckIs DEF AnyProvider, PhoneOrEmail
  <2>3. o \in VerifiedColumns
    BY <1>3, <1>5, <1>8, <2>1, <2>2 DEF Passes
  <2>4. QED  BY <2>3, Down24
<1>9. CASE o.table = "staff_invitations" /\ o.kind = "column"
  <2>1. \A t, R, I : o \notin Made(t, R, I)
    BY <1>9, MadeHas
  <2>2. o \in SmsColumns
    BY <1>3, <1>5, <1>9, <2>1 DEF Passes, Texts
  <2>3. QED  BY <2>2, Down24
<1>10. QED  BY <1>1, <1>6, <1>7, <1>8, <1>9 DEF Is

LEMMA MoneyComesBack ==
  ASSUME NEW o \in Intended(24), Takes(25, o) \/ Hits(Done(Downgrades[25], "remove"), o)
  PROVE  o \in Done(Downgrades[25], "add")
<1>1. \/ o.table \in MoneyTables \/ Is(o, "key", "bookings", "promo_codes")
      \/ Is(o, "column", "bookings", "promo_code_id")
      \/ Is(o, "column", "bookings", "discount_amount")
      \/ Is(o, "check", "booking_price_lines", "line_type")
  BY Up25, Down25
<1>2. Passing(o)
  BY <1>1 DEF Is, Passing, PassingTables, PassingTargets
<1>3. PICK f \in 1..24 : o \in Passes[f] /\ \A b \in (f + 1)..24 : ~Takes(b, o)
  <2>1. 24 \in 0..30
    OBVIOUS
  <2>2. QED  BY <1>2, <2>1, PassingHistory
<1>4. f \in 1..30 /\ f # 25 /\ (f < 21 => 21 \in (f + 1)..24)
  OBVIOUS
<1>5. /\ o.table \in MoneyTables => f \in {11, 13, 15, 21, 22}
      /\ o.table = "bookings" => f = 13
      /\ o.table = "booking_price_lines" => f = 13
  BY <1>3, <1>4, PassingWhen
<1>6. f < 21 =>
        /\ ~Is(o, "check", "payments", "target") /\ ~Is(o, "check", "payments", "kind")
        /\ ~Is(o, "check", "promo_codes", "applies_to")
        /\ ~Is(o, "key", "payments", "user_subscriptions")
        /\ ~Is(o, "column", "payments", "subscription_id")
        /\ ~Is(o, "key", "promo_code_redemptions", "user_subscriptions")
        /\ ~Is(o, "column", "promo_code_redemptions", "subscription_id")
  BY <1>3, <1>4, Up21
<1>7. f < 21 =>
        /\ o \notin PaymentChecks /\ o # AppliesTo /\ o # ForeignKey("payments", "user_subscriptions")
        /\ o # Column("payments", "subscription_id")
        /\ o # ForeignKey("promo_code_redemptions", "user_subscriptions")
        /\ o # Column("promo_code_redemptions", "subscription_id")
  BY <1>6, CheckIs, KeyIs, ColumnIs DEF Is, PaymentChecks, AppliesTo
<1>8. CASE f = 11 /\ o.table \in MoneyTables
  <2>1. o \notin Texts("banner_translations", "banners")
    BY <1>8, TheirTables DEF Texts, MoneyTables
  <2>2. Made("promo_code_redemptions", {"promo_codes", "users"}, {})
          \subseteq Made("promo_code_redemptions", {"bookings", "promo_codes", "users"}, {})
    BY DEF Made
  <2>3. \/ o \in Made("banners", {}, {}) \/ o \in Made("promo_codes", {}, {})
        \/ o \in Made("user_promo_codes", {"promo_codes", "users"}, {"user_id_status_expires_at"})
        \/ o \in Made("promo_code_redemptions", {"promo_codes", "users"}, {})
    BY <1>3, <1>7, <1>8, <2>1 DEF Passes
  <2>4. QED  BY <2>2, <2>3, Down25
<1>9. CASE f = 13
  <2>1. o \in {ForeignKey("bookings", "promo_codes"), Column("bookings", "promo_code_id"),
               Column("bookings", "discount_amount"), AnyPriceLine,
               ForeignKey("promo_code_redemptions", "bookings")}
    BY <1>3, <1>7, <1>9 DEF Passes
  <2>2. ForeignKey("promo_code_redemptions", "bookings")
          \in Made("promo_code_redemptions", {"bookings", "promo_codes", "users"}, {})
    BY KeyMade
  <2>3. QED  BY <2>1, <2>2, Down25
<1>10. CASE f = 15
  <2>1. \/ o \in Made("payment_cards", {"users"}, {"user_id"})
        \/ o \in Made("payments", {"bookings", "payment_cards", "user_subscriptions", "users"},
             {"user_id"})
        \/ o \in Made("refunds", {"payments"}, {"payment_id"})
    BY <1>3, <1>7, <1>10 DEF Passes
  <2>2. Made("payments", {"bookings", "payment_cards", "user_subscriptions", "users"}, {"user_id"}) =
          Made("payments", {"bookings", "payment_cards", "users"}, {"user_id"})
            \cup {ForeignKey("payments", "user_subscriptions")}
    BY DEF Made
  <2>3. QED  BY <1>7, <1>10, <2>1, <2>2, Down25
<1>11. CASE f = 21
  <2>1. o \in BookingPaymentChecks \cup {AppliesToBookings}
    BY <1>3, <1>11 DEF Passes
  <2>2. QED  BY <2>1, Down25
<1>12. CASE f = 22 /\ o.table \in MoneyTables
  <2>1. o \notin SearchIndexes
    BY <1>12, TheirTables DEF SearchIndexes, MoneyTables
  <2>2. o \in MovedTexts
    BY <1>3, <1>12, <2>1 DEF Passes
  <2>3. o \in {Column("banners", "title"), Column("banners", "subtitle")}
    BY <1>12, <2>2, MovedOf
  <2>4. QED  BY <2>3, Down25
<1>13. QED  BY <1>1, <1>5, <1>8, <1>9, <1>10, <1>11, <1>12 DEF Is

LEMMA IdentitiesComeBack ==
  ASSUME NEW o \in Intended(25), Takes(26, o) \/ Hits(Done(Downgrades[26], "remove"), o)
  PROVE  o \in Done(Downgrades[26], "add")
<1>1. o.table = "auth_identities"
  BY Up26, Down26
<1>2. Passing(o)
  BY <1>1 DEF Passing, PassingTables
<1>3. PICK f \in 1..25 : o \in Passes[f] /\ \A b \in (f + 1)..25 : ~Takes(b, o)
  <2>1. 25 \in 0..30
    OBVIOUS
  <2>2. QED  BY <1>2, <2>1, PassingHistory
<1>4. f \in 1..30 /\ (f < 24 => 24 \in (f + 1)..25)
  OBVIOUS
<1>5. f \in {4, 24}
  BY <1>1, <1>3, <1>4, PassingWhen
<1>6. CASE f = 4
  <2>1. ~Is(o, "check", "auth_identities", "provider")
    BY <1>3, <1>4, <1>6, Up24
  <2>2. o # AnyProvider
    BY <2>1, CheckIs DEF Is, AnyProvider
  <2>3. /\ o \notin VerifiedColumns /\ o # PhoneOrEmail
        /\ o \notin Made("verification_codes", {"users"}, {"destination_purpose_created_at"})
    BY <1>1, TheirTables DEF VerifiedColumns, PhoneOrEmail
  <2>4. o \in Made("auth_identities", {"users"}, {"user_id"})
    BY <1>3, <1>6, <2>2, <2>3 DEF Passes
  <2>5. QED  BY <2>4, Down26
<1>7. CASE f = 24
  BY <1>3, <1>7, Down26 DEF Passes
<1>8. QED  BY <1>5, <1>6, <1>7

LEMMA TypesComeBack ==
  ASSUME NEW o \in Intended(26), Takes(27, o) \/ Hits(Done(Downgrades[27], "remove"), o)
  PROVE  o \in Done(Downgrades[27], "add")
<1>1. \/ o.table \in TypeTables
      \/ Is(o, "column", "service_catalog", "applies_to_venue_type_id")
      \/ Is(o, "key", "service_catalog", "venue_types")
      \/ Is(o, "column", "venue_groups", "primary_venue_type_id")
      \/ Is(o, "key", "venue_groups", "venue_types")
      \/ Is(o, "index", "venues", "venue_type") \/ Is(o, "column", "venues", "venue_type")
      \/ Is(o, "column", "venue_groups", "primary_venue_type")
      \/ Is(o, "column", "service_catalog", "applies_to_venue_type")
      \/ Is(o, "check", "venues", "venue_type")
      \/ Is(o, "check", "venue_groups", "primary_venue_type")
      \/ Is(o, "check", "service_catalog", "applies_to_venue_type")
  BY Up27, Down27
<1>2. Passing(o)
  BY <1>1 DEF Is, Passing, PassingTables, PassingTargets, PassingIndexes
<1>3. PICK f \in 1..26 : o \in Passes[f]
  <2>1. 26 \in 0..30
    OBVIOUS
  <2>2. QED  BY <1>2, <2>1, PassingHistory
<1>4. f \in 1..30 /\ f # 27
  OBVIOUS
<1>5. /\ o.table \in TypeTables => f \in {5, 7, 22}
      /\ o.table = "service_catalog" => f \in {10, 22}
      /\ o.table = "venue_groups" => f \in {6, 22}
      /\ o.table = "venues" => f = 22
  BY <1>3, <1>4, PassingWhen
<1>6. CASE o.table \in TypeTables
  <2>1. /\ \A t, q : o \in Texts(t, q) => t \in TypeTables
        /\ \A R, I : o \notin Made("venue_translations", R, I)
        /\ o \notin SearchIndexes
    BY <1>6, TheirTables DEF Texts, TypeTables, SearchIndexes
  <2>2. /\ o \notin Texts("amenity_translations", "amenities")
        /\ o \notin Texts("venue_type_translations", "venue_types")
        /\ o \notin Texts("venue_zone_translations", "venue_zones")
    BY <2>1 DEF TypeTables
  <2>3. CASE f = 5
    BY <1>3, <2>2, <2>3, Down27 DEF Passes
  <2>4. CASE f = 7
    BY <1>3, <2>1, <2>2, <2>4, Down27 DEF Passes
  <2>5. CASE f = 22
    <3>1. o \in MovedTexts
      BY <1>3, <2>1, <2>5 DEF Passes
    <3>2. o = Column("venue_types", "name")
      BY <1>6, <3>1, MovedOf
    <3>3. QED  BY <3>2, Down27
  <2>6. QED  BY <1>5, <1>6, <2>3, <2>4, <2>5
<1>7. CASE o.table = "service_catalog"
  <2>1. ~(o.table \in TypeTables) /\ o \notin SearchIndexes
    BY <1>7, TheirTables DEF TypeTables, SearchIndexes
  <2>2. /\ o.kind \in {"column", "key", "check"}
        /\ o.name \in {"applies_to_venue_type_id", "venue_types", "applies_to_venue_type"}
    BY <1>1, <1>7, <2>1 DEF Is
  <2>3. f # 22
    <3> SUFFICES ASSUME f = 22  PROVE FALSE
      OBVIOUS
    <3>1. o \in MovedTexts
      BY <1>3, <2>1 DEF Passes
    <3>2. QED  BY <1>7, <2>2, <3>1, MovedOf
  <2>4. o \notin Texts("service_catalog_translations", "service_catalog")
    BY <1>7, TheirTables DEF Texts
  <2>5. o \in {ForeignKey("service_catalog", "venue_types"),
          Column("service_catalog", "applies_to_venue_type_id")}
    BY <1>3, <1>5, <1>7, <2>3, <2>4 DEF Passes
  <2>6. QED  BY <2>5, Down27
<1>8. CASE o.table = "venue_groups"
  <2>1. ~(o.table \in TypeTables) /\ o \notin SearchIndexes
    BY <1>8, TheirTables DEF TypeTables, SearchIndexes
  <2>2. o.name \in {"primary_venue_type_id", "venue_types", "primary_venue_type"}
    BY <1>1, <1>8, <2>1 DEF Is
  <2>3. f # 22
    <3> SUFFICES ASSUME f = 22  PROVE FALSE
      OBVIOUS
    <3>1. o \in MovedTexts
      BY <1>3, <2>1 DEF Passes
    <3>2. QED  BY <1>8, <2>2, <3>1, MovedOf
  <2>4. o \notin Texts("venue_group_translations", "venue_groups")
    BY <1>8, TheirTables DEF Texts
  <2>5. o \in {ForeignKey("venue_groups", "venue_types"),
          Column("venue_groups", "primary_venue_type_id")}
    BY <1>3, <1>5, <1>8, <2>3, <2>4 DEF Passes
  <2>6. QED  BY <2>5, Down27
<1>9. CASE o.table = "venues"
  <2>1. ~(o.table \in TypeTables)
    BY <1>9 DEF TypeTables
  <2>2. o.name = "venue_type"
    BY <1>1, <1>9, <2>1 DEF Is
  <2>3. o \notin SearchIndexes
    BY <2>2, IndexIs DEF SearchIndexes
  <2>4. o \in MovedTexts
    BY <1>3, <1>5, <1>9, <2>3 DEF Passes
  <2>5. QED  BY <1>9, <2>2, <2>4, MovedOf
<1>10. QED  BY <1>1, <1>6, <1>7, <1>8, <1>9 DEF Is

LEMMA RegionsNeverCoded ==
  ASSUME NEW o \in Intended(27)
  PROVE  ~(Takes(28, o) \/ Hits(Done(Downgrades[28], "remove"), o))
<1> SUFFICES ASSUME Is(o, "check", "regions", "code")  PROVE FALSE
  BY Up28, Down28
<1>1. Passing(o)
  BY DEF Is, Passing
<1>2. PICK f \in 1..27 : o \in Passes[f]
  <2>1. 27 \in 0..30
    OBVIOUS
  <2>2. QED  BY <1>1, <2>1, PassingHistory
<1>3. f \in 1..30 /\ f # 28
  OBVIOUS
<1>4. QED  BY <1>2, <1>3, PassingWhen DEF Is

LEMMA IdentityComesBack ==
  ASSUME NEW o \in Intended(30), Takes(31, o) \/ Hits(Done(Downgrades[31], "remove"), o)
  PROVE  o \in Done(Downgrades[31], "add")
<1>1. \/ Is(o, "check", "users", "identity") \/ Is(o, "check", "users", "telegram_id")
      \/ Is(o, "column", "users", "telegram_id")
  BY Up31, Down31
<1>2. Passing(o)
  BY <1>1 DEF Is, Passing
<1>3. PICK f \in 1..30 : o \in Passes[f]
  <2>1. 30 \in 0..30
    OBVIOUS
  <2>2. QED  BY <1>2, <2>1, PassingHistory
<1>4. f = 4
  BY <1>1, <1>3, PassingWhen DEF Is
<1>5. \A t, R, I : o \notin Made(t, R, I)
  BY <1>1, MadeHas DEF Is
<1>6. o \notin VerifiedColumns /\ o # AnyProvider
  BY <1>1, CheckIs, ColumnIs DEF Is, VerifiedColumns, AnyProvider
<1>7. o = PhoneOrEmail
  BY <1>3, <1>4, <1>5, <1>6 DEF Passes
<1>8. QED  BY <1>7, Down31

\* Every way back reverses its way up.
LEMMA EveryWayBackReverses == \A r \in 1..31 : Reverses(r)
<1>1. ASSUME NEW r \in {23, 29, 30}  PROVE Reverses(r)
  BY UpQuiet, DownQuiet DEF Reverses
<1>2. \A r \in 21..31 : \A o \in Added(r) : Hits(Done(Downgrades[r], "remove"), o)
  BY LateAreUndone
<1>3. /\ 21 - 1 = 20 /\ 22 - 1 = 21 /\ 24 - 1 = 23 /\ 25 - 1 = 24 /\ 26 - 1 = 25 /\ 27 - 1 = 26
      /\ 28 - 1 = 27 /\ 31 - 1 = 30
  OBVIOUS
<1>4. Reverses(21)
  BY <1>2, <1>3, PlansHadBeen, PlansComeBack DEF Reverses
<1>5. Reverses(22)
  BY <1>2, <1>3, TextsHadBeen, TextsComeBack DEF Reverses
<1>6. Reverses(24)
  BY <1>2, <1>3, CodesHadBeen, CodesComeBack DEF Reverses
<1>7. Reverses(25)
  BY <1>2, <1>3, MoneyHadBeen, MoneyComesBack DEF Reverses
<1>8. Reverses(26)
  BY <1>2, <1>3, IdentitiesHadBeen, IdentitiesComeBack DEF Reverses
<1>9. Reverses(27)
  BY <1>2, <1>3, TypesHadBeen, TypesComeBack DEF Reverses
<1>10. Reverses(28)
  BY <1>2, <1>3, RegionsNeverCoded, Down28 DEF Reverses
<1>11. Reverses(31)
  BY <1>2, <1>3, IdentityHadBeen, IdentityComesBack DEF Reverses
<1>12. \A r \in 1..31 : r \in 1..20 \/ r \in {21, 22, 23, 24, 25, 26, 27, 28, 29, 30, 31}
  OBVIOUS
<1>13. QED
  BY <1>1, <1>4, <1>5, <1>6, <1>7, <1>8, <1>9, <1>10, <1>11, <1>12, EarlyReverse
-----------------------------------------------------------------------------
(* The schema follows the revision, up and down.                              *)

\* A schema is the intended one of a revision, but for the lost indexes.
Follows(schema, r) == schema \subseteq Intended(r) /\ Intended(r) \ schema \subseteq LostIndexes

\* No revision takes back in one statement what it adds in another.
LEMMA ProgramsKeepTheirOwn ==
  ASSUME NEW r \in 1..31
  PROVE  KeepsItsOwn(Upgrades[r]) /\ KeepsItsOwn(Downgrades[r])
<1>1. r \in 1..20 \/ r \in {21, 22, 23, 24, 25, 26, 27, 28, 29, 30, 31}
  OBVIOUS
<1>2. KeepsItsOwn(Upgrades[r])
  BY <1>1, TakesNothing, UpQuiet, Up21, Up22, Up24, Up25, Up26, Up27, Up28, Up31
<1>3. KeepsItsOwn(Downgrades[r])
  BY <1>1, EarlyAddNothing, DownQuiet, Down21, Down22, Down24, Down25, Down26, Down27, Down28, Down31
<1>4. QED  BY <1>2, <1>3

LEMMA UpFollows ==
  ASSUME NEW r \in 0..30, NEW state, IsState(state), Follows(state.schema, r),
         Run(Upgrades[r + 1], state).ok
  PROVE  Follows(Run(Upgrades[r + 1], state).schema, r + 1)
<1> DEFINE n == r + 1
           after == Run(Upgrades[n], state).schema
<1>1. n \in 1..31 /\ n - 1 = r
  OBVIOUS
<1>2. KeepsItsOwn(Upgrades[n])
  BY <1>1, ProgramsKeepTheirOwn
<1>3. after = {o \in state.schema : ~Hits(Done(Upgrades[n], "remove"), o)} \cup Done(Upgrades[n], "add")
  BY <1>1, <1>2, ProgramsAreSequences, RunMoves
<1>4. after = {o \in state.schema : ~Takes(n, o)} \cup Added(n)
  BY <1>3 DEF Hits, Takes, Added
<1>5. Intended(n) = {o \in Intended(r) : ~Takes(n, o)} \cup Added(n)
  BY <1>1, IntendedNext
<1> HIDE DEF n, after
<1>6. Follows(after, n)
  BY <1>4, <1>5 DEF Follows
<1>7. QED  BY <1>6 DEF n, after

LEMMA DownFollows ==
  ASSUME NEW r \in 1..31, NEW state, IsState(state), Follows(state.schema, r),
         Run(Downgrades[r], state).ok
  PROVE  Follows(Run(Downgrades[r], state).schema, r - 1)
<1> DEFINE gone(o) == Hits(Done(Downgrades[r], "remove"), o)
           back == Done(Downgrades[r], "add")
           after == Run(Downgrades[r], state).schema
<1>1. KeepsItsOwn(Downgrades[r])
  BY ProgramsKeepTheirOwn
<1>2. after = {o \in state.schema : ~gone(o)} \cup back
  BY <1>1, ProgramsAreSequences, RunMoves
<1>3. Intended(r) = {o \in Intended(r - 1) : ~Takes(r, o)} \cup Added(r)
  BY IntendedNext
<1>4. /\ back \subseteq Intended(r - 1)
      /\ \A o \in Added(r) : gone(o)
      /\ \A o \in Intended(r - 1) \ LostIndexes : Takes(r, o) \/ gone(o) => o \in back
  BY EveryWayBackReverses DEF Reverses
<1> HIDE DEF gone, back, after
<1>5. after \subseteq Intended(r - 1)
  BY <1>2, <1>3, <1>4 DEF Follows
<1>6. Intended(r - 1) \ after \subseteq LostIndexes
  BY <1>2, <1>3, <1>4 DEF Follows
<1>7. QED  BY <1>5, <1>6 DEF Follows, after

\* Both the committed schema and the one that a transaction works on.
FollowsInv ==
    /\ MigrationsInv
    /\ Follows(db.state.schema, db.rev)
    /\ transaction # NoTransaction /\ transaction.work.ok =>
           Follows(transaction.work.schema, transaction.at)

LEMMA FollowsInitially == Init => FollowsInv
<1> SUFFICES ASSUME Init  PROVE FollowsInv
  OBVIOUS
<1>1. db.state.schema = {} /\ db.rev = 0 /\ transaction = NoTransaction
  BY DEF Init, Empty
<1>2. Intended(0) = {}
  <2>1. 0 \in 0..31 /\ 1..0 = {}
    OBVIOUS
  <2>2. QED  BY <2>1, IntendedObjects
<1>3. Follows({}, 0)
  BY <1>2 DEF Follows
<1>4. QED  BY <1>1, <1>3, MigrationsInitially DEF FollowsInv

LEMMA FollowsRevising ==
  ASSUME FollowsInv, Revise
  PROVE  FollowsInv'
<1>1. MigrationsInv' /\ MigrationsInv
  BY RevisingKeeps DEF FollowsInv
<1>2. transaction # NoTransaction /\ transaction.at # transaction.to /\ transaction.work.ok /\ db' = db
  BY DEF Revise
<1>3. PICK by, at, to, work :
        /\ transaction = [by |-> by, at |-> at, to |-> to, work |-> work]
        /\ at \in 0..31 /\ to \in 0..31 /\ IsState(work) /\ work.ok
        /\ Follows(work.schema, at)
  BY <1>2, NewestIsLast DEF FollowsInv, MigrationsInv, TransactionFits, InTransaction
<1>4. PICK schema, rev : schema = db.state.schema /\ rev = db.rev
  OBVIOUS
<1>5. db'.state.schema = schema /\ db'.rev = rev /\ Follows(schema, rev)
  BY <1>2, <1>4 DEF FollowsInv
<1>6. ASSUME NEW next, NEW result, result.ok => Follows(result.schema, next),
             transaction' = [transaction EXCEPT !.at = next, !.work = result]
      PROVE  FollowsInv'
  <2>1. transaction' = [by |-> by, at |-> next, to |-> to, work |-> result]
    BY <1>3, <1>6
  <2>2. transaction'.at = next /\ transaction'.work = result
    BY <2>1
  <2>3. QED  BY <1>1, <1>5, <1>6, <2>2 DEF FollowsInv
<1>7. CASE at < to
  <2>1. at \in 0..30
    BY <1>3, <1>7
  <2>2. transaction' = [transaction EXCEPT !.at = at + 1, !.work = Run(Upgrades[at + 1], work)]
    BY <1>3, <1>7 DEF Revise
  <2>3. QED  BY <1>3, <1>6, <2>1, <2>2, UpFollows
<1>8. CASE ~(at < to)
  <2>1. at \in 1..31
    BY <1>2, <1>3, <1>8
  <2>2. transaction' = [transaction EXCEPT !.at = at - 1, !.work = Run(Downgrades[at], work)]
    BY <1>3, <1>8 DEF Revise
  <2>3. QED  BY <1>3, <1>6, <2>1, <2>2, DownFollows
<1>9. QED  BY <1>7, <1>8

LEMMA FollowsNext == FollowsInv /\ [Next]_vars => FollowsInv'
<1> SUFFICES ASSUME FollowsInv, [Next]_vars PROVE FollowsInv'
  OBVIOUS
<1>1. MigrationsInv /\ MigrationsInv'
  BY MigrationsNextKeeps DEF FollowsInv
<1>2. PICK schema, rev : schema = db.state.schema /\ rev = db.rev
  OBVIOUS
<1>3. Follows(schema, rev)
  BY <1>2 DEF FollowsInv
<1>4. CASE db' = db /\ transaction' = transaction
  <2>1. db'.state.schema = schema /\ db'.rev = rev
    BY <1>2, <1>4
  <2>2. PICK t : t = transaction
    OBVIOUS
  <2>3. t # NoTransaction /\ t.work.ok => Follows(t.work.schema, t.at)
    BY <2>2 DEF FollowsInv
  <2>4. QED  BY <1>1, <1>3, <1>4, <2>1, <2>2, <2>3 DEF FollowsInv
<1>5. ASSUME db' = db, transaction' = NoTransaction  PROVE FollowsInv'
  <2>1. db'.state.schema = schema /\ db'.rev = rev
    BY <1>2, <1>5
  <2>2. QED  BY <1>1, <1>3, <1>5, <2>1 DEF FollowsInv
<1>6. ASSUME NEW by, NEW from, NEW to, Begin(by, from, to), db' = db
      PROVE  FollowsInv'
  <2>1. transaction' = [by |-> by, at |-> db.rev, to |-> to, work |-> db.state]
    BY <1>6 DEF Begin
  <2>2. transaction'.at = rev /\ transaction'.work.schema = schema
    BY <1>2, <2>1
  <2>3. db'.state.schema = schema /\ db'.rev = rev
    BY <1>2, <1>6
  <2>4. QED  BY <1>1, <1>3, <2>2, <2>3 DEF FollowsInv
<1>7. CASE Commit
  <2>1. /\ transaction # NoTransaction /\ transaction.at = transaction.to /\ transaction.work.ok
        /\ db' = [rev |-> transaction.to, state |-> transaction.work]
        /\ transaction' = NoTransaction
    BY <1>7 DEF Commit
  <2>2. PICK s, r : s = transaction.work.schema /\ r = transaction.at
    OBVIOUS
  <2>3. Follows(s, r)
    BY <2>1, <2>2 DEF FollowsInv
  <2>4. db'.rev = r /\ db'.state.schema = s
    BY <2>1, <2>2
  <2>5. QED  BY <1>1, <2>1, <2>3, <2>4 DEF FollowsInv
<1>8. ASSUME NEW c \in Container, NEW w, WriteRow(c, w)  PROVE FollowsInv'
  <2>1. PICK rows : db = [rev |-> rev, state |-> [schema |-> schema, rows |-> rows, ok |-> TRUE]]
    BY <1>1, <1>2 DEF MigrationsInv, IsState
  <2>2. db' = [rev |-> rev, state |-> [schema |-> schema, rows |-> rows \cup {w}, ok |-> TRUE]]
    BY <1>8, <2>1 DEF WriteRow
  <2>3. db'.rev = rev /\ db'.state.schema = schema
    BY <2>2
  <2>4. transaction' = NoTransaction
    BY <1>8 DEF WriteRow
  <2>5. QED  BY <1>1, <1>3, <2>3, <2>4 DEF FollowsInv
<1>9. ASSUME NEW c \in Container, NEW w, EraseRow(c, w)  PROVE FollowsInv'
  <2>1. db'.rev = rev /\ db'.state.schema = schema /\ transaction' = NoTransaction
    BY <1>1, <1>2, <1>9, ErasingIs
  <2>2. QED  BY <1>1, <1>3, <2>1 DEF FollowsInv
<1>10. CASE Next
  <2>1. ASSUME NEW c \in Container, NEW image, \/ Deploy(c, image) \/ ReadVersion(c)
                                               \/ LoseRace(c) \/ Crash(c)
        PROVE  db' = db /\ (transaction' = transaction \/ transaction' = NoTransaction)
    BY <2>1 DEF Deploy, ReadVersion, LoseRace, Crash
  <2>2. ASSUME NEW c \in Container, BeginUpgrade(c)  PROVE FollowsInv'
    BY <1>6, <2>2 DEF BeginUpgrade
  <2>3. ASSUME NEW to \in Targets, BeginDowngrade(to)  PROVE FollowsInv'
    BY <1>6, <2>3 DEF BeginDowngrade
  <2>4. Rollback => db' = db /\ transaction' = NoTransaction
    BY DEF Rollback
  <2>5. QED
    BY <1>4, <1>5, <1>7, <1>8, <1>10, <1>9, <2>1, <2>2, <2>3, <2>4, FollowsRevising DEF Next
<1>11. QED  BY <1>4, <1>10 DEF vars

\* However often the database goes up and down, and whatever races, crashes
\* and refusals there are on the way, the schema at a revision is the one that
\* the upgrades describe for it, but for the two search indexes that the way
\* back from the collapse leaves out.
THEOREM SchemasFollowRevisions == Spec => []SchemaFollowsRevision
<1>1. FollowsInv => SchemaFollowsRevision
  BY DEF FollowsInv, Follows, SchemaFollowsRevision
<1>2. QED  BY <1>1, FollowsInitially, FollowsNext, PTL DEF Spec
-----------------------------------------------------------------------------
(* The order in which the first twenty revisions create their tables.         *)

\* Which statement of its revision creates a table.
Nth(t) ==
    IF t \in {"languages", "regions", "users", "amenities", "venue_groups", "venues", "permissions",
              "menu_categories", "service_catalog", "banners", "subscription_plans", "bookings",
              "orders", "payment_cards", "reviews", "notifications", "venue_daily_stats",
              "sms_messages"} THEN 1
    ELSE IF t \in {"districts", "venue_types", "venue_amenities", "staff_roles",
                   "menu_category_translations", "promo_codes", "subscription_plan_translations",
                   "order_items", "payments", "review_photos", "search_history"} THEN 2
    ELSE IF t \in {"user_recent_locations", "auth_identities", "amenity_translations",
                   "venue_group_translations", "venue_guest_tiers", "staff_role_permissions",
                   "menu_items", "service_catalog_translations", "user_subscriptions",
                   "venue_blocked_slots", "order_payments", "review_replies", "favorites"} THEN 3
    ELSE IF t \in {"venue_type_translations", "venue_photos", "staff_role_translations",
                   "menu_item_branches", "venue_services", "banner_translations", "booking_items",
                   "order_status_history", "refunds", "conversations"} THEN 4
    ELSE IF t \in {"devices", "venue_special_days", "staff_invitations", "menu_item_translations",
                   "venue_service_items", "user_promo_codes", "booking_price_lines", "receipts",
                   "messages"} THEN 5
    ELSE IF t \in {"friendships", "venue_translations", "menu_item_variants",
                   "promo_code_redemptions"} THEN 6
    ELSE IF t \in {"verification_codes", "venue_venue_types", "venue_staff",
                   "menu_item_variant_branches", "booking_services"} THEN 7
    ELSE IF t \in {"refresh_tokens", "venue_working_hours", "menu_item_variant_translations",
                   "booking_status_history"} THEN 8
    ELSE IF t = "venue_zones" THEN 9
    ELSE IF t = "venue_tables" THEN 10
    ELSE IF t = "venue_zone_translations" THEN 11
    ELSE 12

\* Tables that are created before the k-th statement of revision r.
Came(t, r, k) == Birth(t) < r \/ (Birth(t) = r /\ Nth(t) < k)

\* The k-th statement of a revision creates its table, for which all tables that
\* it points to have come before; of the tables that go later on, only the
\* three targets are pointed to by a table that stays.
Creates(st, r, k) == \E t, R, I :
    /\ st = Create(t, R, I) /\ Birth(t) = r /\ Nth(t) = k
    /\ \A q \in R : Came(q, r, k)
    /\ t \in PassingTables \/ R \cap PassingTables \subseteq PassingTargets

\* It adds to the table created before it, or a key to one of an older revision.
Extends(st, r, k) ==
    /\ st.do = "add"
    /\ \A o \in st.what :
        \/ o.kind \in {"column", "check"} /\ Birth(o.table) = r /\ Nth(o.table) + 1 = k
        \/ /\ o \in LaterKeys(r) /\ o.to = {o.name} /\ Came(o.name, r, k)
           /\ k = IF o.name = "user_subscriptions" THEN 10 ELSE 9

Shaped(st, r, k) == Creates(st, r, k) \/ Extends(st, r, k) \/ (r = 19 /\ st.do = "insert")

AllShaped(r) == \A k \in 1..Len(Upgrades[r]) : Shaped(Upgrades[r][k], r, k)

LEMMA CreatesIt ==
  ASSUME NEW t, NEW R, NEW I, NEW r, NEW k, Birth(t) = r, Nth(t) = k,
         \A q \in R : Birth(q) < r \/ (Birth(q) = r /\ Nth(q) < k),
         t \in PassingTables \/ R \cap PassingTables \subseteq PassingTargets
  PROVE  Shaped(Create(t, R, I), r, k)
  BY DEF Shaped, Creates, Came

LEMMA KeysAre == \A t, r : /\ ForeignKey(t, r).kind = "key" /\ ForeignKey(t, r).table = t
                           /\ ForeignKey(t, r).name = r /\ ForeignKey(t, r).to = {r}
  BY DEF ForeignKey, Object

LEMMA FirstShapes == \A r \in 1..6 : AllShaped(r)
<1> USE DEF Birth, Nth, PassingTables, PassingTargets, PlanTables, TextTables, CodeTables,
            MoneyTables, TypeTables
<1>1. AllShaped(1)
  BY DEF AllShaped, Upgrades, ExtensionsUp
<1>2. AllShaped(2)
  <2>1. Upgrades[2] = LocalizationUp
    BY DEF Upgrades
  <2>2. \A i \in 1..Len(LocalizationUp) : Shaped(LocalizationUp[i], 2, i)
    BY CreatesIt DEF LocalizationUp
  <2>3. QED  BY <2>1, <2>2 DEF AllShaped
<1>3. AllShaped(3)
  <2>1. Upgrades[3] = GeoUp
    BY DEF Upgrades
  <2>2. \A i \in 1..Len(GeoUp) : Shaped(GeoUp[i], 3, i)
    BY CreatesIt DEF GeoUp
  <2>3. QED  BY <2>1, <2>2 DEF AllShaped
<1>4. AllShaped(4)
  <2>1. Upgrades[4] = AuthUsers \o AuthSessions
    BY DEF Upgrades
  <2>2. Shaped(Add({Column("users", "phone_verified_at"), Column("users",
             "email_verified_at"), Check("users", "identity", {"phone", "email"})}), 4, 2)
    BY Statements, ColumnIs, CheckIs DEF Shaped, Extends
  <2>3. Shaped(Add({Check("auth_identities", "provider", {"apple", "google"})}), 4, 4)
    BY Statements, ColumnIs, CheckIs DEF Shaped, Extends
  <2>4. Shaped(Add({ForeignKey("user_recent_locations", "users")}), 4, 9)
    BY Statements, KeysAre DEF Shaped, Extends, LaterKeys, Came
  <2>5. \A i \in 1..Len(AuthUsers) : Shaped(AuthUsers[i], 4, i)
    BY <2>2, <2>3, CreatesIt DEF AuthUsers
  <2>6. \A i \in 1..Len(AuthSessions) : Shaped(AuthSessions[i], 4, 5 + i)
    BY <2>4, CreatesIt DEF AuthSessions
  <2>7. QED  BY <2>1, <2>5, <2>6 DEF AllShaped, AuthUsers, AuthSessions
<1>5. AllShaped(5)
  <2>1. Upgrades[5] = CatalogUp
    BY DEF Upgrades
  <2>2. \A i \in 1..Len(CatalogUp) : Shaped(CatalogUp[i], 5, i)
    BY CreatesIt DEF CatalogUp
  <2>3. QED  BY <2>1, <2>2 DEF AllShaped
<1>6. AllShaped(6)
  <2>1. Upgrades[6] = VenueGroupsUp
    BY DEF Upgrades
  <2>2. Shaped(Add({Column("venue_groups", "primary_venue_type_id")}), 6, 2)
    BY Statements, ColumnIs, CheckIs DEF Shaped, Extends
  <2>3. \A i \in 1..Len(VenueGroupsUp) : Shaped(VenueGroupsUp[i], 6, i)
    BY <2>2, CreatesIt DEF VenueGroupsUp
  <2>4. QED  BY <2>1, <2>3 DEF AllShaped
<1>7. \A r \in 1..6 : r \in {1, 2, 3, 4, 5, 6}
  OBVIOUS
<1>8. QED  BY ONLY <1>1, <1>2, <1>3, <1>4, <1>5, <1>6, <1>7

LEMMA MiddleShapes == \A r \in 7..10 : AllShaped(r)
<1> USE DEF Birth, Nth, PassingTables, PassingTargets, PlanTables, TextTables, CodeTables,
            MoneyTables, TypeTables
<1>1. AllShaped(7)
  <2>1. Upgrades[7] = VenuesItself \o VenuesCalendar \o VenuesFloor
    BY DEF Upgrades
  <2>2. \A i \in 1..Len(VenuesItself) : Shaped(VenuesItself[i], 7, i)
    BY CreatesIt DEF VenuesItself
  <2>3. \A i \in 1..Len(VenuesCalendar) : Shaped(VenuesCalendar[i], 7, 4 + i)
    BY CreatesIt DEF VenuesCalendar
  <2>4. \A i \in 1..Len(VenuesFloor) : Shaped(VenuesFloor[i], 7, 8 + i)
    BY CreatesIt DEF VenuesFloor
  <2>5. QED  BY <2>1, <2>2, <2>3, <2>4 DEF AllShaped, VenuesItself, VenuesCalendar, VenuesFloor
<1>2. AllShaped(8)
  <2>1. Upgrades[8] = StaffRoles \o StaffPeople
    BY DEF Upgrades
  <2>2. Shaped(Add({Column("staff_invitations", "sms_sent_at"),
             Column("staff_invitations", "sms_provider_id")}), 8, 6)
    BY Statements, ColumnIs, CheckIs DEF Shaped, Extends
  <2>3. \A i \in 1..Len(StaffRoles) : Shaped(StaffRoles[i], 8, i)
    BY CreatesIt DEF StaffRoles
  <2>4. \A i \in 1..Len(StaffPeople) : Shaped(StaffPeople[i], 8, 4 + i)
    BY <2>2, CreatesIt DEF StaffPeople
  <2>5. QED  BY <2>1, <2>3, <2>4 DEF AllShaped, StaffRoles, StaffPeople
<1>3. AllShaped(9)
  <2>1. Upgrades[9] = MenuDishes \o MenuVariants
    BY DEF Upgrades
  <2>2. \A i \in 1..Len(MenuDishes) : Shaped(MenuDishes[i], 9, i)
    BY CreatesIt DEF MenuDishes
  <2>3. \A i \in 1..Len(MenuVariants) : Shaped(MenuVariants[i], 9, 5 + i)
    BY CreatesIt DEF MenuVariants
  <2>4. QED  BY <2>1, <2>2, <2>3 DEF AllShaped, MenuDishes, MenuVariants
<1>4. AllShaped(10)
  <2>1. Upgrades[10] = ServicesUp
    BY DEF Upgrades
  <2>2. Shaped(Add({Column("service_catalog", "applies_to_venue_type_id")}), 10, 2)
    BY Statements, ColumnIs, CheckIs DEF Shaped, Extends
  <2>3. \A i \in 1..Len(ServicesUp) : Shaped(ServicesUp[i], 10, i)
    BY <2>2, CreatesIt DEF ServicesUp
  <2>4. QED  BY <2>1, <2>3 DEF AllShaped
<1>5. \A r \in 7..10 : r \in {7, 8, 9, 10}
  OBVIOUS
<1>6. QED  BY ONLY <1>1, <1>2, <1>3, <1>4, <1>5

LEMMA MoneyShapes == \A r \in 11..13 : AllShaped(r)
<1> USE DEF Birth, Nth, PassingTables, PassingTargets, PlanTables, TextTables, CodeTables,
            MoneyTables, TypeTables
<1>1. AllShaped(11)
  <2>1. Upgrades[11] = PromotionsUp
    BY DEF Upgrades
  <2>2. Shaped(Add({AppliesTo}), 11, 3)
    BY Statements, ColumnIs, CheckIs DEF Shaped, Extends, AppliesTo
  <2>3. Shaped(Add({Column("promo_code_redemptions", "subscription_id")}), 11, 7)
    BY Statements, ColumnIs, CheckIs DEF Shaped, Extends
  <2>4. \A i \in 1..Len(PromotionsUp) : Shaped(PromotionsUp[i], 11, i)
    BY <2>2, <2>3, CreatesIt DEF PromotionsUp
  <2>5. QED  BY <2>1, <2>4 DEF AllShaped
<1>2. AllShaped(12)
  <2>1. Upgrades[12] = SubscriptionsUp
    BY DEF Upgrades
  <2>2. \A i \in 1..Len(SubscriptionsUp) : Shaped(SubscriptionsUp[i], 12, i)
    BY CreatesIt DEF SubscriptionsUp
  <2>3. QED  BY <2>1, <2>2 DEF AllShaped
<1>3. AllShaped(13)
  <2>1. Upgrades[13] = BookingsItself \o BookingsChildren
    BY DEF Upgrades
  <2>2. Shaped(Add({Column("bookings", "promo_code_id"), Column("bookings",
             "discount_amount")}), 13, 2)
    BY Statements, ColumnIs, CheckIs DEF Shaped, Extends
  <2>3. Shaped(Add({AnyPriceLine}), 13, 6)
    BY Statements, ColumnIs, CheckIs DEF Shaped, Extends, AnyPriceLine
  <2>4. Shaped(Add({ForeignKey("promo_code_redemptions", "bookings")}), 13, 9)
    BY Statements, KeysAre DEF Shaped, Extends, LaterKeys, Came
  <2>5. Shaped(Add({ForeignKey("promo_code_redemptions", "user_subscriptions")}), 13, 10)
    BY Statements, KeysAre DEF Shaped, Extends, LaterKeys, Came
  <2>6. \A i \in 1..Len(BookingsItself) : Shaped(BookingsItself[i], 13, i)
    BY <2>2, CreatesIt DEF BookingsItself
  <2>7. \A i \in 1..Len(BookingsChildren) : Shaped(BookingsChildren[i], 13, 2 + i)
    BY <2>3, <2>4, <2>5, CreatesIt DEF BookingsChildren
  <2>8. QED  BY <2>1, <2>6, <2>7 DEF AllShaped, BookingsItself, BookingsChildren
<1>4. \A r \in 11..13 : r \in {11, 12, 13}
  OBVIOUS
<1>5. QED  BY ONLY <1>1, <1>2, <1>3, <1>4

LEMMA OtherShapes == \A r \in 14..20 : AllShaped(r)
<1> USE DEF Birth, Nth, PassingTables, PassingTargets, PlanTables, TextTables, CodeTables,
            MoneyTables, TypeTables
<1>1. AllShaped(14)
  <2>1. Upgrades[14] = OrdersItself \o OrdersMoney
    BY DEF Upgrades
  <2>2. \A i \in 1..Len(OrdersItself) : Shaped(OrdersItself[i], 14, i)
    BY CreatesIt DEF OrdersItself
  <2>3. \A i \in 1..Len(OrdersMoney) : Shaped(OrdersMoney[i], 14, 2 + i)
    BY CreatesIt DEF OrdersMoney
  <2>4. QED  BY <2>1, <2>2, <2>3 DEF AllShaped, OrdersItself, OrdersMoney
<1>2. AllShaped(15)
  <2>1. Upgrades[15] = PaymentsUp
    BY DEF Upgrades
  <2>2. Shaped(Add({Column("payments", "subscription_id")} \cup PaymentChecks), 15, 3)
    BY Statements, ColumnIs, CheckIs DEF Shaped, Extends, PaymentChecks
  <2>3. \A i \in 1..Len(PaymentsUp) : Shaped(PaymentsUp[i], 15, i)
    BY <2>2, CreatesIt DEF PaymentsUp
  <2>4. QED  BY <2>1, <2>3 DEF AllShaped
<1>3. AllShaped(16)
  <2>1. Upgrades[16] = ReviewsUp
    BY DEF Upgrades
  <2>2. \A i \in 1..Len(ReviewsUp) : Shaped(ReviewsUp[i], 16, i)
    BY CreatesIt DEF ReviewsUp
  <2>3. QED  BY <2>1, <2>2 DEF AllShaped
<1>4. AllShaped(17)
  <2>1. Upgrades[17] = EngagementUp
    BY DEF Upgrades
  <2>2. \A i \in 1..Len(EngagementUp) : Shaped(EngagementUp[i], 17, i)
    BY CreatesIt DEF EngagementUp
  <2>3. QED  BY <2>1, <2>2 DEF AllShaped
<1>5. AllShaped(18)
  <2>1. Upgrades[18] = AnalyticsUp
    BY DEF Upgrades
  <2>2. \A i \in 1..Len(AnalyticsUp) : Shaped(AnalyticsUp[i], 18, i)
    BY CreatesIt DEF AnalyticsUp
  <2>3. QED  BY <2>1, <2>2 DEF AllShaped
<1>6. AllShaped(19)
  BY Statements DEF AllShaped, Shaped, Upgrades, ReferenceDataUp
<1>7. AllShaped(20)
  <2>1. Upgrades[20] = SmsMessagesUp
    BY DEF Upgrades
  <2>2. \A i \in 1..Len(SmsMessagesUp) : Shaped(SmsMessagesUp[i], 20, i)
    BY CreatesIt DEF SmsMessagesUp
  <2>3. QED  BY <2>1, <2>2 DEF AllShaped
<1>8. \A r \in 14..20 : r \in {14, 15, 16, 17, 18, 19, 20}
  OBVIOUS
<1>9. QED  BY ONLY <1>1, <1>2, <1>3, <1>4, <1>5, <1>6, <1>7, <1>8

\* Every table of a revision is created by the statement of its number.
Founds(st, t) == st.do = "add" /\ Relation(t) \in st.what

AllFounded(r) == \A t : Birth(t) = r =>
    Nth(t) \in 1..Len(Upgrades[r]) /\ Founds(Upgrades[r][Nth(t)], t)

LEMMA CreateFounds == \A t, R, I : Founds(Create(t, R, I), t)
  BY Statements DEF Founds, Made

LEMMA TablesAreFounded == \A r \in 1..20 : AllFounded(r)
<1>1. AllFounded(2)
  <2>1. Upgrades[2] = LocalizationUp
    BY DEF Upgrades
  <2>2. \A t : Birth(t) = 2 => t \in {"languages"}
    BY DEF Birth
  <2>3. /\ Nth("languages") = 1
    BY DEF Nth
  <2>4. /\ Founds(LocalizationUp[1], "languages")
    BY CreateFounds DEF LocalizationUp
  <2>5. Len(Upgrades[2]) = 1
    BY <2>1 DEF LocalizationUp
  <2>6. QED  BY ONLY <2>1, <2>2, <2>3, <2>4, <2>5 DEF AllFounded
<1>2. AllFounded(3)
  <2>1. Upgrades[3] = GeoUp
    BY DEF Upgrades
  <2>2. \A t : Birth(t) = 3 => t \in {"regions", "districts", "user_recent_locations"}
    BY DEF Birth
  <2>3. /\ Nth("regions") = 1 /\ Nth("districts") = 2 /\ Nth("user_recent_locations") = 3
    BY DEF Nth
  <2>4. /\ Founds(GeoUp[1], "regions") /\ Founds(GeoUp[2], "districts")
        /\ Founds(GeoUp[3], "user_recent_locations")
    BY CreateFounds DEF GeoUp
  <2>5. Len(Upgrades[3]) = 3
    BY <2>1 DEF GeoUp
  <2>6. QED  BY ONLY <2>1, <2>2, <2>3, <2>4, <2>5 DEF AllFounded
<1>3. AllFounded(4)
  <2>1. Upgrades[4] = AuthUsers \o AuthSessions
    BY DEF Upgrades
  <2>2. \A t : Birth(t) = 4 => t \in {"users", "auth_identities", "devices",
            "friendships", "verification_codes", "refresh_tokens"}
    BY DEF Birth
  <2>3. /\ Nth("users") = 1 /\ Nth("auth_identities") = 3 /\ Nth("devices") = 5
        /\ Nth("friendships") = 6 /\ Nth("verification_codes") = 7 /\ Nth("refresh_tokens") = 8
    BY DEF Nth
  <2>4. /\ Founds(AuthUsers[1], "users") /\ Founds(AuthUsers[3], "auth_identities")
        /\ Founds(AuthUsers[5], "devices")
    BY CreateFounds DEF AuthUsers
  <2>5. /\ Founds(AuthSessions[1], "friendships") /\ Founds(AuthSessions[2], "verification_codes")
        /\ Founds(AuthSessions[3], "refresh_tokens")
    BY CreateFounds DEF AuthSessions
  <2>6. /\ Len(Upgrades[4]) = 9 /\ Upgrades[4][1] = AuthUsers[1] /\ Upgrades[4][3] = AuthUsers[3]
        /\ Upgrades[4][5] = AuthUsers[5] /\ Upgrades[4][6] = AuthSessions[1]
        /\ Upgrades[4][7] = AuthSessions[2] /\ Upgrades[4][8] = AuthSessions[3]
    BY <2>1 DEF AuthUsers, AuthSessions
  <2>7. QED  BY ONLY <2>2, <2>3, <2>4, <2>5, <2>6 DEF AllFounded
<1>4. AllFounded(5)
  <2>1. Upgrades[5] = CatalogUp
    BY DEF Upgrades
  <2>2. \A t : Birth(t) = 5 => t \in {"amenities", "venue_types", "amenity_translations",
            "venue_type_translations"}
    BY DEF Birth
  <2>3. /\ Nth("amenities") = 1 /\ Nth("venue_types") = 2 /\ Nth("amenity_translations") = 3
        /\ Nth("venue_type_translations") = 4
    BY DEF Nth
  <2>4. /\ Founds(CatalogUp[1], "amenities") /\ Founds(CatalogUp[2], "venue_types")
        /\ Founds(CatalogUp[3], "amenity_translations")
        /\ Founds(CatalogUp[4], "venue_type_translations")
    BY CreateFounds DEF CatalogUp
  <2>5. Len(Upgrades[5]) = 4
    BY <2>1 DEF CatalogUp
  <2>6. QED  BY ONLY <2>1, <2>2, <2>3, <2>4, <2>5 DEF AllFounded
<1>5. AllFounded(6)
  <2>1. Upgrades[6] = VenueGroupsUp
    BY DEF Upgrades
  <2>2. \A t : Birth(t) = 6 => t \in {"venue_groups", "venue_group_translations"}
    BY DEF Birth
  <2>3. /\ Nth("venue_groups") = 1 /\ Nth("venue_group_translations") = 3
    BY DEF Nth
  <2>4. /\ Founds(VenueGroupsUp[1], "venue_groups")
        /\ Founds(VenueGroupsUp[3], "venue_group_translations")
    BY CreateFounds DEF VenueGroupsUp
  <2>5. Len(Upgrades[6]) = 3
    BY <2>1 DEF VenueGroupsUp
  <2>6. QED  BY ONLY <2>1, <2>2, <2>3, <2>4, <2>5 DEF AllFounded
<1>6. AllFounded(7)
  <2>1. Upgrades[7] = VenuesItself \o VenuesCalendar \o VenuesFloor
    BY DEF Upgrades
  <2>2. \A t : Birth(t) = 7 => t \in {"venues", "venue_amenities", "venue_guest_tiers",
            "venue_photos", "venue_special_days", "venue_translations", "venue_venue_types",
            "venue_working_hours", "venue_zones", "venue_tables", "venue_zone_translations",
            "venue_table_qrs"}
    BY DEF Birth
  <2>3. /\ Nth("venues") = 1 /\ Nth("venue_amenities") = 2 /\ Nth("venue_guest_tiers") = 3
        /\ Nth("venue_photos") = 4 /\ Nth("venue_special_days") = 5 /\ Nth("venue_translations") = 6
        /\ Nth("venue_venue_types") = 7 /\ Nth("venue_working_hours") = 8 /\ Nth("venue_zones") = 9
        /\ Nth("venue_tables") = 10 /\ Nth("venue_zone_translations") = 11
        /\ Nth("venue_table_qrs") = 12
    BY DEF Nth
  <2>4. /\ Founds(VenuesItself[1], "venues") /\ Founds(VenuesItself[2], "venue_amenities")
        /\ Founds(VenuesItself[3], "venue_guest_tiers") /\ Founds(VenuesItself[4], "venue_photos")
    BY CreateFounds DEF VenuesItself
  <2>5. /\ Founds(VenuesCalendar[1], "venue_special_days")
        /\ Founds(VenuesCalendar[2], "venue_translations")
        /\ Founds(VenuesCalendar[3], "venue_venue_types")
        /\ Founds(VenuesCalendar[4], "venue_working_hours")
    BY CreateFounds DEF VenuesCalendar
  <2>6. /\ Founds(VenuesFloor[1], "venue_zones") /\ Founds(VenuesFloor[2], "venue_tables")
        /\ Founds(VenuesFloor[3], "venue_zone_translations")
        /\ Founds(VenuesFloor[4], "venue_table_qrs")
    BY CreateFounds DEF VenuesFloor
  <2>7. /\ Len(Upgrades[7]) = 12 /\ Upgrades[7][1] = VenuesItself[1]
        /\ Upgrades[7][2] = VenuesItself[2] /\ Upgrades[7][3] = VenuesItself[3]
        /\ Upgrades[7][4] = VenuesItself[4] /\ Upgrades[7][5] = VenuesCalendar[1]
        /\ Upgrades[7][6] = VenuesCalendar[2] /\ Upgrades[7][7] = VenuesCalendar[3]
        /\ Upgrades[7][8] = VenuesCalendar[4] /\ Upgrades[7][9] = VenuesFloor[1]
        /\ Upgrades[7][10] = VenuesFloor[2] /\ Upgrades[7][11] = VenuesFloor[3]
        /\ Upgrades[7][12] = VenuesFloor[4]
    BY <2>1 DEF VenuesItself, VenuesCalendar, VenuesFloor
  <2>8. QED  BY ONLY <2>2, <2>3, <2>4, <2>5, <2>6, <2>7 DEF AllFounded
<1>7. AllFounded(8)
  <2>1. Upgrades[8] = StaffRoles \o StaffPeople
    BY DEF Upgrades
  <2>2. \A t : Birth(t) = 8 => t \in {"permissions", "staff_roles",
            "staff_role_permissions", "staff_role_translations", "staff_invitations", "venue_staff"}
    BY DEF Birth
  <2>3. /\ Nth("permissions") = 1 /\ Nth("staff_roles") = 2 /\ Nth("staff_role_permissions") = 3
        /\ Nth("staff_role_translations") = 4 /\ Nth("staff_invitations") = 5
        /\ Nth("venue_staff") = 7
    BY DEF Nth
  <2>4. /\ Founds(StaffRoles[1], "permissions") /\ Founds(StaffRoles[2], "staff_roles")
        /\ Founds(StaffRoles[3], "staff_role_permissions")
        /\ Founds(StaffRoles[4], "staff_role_translations")
    BY CreateFounds DEF StaffRoles
  <2>5. /\ Founds(StaffPeople[1], "staff_invitations") /\ Founds(StaffPeople[3], "venue_staff")
    BY CreateFounds DEF StaffPeople
  <2>6. /\ Len(Upgrades[8]) = 7 /\ Upgrades[8][1] = StaffRoles[1] /\ Upgrades[8][2] = StaffRoles[2]
        /\ Upgrades[8][3] = StaffRoles[3] /\ Upgrades[8][4] = StaffRoles[4]
        /\ Upgrades[8][5] = StaffPeople[1] /\ Upgrades[8][7] = StaffPeople[3]
    BY <2>1 DEF StaffRoles, StaffPeople
  <2>7. QED  BY ONLY <2>2, <2>3, <2>4, <2>5, <2>6 DEF AllFounded
<1>8. AllFounded(9)
  <2>1. Upgrades[9] = MenuDishes \o MenuVariants
    BY DEF Upgrades
  <2>2. \A t : Birth(t) = 9 => t \in {"menu_categories", "menu_category_translations",
            "menu_items", "menu_item_branches", "menu_item_translations", "menu_item_variants",
            "menu_item_variant_branches", "menu_item_variant_translations"}
    BY DEF Birth
  <2>3. /\ Nth("menu_categories") = 1 /\ Nth("menu_category_translations") = 2
        /\ Nth("menu_items") = 3 /\ Nth("menu_item_branches") = 4
        /\ Nth("menu_item_translations") = 5 /\ Nth("menu_item_variants") = 6
        /\ Nth("menu_item_variant_branches") = 7 /\ Nth("menu_item_variant_translations") = 8
    BY DEF Nth
  <2>4. /\ Founds(MenuDishes[1], "menu_categories")
        /\ Founds(MenuDishes[2], "menu_category_translations")
        /\ Founds(MenuDishes[3], "menu_items") /\ Founds(MenuDishes[4], "menu_item_branches")
        /\ Founds(MenuDishes[5], "menu_item_translations")
    BY CreateFounds DEF MenuDishes
  <2>5. /\ Founds(MenuVariants[1], "menu_item_variants")
        /\ Founds(MenuVariants[2], "menu_item_variant_branches")
        /\ Founds(MenuVariants[3], "menu_item_variant_translations")
    BY CreateFounds DEF MenuVariants
  <2>6. /\ Len(Upgrades[9]) = 8 /\ Upgrades[9][1] = MenuDishes[1] /\ Upgrades[9][2] = MenuDishes[2]
        /\ Upgrades[9][3] = MenuDishes[3] /\ Upgrades[9][4] = MenuDishes[4]
        /\ Upgrades[9][5] = MenuDishes[5] /\ Upgrades[9][6] = MenuVariants[1]
        /\ Upgrades[9][7] = MenuVariants[2] /\ Upgrades[9][8] = MenuVariants[3]
    BY <2>1 DEF MenuDishes, MenuVariants
  <2>7. QED  BY ONLY <2>2, <2>3, <2>4, <2>5, <2>6 DEF AllFounded
<1>9. AllFounded(10)
  <2>1. Upgrades[10] = ServicesUp
    BY DEF Upgrades
  <2>2. \A t : Birth(t) = 10 => t \in {"service_catalog", "service_catalog_translations",
            "venue_services", "venue_service_items"}
    BY DEF Birth
  <2>3. /\ Nth("service_catalog") = 1 /\ Nth("service_catalog_translations") = 3
        /\ Nth("venue_services") = 4 /\ Nth("venue_service_items") = 5
    BY DEF Nth
  <2>4. /\ Founds(ServicesUp[1], "service_catalog")
        /\ Founds(ServicesUp[3], "service_catalog_translations")
        /\ Founds(ServicesUp[4], "venue_services") /\ Founds(ServicesUp[5], "venue_service_items")
    BY CreateFounds DEF ServicesUp
  <2>5. Len(Upgrades[10]) = 5
    BY <2>1 DEF ServicesUp
  <2>6. QED  BY ONLY <2>1, <2>2, <2>3, <2>4, <2>5 DEF AllFounded
<1>10. AllFounded(11)
  <2>1. Upgrades[11] = PromotionsUp
    BY DEF Upgrades
  <2>2. \A t : Birth(t) = 11 => t \in {"banners", "promo_codes", "banner_translations",
            "user_promo_codes", "promo_code_redemptions"}
    BY DEF Birth
  <2>3. /\ Nth("banners") = 1 /\ Nth("promo_codes") = 2 /\ Nth("banner_translations") = 4
        /\ Nth("user_promo_codes") = 5 /\ Nth("promo_code_redemptions") = 6
    BY DEF Nth
  <2>4. /\ Founds(PromotionsUp[1], "banners") /\ Founds(PromotionsUp[2], "promo_codes")
        /\ Founds(PromotionsUp[4], "banner_translations")
        /\ Founds(PromotionsUp[5], "user_promo_codes")
        /\ Founds(PromotionsUp[6], "promo_code_redemptions")
    BY CreateFounds DEF PromotionsUp
  <2>5. Len(Upgrades[11]) = 7
    BY <2>1 DEF PromotionsUp
  <2>6. QED  BY ONLY <2>1, <2>2, <2>3, <2>4, <2>5 DEF AllFounded
<1>11. AllFounded(12)
  <2>1. Upgrades[12] = SubscriptionsUp
    BY DEF Upgrades
  <2>2. \A t : Birth(t) = 12 => t \in {"subscription_plans",
            "subscription_plan_translations", "user_subscriptions"}
    BY DEF Birth
  <2>3. /\ Nth("subscription_plans") = 1 /\ Nth("subscription_plan_translations") = 2
        /\ Nth("user_subscriptions") = 3
    BY DEF Nth
  <2>4. /\ Founds(SubscriptionsUp[1], "subscription_plans")
        /\ Founds(SubscriptionsUp[2], "subscription_plan_translations")
        /\ Founds(SubscriptionsUp[3], "user_subscriptions")
    BY CreateFounds DEF SubscriptionsUp
  <2>5. Len(Upgrades[12]) = 3
    BY <2>1 DEF SubscriptionsUp
  <2>6. QED  BY ONLY <2>1, <2>2, <2>3, <2>4, <2>5 DEF AllFounded
<1>12. AllFounded(13)
  <2>1. Upgrades[13] = BookingsItself \o BookingsChildren
    BY DEF Upgrades
  <2>2. \A t : Birth(t) = 13 => t \in {"bookings", "venue_blocked_slots", "booking_items",
            "booking_price_lines", "booking_services", "booking_status_history"}
    BY DEF Birth
  <2>3. /\ Nth("bookings") = 1 /\ Nth("venue_blocked_slots") = 3 /\ Nth("booking_items") = 4
        /\ Nth("booking_price_lines") = 5 /\ Nth("booking_services") = 7
        /\ Nth("booking_status_history") = 8
    BY DEF Nth
  <2>4. /\ Founds(BookingsItself[1], "bookings")
    BY CreateFounds DEF BookingsItself
  <2>5. /\ Founds(BookingsChildren[1], "venue_blocked_slots")
        /\ Founds(BookingsChildren[2], "booking_items")
        /\ Founds(BookingsChildren[3], "booking_price_lines")
        /\ Founds(BookingsChildren[5], "booking_services")
        /\ Founds(BookingsChildren[6], "booking_status_history")
    BY CreateFounds DEF BookingsChildren
  <2>6. /\ Len(Upgrades[13]) = 10 /\ Upgrades[13][1] = BookingsItself[1]
        /\ Upgrades[13][3] = BookingsChildren[1] /\ Upgrades[13][4] = BookingsChildren[2]
        /\ Upgrades[13][5] = BookingsChildren[3] /\ Upgrades[13][7] = BookingsChildren[5]
        /\ Upgrades[13][8] = BookingsChildren[6]
    BY <2>1 DEF BookingsItself, BookingsChildren
  <2>7. QED  BY ONLY <2>2, <2>3, <2>4, <2>5, <2>6 DEF AllFounded
<1>13. AllFounded(14)
  <2>1. Upgrades[14] = OrdersItself \o OrdersMoney
    BY DEF Upgrades
  <2>2. \A t : Birth(t) = 14 => t \in {"orders", "order_items", "order_payments",
            "order_status_history", "receipts"}
    BY DEF Birth
  <2>3. /\ Nth("orders") = 1 /\ Nth("order_items") = 2 /\ Nth("order_payments") = 3
        /\ Nth("order_status_history") = 4 /\ Nth("receipts") = 5
    BY DEF Nth
  <2>4. /\ Founds(OrdersItself[1], "orders") /\ Founds(OrdersItself[2], "order_items")
    BY CreateFounds DEF OrdersItself
  <2>5. /\ Founds(OrdersMoney[1], "order_payments")
        /\ Founds(OrdersMoney[2], "order_status_history") /\ Founds(OrdersMoney[3], "receipts")
    BY CreateFounds DEF OrdersMoney
  <2>6. /\ Len(Upgrades[14]) = 5 /\ Upgrades[14][1] = OrdersItself[1]
        /\ Upgrades[14][2] = OrdersItself[2] /\ Upgrades[14][3] = OrdersMoney[1]
        /\ Upgrades[14][4] = OrdersMoney[2] /\ Upgrades[14][5] = OrdersMoney[3]
    BY <2>1 DEF OrdersItself, OrdersMoney
  <2>7. QED  BY ONLY <2>2, <2>3, <2>4, <2>5, <2>6 DEF AllFounded
<1>14. AllFounded(15)
  <2>1. Upgrades[15] = PaymentsUp
    BY DEF Upgrades
  <2>2. \A t : Birth(t) = 15 => t \in {"payment_cards", "payments", "refunds"}
    BY DEF Birth
  <2>3. /\ Nth("payment_cards") = 1 /\ Nth("payments") = 2 /\ Nth("refunds") = 4
    BY DEF Nth
  <2>4. /\ Founds(PaymentsUp[1], "payment_cards") /\ Founds(PaymentsUp[2], "payments")
        /\ Founds(PaymentsUp[4], "refunds")
    BY CreateFounds DEF PaymentsUp
  <2>5. Len(Upgrades[15]) = 4
    BY <2>1 DEF PaymentsUp
  <2>6. QED  BY ONLY <2>1, <2>2, <2>3, <2>4, <2>5 DEF AllFounded
<1>15. AllFounded(16)
  <2>1. Upgrades[16] = ReviewsUp
    BY DEF Upgrades
  <2>2. \A t : Birth(t) = 16 => t \in {"reviews", "review_photos", "review_replies"}
    BY DEF Birth
  <2>3. /\ Nth("reviews") = 1 /\ Nth("review_photos") = 2 /\ Nth("review_replies") = 3
    BY DEF Nth
  <2>4. /\ Founds(ReviewsUp[1], "reviews") /\ Founds(ReviewsUp[2], "review_photos")
        /\ Founds(ReviewsUp[3], "review_replies")
    BY CreateFounds DEF ReviewsUp
  <2>5. Len(Upgrades[16]) = 3
    BY <2>1 DEF ReviewsUp
  <2>6. QED  BY ONLY <2>1, <2>2, <2>3, <2>4, <2>5 DEF AllFounded
<1>16. AllFounded(17)
  <2>1. Upgrades[17] = EngagementUp
    BY DEF Upgrades
  <2>2. \A t : Birth(t) = 17 => t \in {"notifications", "search_history", "favorites",
            "conversations", "messages"}
    BY DEF Birth
  <2>3. /\ Nth("notifications") = 1 /\ Nth("search_history") = 2 /\ Nth("favorites") = 3
        /\ Nth("conversations") = 4 /\ Nth("messages") = 5
    BY DEF Nth
  <2>4. /\ Founds(EngagementUp[1], "notifications") /\ Founds(EngagementUp[2], "search_history")
        /\ Founds(EngagementUp[3], "favorites") /\ Founds(EngagementUp[4], "conversations")
        /\ Founds(EngagementUp[5], "messages")
    BY CreateFounds DEF EngagementUp
  <2>5. Len(Upgrades[17]) = 5
    BY <2>1 DEF EngagementUp
  <2>6. QED  BY ONLY <2>1, <2>2, <2>3, <2>4, <2>5 DEF AllFounded
<1>17. AllFounded(18)
  <2>1. Upgrades[18] = AnalyticsUp
    BY DEF Upgrades
  <2>2. \A t : Birth(t) = 18 => t \in {"venue_daily_stats"}
    BY DEF Birth
  <2>3. /\ Nth("venue_daily_stats") = 1
    BY DEF Nth
  <2>4. /\ Founds(AnalyticsUp[1], "venue_daily_stats")
    BY CreateFounds DEF AnalyticsUp
  <2>5. Len(Upgrades[18]) = 1
    BY <2>1 DEF AnalyticsUp
  <2>6. QED  BY ONLY <2>1, <2>2, <2>3, <2>4, <2>5 DEF AllFounded
<1>18. AllFounded(20)
  <2>1. Upgrades[20] = SmsMessagesUp
    BY DEF Upgrades
  <2>2. \A t : Birth(t) = 20 => t \in {"sms_messages"}
    BY DEF Birth
  <2>3. /\ Nth("sms_messages") = 1
    BY DEF Nth
  <2>4. /\ Founds(SmsMessagesUp[1], "sms_messages")
    BY CreateFounds DEF SmsMessagesUp
  <2>5. Len(Upgrades[20]) = 1
    BY <2>1 DEF SmsMessagesUp
  <2>6. QED  BY ONLY <2>1, <2>2, <2>3, <2>4, <2>5 DEF AllFounded
<1>19. AllFounded(1) /\ AllFounded(19)
  BY DEF AllFounded, Birth
<1>20. \A r \in 1..20 : r \in {1, 2, 3, 4, 5, 6, 7, 8, 9, 10, 11, 12, 13, 14, 15, 16, 17, 18, 19, 20}
  OBVIOUS
<1>21. QED  BY ONLY <1>1, <1>2, <1>3, <1>4, <1>5, <1>6, <1>7, <1>8, <1>9, <1>10, <1>11, <1>12,
         <1>13, <1>14, <1>15, <1>16, <1>17, <1>18, <1>19, <1>20
-----------------------------------------------------------------------------
(* The first twenty revisions are accepted.                                   *)

LEMMA RevisionsShaped == \A r \in 1..20 : AllShaped(r)
<1>1. \A r \in 1..20 : r \in 1..6 \/ r \in 7..10 \/ r \in 11..13 \/ r \in 14..20
  OBVIOUS
<1>2. QED  BY <1>1, FirstShapes, MiddleShapes, MoneyShapes, OtherShapes

LEMMA LaterKeysAre ==
  ASSUME NEW r \in 1..20, NEW o \in LaterKeys(r)
  PROVE  /\ o.kind = "key" /\ Birth(o.table) < r
         /\ o.name \notin PassingTables \/ o.name \in PassingTargets
<1>1. CASE r = 4
  <2>1. o = ForeignKey("user_recent_locations", "users")
    BY <1>1 DEF LaterKeys
  <2>2. o.kind = "key" /\ o.table = "user_recent_locations" /\ o.name = "users"
    BY <2>1, KeyIs
  <2>3. Birth("user_recent_locations") = 3
    BY DEF Birth
  <2>4. "users" \notin PassingTables
    BY DEF PassingTables, PlanTables, TextTables, CodeTables, MoneyTables, TypeTables
  <2>5. QED  BY <1>1, <2>2, <2>3, <2>4
<1>2. CASE r = 13
  <2>1. \/ o = ForeignKey("promo_code_redemptions", "bookings")
        \/ o = ForeignKey("promo_code_redemptions", "user_subscriptions")
    BY <1>2 DEF LaterKeys
  <2>2. o.kind = "key" /\ o.table = "promo_code_redemptions" /\ o.name \in {"bookings",
          "user_subscriptions"}
    BY <2>1, KeyIs
  <2>3. Birth("promo_code_redemptions") = 11
    BY DEF Birth
  <2>4. "bookings" \notin PassingTables /\ "user_subscriptions" \in PassingTargets
    BY DEF PassingTables, PassingTargets, PlanTables, TextTables, CodeTables, MoneyTables, TypeTables
  <2>5. QED  BY <1>2, <2>2, <2>3, <2>4
<1>3. r = 4 \/ r = 13
  BY DEF LaterKeys
<1>4. QED  BY <1>1, <1>2, <1>3

\* Where an object stands that the k-th statement of revision r adds.
Placed(o, r, k) ==
    /\ \/ Birth(o.table) = r /\ Nth(o.table) = k /\ o.kind \in {"table", "key", "index"}
       \/ Birth(o.table) = r /\ Nth(o.table) + 1 = k /\ o.kind \in {"column", "check"}
       \/ o \in LaterKeys(r) /\ k = IF o.name = "user_subscriptions" THEN 10 ELSE 9
    /\ o.kind = "key" => o.to = {o.name} /\ Came(o.name, r, k)
    /\ o.kind = "key" /\ o.name \in PassingTables =>
           o.name \in PassingTargets \/ o.table \in PassingTables

LEMMA AddedPlaced ==
  ASSUME NEW r \in 1..20, NEW k \in 1..Len(Upgrades[r]), Upgrades[r][k].do = "add",
         NEW o \in Upgrades[r][k].what
  PROVE  Placed(o, r, k)
<1>1. Shaped(Upgrades[r][k], r, k)
  BY RevisionsShaped DEF AllShaped
<1>2. CASE Creates(Upgrades[r][k], r, k)
  <2>1. PICK t, R, I :
          /\ Upgrades[r][k] = Create(t, R, I) /\ Birth(t) = r /\ Nth(t) = k
          /\ \A q \in R : Came(q, r, k)
          /\ t \in PassingTables \/ R \cap PassingTables \subseteq PassingTargets
    BY <1>2 DEF Creates
  <2>2. o \in Made(t, R, I)
    BY <2>1, Statements
  <2>3. /\ o.table = t /\ o.kind \in {"table", "key", "index"}
        /\ o.kind = "key" => o.name \in R /\ o = ForeignKey(t, o.name)
    BY <2>2, MadeHas
  <2>4. o.kind = "key" => o.to = {o.name}
    BY <2>3, KeysAre
  <2>5. QED  BY <2>1, <2>3, <2>4 DEF Placed
<1>3. CASE Extends(Upgrades[r][k], r, k)
  <2>1. CASE o \in LaterKeys(r) /\ o.to = {o.name} /\ Came(o.name, r, k)
                /\ k = IF o.name = "user_subscriptions" THEN 10 ELSE 9
    BY <2>1, LaterKeysAre DEF Placed
  <2>2. CASE o.kind \in {"column", "check"} /\ Birth(o.table) = r /\ Nth(o.table) + 1 = k
    BY <2>2 DEF Placed
  <2>3. QED  BY <1>3, <2>1, <2>2 DEF Extends
<1>4. QED  BY <1>1, <1>2, <1>3 DEF Shaped

LEMMA Numbers == \A t : Nth(t) \in Nat
  BY DEF Nth

\* No two statements of a revision name the same object.
LEMMA NamedOnce ==
  ASSUME NEW r \in 1..20, NEW k \in Nat, NEW i \in Nat, i < k,
         NEW o, Placed(o, r, k), NEW p, Placed(p, r, i)
  PROVE  ~SameName(o, p)
<1>1. SUFFICES ASSUME o.kind = p.kind, o.table = p.table, o.name = p.name  PROVE FALSE
  BY DEF SameName
<1>2. Nth(o.table) \in Nat
  BY Numbers
<1>3. o \in LaterKeys(r) \/ p \in LaterKeys(r) => o.kind = "key" /\ Birth(o.table) # r
  BY <1>1, LaterKeysAre
<1>4. QED  BY <1>1, <1>2, <1>3 DEF Placed

\* A table that has come is there.
LEMMA StandingTables ==
  ASSUME NEW r \in 0..20, NEW t, Birth(t) <= r
  PROVE  Relation(t) \in Intended(r)
<1>1. Birth(t) \in 1..20 /\ Birth(t) \in 1..r
  <2>1. Birth(t) \in Nat /\ Birth(t) # 0
    BY DEF Birth
  <2>2. QED  BY <2>1
<1>2. /\ Nth(t) \in 1..Len(Upgrades[Birth(t)])
      /\ Founds(Upgrades[Birth(t)][Nth(t)], t)
  BY <1>1, TablesAreFounded DEF AllFounded
<1>3. DOMAIN Upgrades[Birth(t)] = 1..Len(Upgrades[Birth(t)])
  <2>1. Birth(t) \in 1..31
    BY <1>1
  <2>2. QED  BY <2>1, ProgramsAreSequences
<1>4. Relation(t) \in Added(Birth(t))
  BY <1>2, <1>3, InDone DEF Added, Founds
<1>5. \A b \in (Birth(t) + 1)..r : b \in 1..20
  BY <1>1
<1>6. \A b \in (Birth(t) + 1)..r : ~Takes(b, Relation(t))
  BY <1>5, TakesNothing
<1>7. r \in 0..31
  OBVIOUS
<1>8. QED  BY <1>1, <1>4, <1>6, <1>7, IntendedObjects

LEMMA UnlinkedBefore ==
  \A o \in Intended(12) : ~Is(o, "key", "promo_code_redemptions", "user_subscriptions")
<1>1. 13 \in 1..20 /\ 13 - 1 = 12
  OBVIOUS
<1>2. Downgrades[13][1] = Remove({ForeignKey("promo_code_redemptions", "user_subscriptions")})
  BY DEF Downgrades, BookingsDown
<1>3. 1 \in DOMAIN Downgrades[13]
  <2>1. Downgrades[13] = BookingsDown
    BY DEF Downgrades
  <2>2. QED  BY <2>1 DEF BookingsDown
<1>4. ASSUME NEW o, Is(o, "key", "promo_code_redemptions", "user_subscriptions")
      PROVE  Hits(Done(Downgrades[13], "remove"), o)
  <2>1. Hits(Downgrades[13][1].what, o)
    BY <1>2, <1>4, RemoveHits
  <2>2. Downgrades[13][1].do = "remove"
    BY <1>2, Statements
  <2>3. QED  BY <1>3, <2>1, <2>2, HitsDone
<1>5. \A o \in Intended(12) : ~Hits(Done(Downgrades[13], "remove"), o)
  BY <1>1, EarlySpareTheRest
<1>6. QED  BY <1>4, <1>5

\* Every row is in a table that is there.
RowsStand(s) == \A w \in s.rows : w.table \in Tables(s.schema)

LEMMA TableIsThere ==
  ASSUME NEW schema, NEW t, Relation(t) \in schema
  PROVE  t \in Tables(schema)
<1>1. Relation(t).kind = "table" /\ Relation(t).table = t
  BY RelationIs
<1>2. QED  BY <1>1 DEF Tables

LEMMA FollowedTables ==
  ASSUME NEW r, NEW schema, Follows(schema, r), NEW t, Relation(t) \in Intended(r)
  PROVE  Relation(t) \in schema
<1>1. Relation(t) \notin LostIndexes
  <2>1. Relation(t).kind = "table"
    BY RelationIs
  <2>2. \A o \in LostIndexes : o.kind = "index"
    BY IndexIs DEF LostIndexes
  <2>3. QED  BY <2>1, <2>2
<1>2. QED  BY <1>1 DEF Follows

LEMMA EarlyAccepted ==
  ASSUME NEW r \in 1..20, r # 19, NEW state, IsState(state), state.ok,
         Follows(state.schema, r - 1), RowsStand(state)
  PROVE  Run(Upgrades[r], state).ok
<1> DEFINE P == Upgrades[r]
<1>1. Len(P) \in Nat
  <2>1. r \in 1..31
    OBVIOUS
  <2>2. QED  BY <2>1, ProgramsAreSequences
<1>2. \A i \in 1..Len(P) : P[i].do = "add"
  <2>1. ASSUME NEW i \in 1..Len(P)  PROVE P[i].do = "add"
    <3>1. Shaped(P[i], r, i)
      BY RevisionsShaped DEF AllShaped
    <3>2. QED  BY <3>1, Statements DEF Shaped, Creates, Extends
  <2>2. QED  BY <2>1
<1>3. \A i \in 1..Len(P) : \A o \in P[i].what : Placed(o, r, i)
  BY <1>2, AddedPlaced
<1> HIDE DEF P
<1>4. KeepsItsOwn(P)
  BY TakesNothing DEF P
<1>5. r - 1 \in 0..20
  OBVIOUS
<1>6. \A o \in state.schema : Birth(o.table) < r /\ (o.kind = "key" => Birth(o.name) < r)
  <2>1. \A o \in state.schema : Birth(o.table) <= r - 1 /\ (o.kind = "key" => Birth(o.name) <= r - 1)
    BY <1>5, NothingEarly DEF Follows
  <2>2. QED  BY <2>1, Births
<1>7. ASSUME NEW k \in 1..Len(P), NEW s, Stage(P, k - 1, state, s), s.ok
      PROVE  CanExecute(P[k], s)
  <2>1. \A i : i \in 1..(k - 1) <=> i \in 1..Len(P) /\ i < k
    BY <1>1
  <2>2. UpTo(P, k - 1, "remove") = {} /\ UpTo(P, k - 1, "insert") = {}
    BY <1>2, <2>1 DEF UpTo
  <2>3. \A o : o \in UpTo(P, k - 1, "add") <=> \E i \in 1..(k - 1) : o \in P[i].what
    BY <1>2, <2>1 DEF UpTo
  <2>4. \A o : o \in s.schema <=> o \in state.schema \/ \E i \in 1..(k - 1) : o \in P[i].what
    <3>1. \A o : ~Hits({}, o)
      BY DEF Hits, Tables
    <3>2. QED  BY <1>7, <2>2, <2>3, <3>1 DEF Stage, MovedBy
  <2>5. s.rows \subseteq state.rows
    BY <1>7, <2>2 DEF Stage, RowsBy
  <2>6. ASSUME NEW t, Came(t, r, k)  PROVE Relation(t) \in s.schema
    <3>1. CASE Birth(t) < r
      <4>1. Birth(t) <= r - 1
        BY <3>1, Births
      <4>2. QED  BY <1>5, <2>4, <4>1, StandingTables, FollowedTables
    <3>2. CASE Birth(t) = r /\ Nth(t) < k
      <4>1. Nth(t) \in 1..Len(P) /\ Relation(t) \in P[Nth(t)].what
        BY <3>2, TablesAreFounded DEF AllFounded, Founds, P
      <4>2. QED  BY <2>1, <2>4, <3>2, <4>1
    <3>3. QED  BY <2>6, <3>1, <3>2 DEF Came
  <2>7. SUFFICES ASSUME NEW o \in P[k].what
                 PROVE  /\ ~\E p \in s.schema : SameName(o, p)
                        /\ o.table \in Tables(s.schema \cup P[k].what)
                        /\ o.kind = "key" => o.to \subseteq Tables(s.schema \cup P[k].what)
                        /\ Admits(o, s.rows)
    <3>1. P[k].do = "add"
      BY <1>2
    <3>2. QED  BY <3>1 DEF CanExecute, CanAdd
  <2>8. Placed(o, r, k)
    BY <1>3
  <2>9. ASSUME NEW p \in s.schema, SameName(o, p)  PROVE FALSE
    <3>1. CASE p \in state.schema
      <4>1. Birth(o.table) < r /\ (o.kind = "key" => Birth(o.name) < r)
        BY <1>6, <2>9, <3>1 DEF SameName
      <4>2. o \in LaterKeys(r)
        BY <2>8, <4>1 DEF Placed
      <4>3. r # 4
        <5>1. r = 4 => o = ForeignKey("user_recent_locations", "users")
          BY <4>2 DEF LaterKeys
        <5>2. Birth("users") = 4
          BY DEF Birth
        <5>3. QED  BY <4>1, <5>1, <5>2, KeyIs
      <4>4. r = 13 /\ (\/ o = ForeignKey("promo_code_redemptions", "bookings")
                       \/ o = ForeignKey("promo_code_redemptions", "user_subscriptions"))
        BY <4>2, <4>3 DEF LaterKeys
      <4>5. o # ForeignKey("promo_code_redemptions", "bookings")
        <5>1. Birth("bookings") = 13
          BY DEF Birth
        <5>2. QED  BY <4>1, <4>4, <5>1, KeyIs
      <4>6. Is(p, "key", "promo_code_redemptions", "user_subscriptions")
        BY <2>9, <4>4, <4>5, KeyIs DEF SameName, Is
      <4>7. p \in Intended(12)
        BY <3>1, <4>4 DEF Follows
      <4>8. QED  BY <4>6, <4>7, UnlinkedBefore
    <3>2. CASE \E i \in 1..(k - 1) : p \in P[i].what
      <4>1. PICK i \in 1..(k - 1) : p \in P[i].what
        BY <3>2
      <4>2. i \in Nat /\ k \in Nat /\ i < k /\ Placed(p, r, i)
        BY <1>3, <2>1, <4>1
      <4>3. QED  BY <2>8, <2>9, <4>2, NamedOnce
    <3>3. QED  BY <2>4, <3>1, <3>2
  <2>10. Relation(o.table) \in s.schema \cup P[k].what
    <3>1. CASE Birth(o.table) = r /\ Nth(o.table) = k
      BY <3>1, TablesAreFounded DEF AllFounded, Founds, P
    <3>2. CASE Birth(o.table) = r /\ Nth(o.table) + 1 = k
      <4>1. Came(o.table, r, k)
        BY <3>2, Numbers DEF Came
      <4>2. QED  BY <2>6, <4>1
    <3>3. CASE o \in LaterKeys(r)
      <4>1. Came(o.table, r, k)
        BY <3>3, LaterKeysAre DEF Came
      <4>2. QED  BY <2>6, <4>1
    <3>4. QED  BY <2>8, <3>1, <3>2, <3>3 DEF Placed
  <2>11. o.kind = "key" => o.to \subseteq Tables(s.schema \cup P[k].what)
    BY <2>6, <2>8, TableIsThere DEF Placed
  <2>12. Admits(o, s.rows)
    <3>1. SUFFICES ASSUME o.kind = "check", NEW w \in s.rows, w.table = o.table  PROVE FALSE
      BY DEF Admits
    <3>2. Birth(o.table) = r
      BY <2>8, <3>1, LaterKeysAre DEF Placed
    <3>3. PICK q \in state.schema : q.table = w.table
      BY <2>5, <3>1 DEF RowsStand, Tables
    <3>4. QED  BY <1>6, <3>1, <3>2, <3>3
  <2>13. QED  BY <2>9, <2>10, <2>11, <2>12, TableIsThere
<1>8. QED  BY <1>1, <1>4, <1>7, RunAccepted DEF P
-----------------------------------------------------------------------------
(* The later revisions: which keys point to the tables that go.               *)

PointsTo(t, q) ==
    \/ q = "venue_types" /\ t \in {"venue_type_translations", "venue_groups",
                                  "venue_venue_types", "service_catalog"}
    \/ q = "banners" /\ t = "banner_translations"
    \/ q = "promo_codes" /\ t \in {"user_promo_codes", "promo_code_redemptions", "bookings"}
    \/ q = "subscription_plans" /\ t \in {"subscription_plan_translations", "user_subscriptions"}
    \/ q = "user_subscriptions" /\ t \in {"promo_code_redemptions", "payments"}
    \/ q = "payment_cards" /\ t = "payments"
    \/ q = "payments" /\ t = "refunds"

\* No check rejects what a revision inserts.
Mild(o) ==
    /\ o.kind = "key" /\ o.name \in PassingTables => PointsTo(o.table, o.name)
    /\ o.kind = "check" => o.name # "slug" /\ (o.table = "regions" => o.to = {"seeded"})

LEMMA MadeMild ==
  ASSUME NEW t, NEW R, NEW I, \A q \in R : q \in PassingTables => PointsTo(t, q)
  PROVE  \A o \in Made(t, R, I) : Mild(o)
<1>1. ASSUME NEW o \in Made(t, R, I)  PROVE Mild(o)
  <2>1. o.table = t /\ o.kind \in {"table", "key", "index"} /\ (o.kind = "key" => o.name \in R)
    BY MadeHas
  <2>2. QED  BY <2>1 DEF Mild
<1>2. QED  BY <1>1

LEMMA PartsMild ==
  /\ \A t, c : Mild(Column(t, c))
  /\ \A t, i : Mild(Index(t, i))
  /\ \A t, c, v : c # "slug" /\ t # "regions" => Mild(Check(t, c, v))
  /\ \A t, q : (q \in PassingTables => PointsTo(t, q)) => Mild(ForeignKey(t, q))
<1>1. \A t, c : Mild(Column(t, c))
  BY ColumnIs DEF Mild
<1>2. \A t, i : Mild(Index(t, i))
  BY IndexIs DEF Mild
<1>3. \A t, c, v : c # "slug" /\ t # "regions" => Mild(Check(t, c, v))
  BY CheckIs DEF Mild
<1>4. \A t, q : (q \in PassingTables => PointsTo(t, q)) => Mild(ForeignKey(t, q))
  BY KeyIs DEF Mild
<1>5. QED  BY <1>1, <1>2, <1>3, <1>4

LEMMA PassesMild == \A f \in 1..30 : \A o \in Passes[f] : Mild(o)
<1> USE DEF PassingTables, PlanTables, TextTables, CodeTables, MoneyTables, TypeTables, PointsTo
<1>1. \A o \in Passes[4] : Mild(o)
  BY MadeMild, PartsMild DEF Passes, VerifiedColumns, PhoneOrEmail, AnyProvider
<1>2. \A o \in Passes[5] : Mild(o)
  BY MadeMild, PartsMild DEF Passes, Texts
<1>3. \A o \in Passes[6] : Mild(o)
  BY MadeMild, PartsMild DEF Passes, Texts
<1>4. \A o \in Passes[7] : Mild(o)
  BY MadeMild, PartsMild DEF Passes, Texts
<1>5. \A o \in Passes[8] : Mild(o)
  BY MadeMild, PartsMild DEF Passes, Texts, SmsColumns
<1>6. \A o \in Passes[9] : Mild(o)
  BY MadeMild, PartsMild DEF Passes, Texts
<1>7. \A o \in Passes[10] : Mild(o)
  BY MadeMild, PartsMild DEF Passes, Texts
<1>8. \A o \in Passes[11] : Mild(o)
  BY MadeMild, PartsMild DEF Passes, Texts, AppliesTo
<1>9. \A o \in Passes[12] : Mild(o)
  BY MadeMild, PartsMild DEF Passes, Texts
<1>10. \A o \in Passes[13] : Mild(o)
  BY MadeMild, PartsMild DEF Passes, AnyPriceLine
<1>11. \A o \in Passes[15] : Mild(o)
  BY MadeMild, PartsMild DEF Passes, PaymentChecks
<1>12. \A o \in Passes[20] : Mild(o)
  BY MadeMild, PartsMild DEF Passes
<1>13. \A o \in Passes[21] : Mild(o)
  BY MadeMild, PartsMild DEF Passes, BookingPaymentChecks, AppliesToBookings
<1>14. \A o \in Passes[24] : Mild(o)
  BY MadeMild, PartsMild DEF Passes, GoogleOnly
<1>15. \A o \in Passes[25] : Mild(o)
  BY MadeMild, PartsMild DEF Passes, UndiscountedLine
<1>16. \A o \in Passes[27] : Mild(o)
  BY MadeMild, PartsMild DEF Passes, VenueTypeColumns, VenueTypeChecks
<1>17. \A o \in Passes[22] : Mild(o)
  <2>1. \A o \in MovedTexts : Mild(o)
    BY PartsMild DEF MovedTexts
  <2>2. \A o \in SearchIndexes : Mild(o)
    BY PartsMild DEF SearchIndexes
  <2>3. Passes[22] = MovedTexts \cup SearchIndexes
    BY DEF Passes
  <2>4. QED  BY <2>1, <2>2, <2>3
<1>18. \A o \in Passes[28] : Mild(o)
  <2>1. Passes[28] = {Check("regions", "code", {"seeded"})}
    BY DEF Passes, RegionCodes
  <2>2. /\ Check("regions", "code", {"seeded"}).kind = "check"
        /\ Check("regions", "code", {"seeded"}).name = "code"
        /\ Check("regions", "code", {"seeded"}).to = {"seeded"}
    BY DEF Check, Object
  <2>3. QED  BY <2>1, <2>2 DEF Mild
<1>19. /\ Passes[1] = {} /\ Passes[2] = {} /\ Passes[3] = {} /\ Passes[14] = {} /\ Passes[16] = {}
       /\ Passes[17] = {} /\ Passes[18] = {} /\ Passes[19] = {} /\ Passes[23] = {} /\ Passes[26] = {}
       /\ Passes[29] = {} /\ Passes[30] = {}
  BY DEF Passes
<1>20. \A f \in 1..30 : f \in {1, 2, 3, 4, 5, 6, 7, 8, 9, 10, 11, 12, 13, 14, 15, 16, 17, 18, 19, 20,
                            21, 22, 23, 24, 25, 26, 27, 28, 29, 30}
  OBVIOUS
<1>21. QED
  BY ONLY <1>1, <1>2, <1>3, <1>4, <1>5, <1>6, <1>7, <1>8, <1>9, <1>10, <1>11, <1>12, <1>13, <1>14,
          <1>15, <1>16, <1>17, <1>18, <1>19, <1>20

\* After the twentieth revision only columns, checks and indexes are added.
LEMMA LateParts == \A f \in 21..30 : \A o \in Passes[f] : o.kind \in {"column", "check", "index"}
<1>1. /\ \A t, c : Column(t, c).kind = "column"
      /\ \A t, i : Index(t, i).kind = "index"
      /\ \A t, c, v : Check(t, c, v).kind = "check"
  BY ColumnIs, IndexIs, CheckIs
<1>2. \A o \in Passes[21] : o.kind \in {"column", "check", "index"}
  BY <1>1 DEF Passes, BookingPaymentChecks, AppliesToBookings
<1>3. \A o \in Passes[24] : o.kind \in {"column", "check", "index"}
  BY <1>1 DEF Passes, GoogleOnly
<1>4. \A o \in Passes[25] : o.kind \in {"column", "check", "index"}
  BY <1>1 DEF Passes, UndiscountedLine
<1>5. \A o \in Passes[27] : o.kind \in {"column", "check", "index"}
  BY <1>1 DEF Passes, VenueTypeColumns, VenueTypeChecks
<1>6. \A o \in Passes[28] : o.kind \in {"column", "check", "index"}
  BY <1>1 DEF Passes
<1>7. \A o \in Passes[22] : o.kind \in {"column", "check", "index"}
  BY <1>1, MovedTextsStand DEF Passes, SearchIndexes
<1>8. Passes[23] = {} /\ Passes[26] = {} /\ Passes[29] = {} /\ Passes[30] = {}
  BY DEF Passes
<1>9. \A f \in 21..30 : f \in {21, 22, 23, 24, 25, 26, 27, 28, 29, 30}
  OBVIOUS
<1>10. QED  BY ONLY <1>2, <1>3, <1>4, <1>5, <1>6, <1>7, <1>8, <1>9

LEMMA IntendedMild ==
  ASSUME NEW r \in 0..30, NEW o \in Intended(r)
  PROVE  Mild(o) /\ (o.kind = "key" => o.to = {o.name})
<1>1. PICK f \in 1..r : o \in Added(f)
  <2>1. r \in 0..31
    OBVIOUS
  <2>2. QED  BY <2>1, IntendedObjects
<1>2. CASE f \in 1..20
  <2>1. PICK k \in DOMAIN Upgrades[f] : Upgrades[f][k].do = "add" /\ o \in Upgrades[f][k].what
    BY <1>1, InDone DEF Added
  <2>2. DOMAIN Upgrades[f] = 1..Len(Upgrades[f])
    <3>1. f \in 1..31
      OBVIOUS
    <3>2. QED  BY <3>1, ProgramsAreSequences
  <2>3. Placed(o, f, k)
    BY <1>2, <2>1, <2>2, AddedPlaced
  <2>4. o.kind = "key" => o.to = {o.name}
    BY <2>3 DEF Placed
  <2>5. CASE o.kind = "check" \/ (o.kind = "key" /\ o.name \in PassingTables)
    <3>1. Passing(o)
      BY <2>3, <2>5 DEF Placed, Passing
    <3>2. PICK g \in 1..r : o \in Passes[g]
      BY <3>1, PassingHistory
    <3>3. g \in 1..30
      OBVIOUS
    <3>4. QED  BY <2>4, <3>2, <3>3, PassesMild
  <2>6. QED  BY <2>4, <2>5 DEF Mild
<1>3. CASE f \in 21..30
  <2>1. o \in Passes[f] /\ f \in 1..30
    <3>1. f \in {21, 22, 23, 24, 25, 26, 27, 28, 29, 30}
      BY <1>3
    <3>2. /\ Added(21) = Passes[21] /\ Added(22) = Passes[22] /\ Added(24) = Passes[24]
          /\ Added(25) = Passes[25] /\ Added(26) = Passes[26] /\ Added(27) = Passes[27]
          /\ Added(28) = Passes[28]
      BY Up21, Up22, Up24, Up25, Up26, Up27, Up28 DEF Passes
    <3>3. Added(23) = {} /\ Added(29) = {} /\ Added(30) = {}
      BY UpQuiet
    <3>4. QED  BY <1>1, <1>3, <3>1, <3>2, <3>3
  <2>2. o.kind # "key"
    BY <1>3, <2>1, LateParts
  <2>3. QED  BY <2>1, <2>2, PassesMild
<1>4. f \in 1..20 \/ f \in 21..30
  OBVIOUS
<1>5. QED  BY <1>2, <1>3, <1>4
-----------------------------------------------------------------------------
(* The later revisions: what makes their statements acceptable.               *)

\* An earlier statement of the program takes the object.
TakenBefore(program, k, o) ==
    \E i \in 1..(k - 1) : program[i].do = "remove" /\ Hits(program[i].what, o)

\* The k-th statement of revision r removes what is there, once, and no key is
\* left that points to it.
RemovesWell(r, k) ==
    /\ Upgrades[r][k].what \subseteq Done(Downgrades[r], "add") \ LostIndexes
    /\ \A o \in Upgrades[r][k].what : ~TakenBefore(Upgrades[r], k, o)
    /\ \A o \in Intended(r - 1) :
           o.kind = "key" /\ o.table \notin Tables(Upgrades[r][k].what)
             /\ o.name \in Tables(Upgrades[r][k].what) => TakenBefore(Upgrades[r], k, o)

\* It adds to a table that stays, under a name that is free by then.
AddsWell(r, k) ==
    \A o \in Upgrades[r][k].what :
        /\ o.kind \in {"column", "check", "index"}
        /\ Relation(o.table) \in Intended(r - 1)
        /\ ~TakenBefore(Upgrades[r], k, Relation(o.table))
        /\ \A p \in Done(Downgrades[r], "add") \cup LostIndexes :
               SameName(o, p) => TakenBefore(Upgrades[r], k, p)
        /\ \A i \in 1..(k - 1) : Upgrades[r][i].do = "add" =>
               \A p \in Upgrades[r][i].what : ~SameName(o, p)

LateShaped(r) ==
    \A k \in 1..Len(Upgrades[r]) :
        \/ Upgrades[r][k].do = "remove" /\ RemovesWell(r, k)
        \/ Upgrades[r][k].do = "add" /\ AddsWell(r, k)
        \/ Upgrades[r][k].do = "delete" /\ Upgrades[r][k].held = {}
        \/ Upgrades[r][k].do = "forbid"

\* What a statement asks of the rows.
RowsAllow(program, rows) ==
    \A k \in 1..Len(program) :
        /\ program[k].do = "forbid" => program[k].what \cap rows = {}
        /\ program[k].do = "add" =>
               \A o \in program[k].what : Admits(o, RowsBy(program, k - 1, rows))

\* Whatever has the name of what a revision adds, its way back adds as well.
LEMMA NamesAreFree ==
  ASSUME NEW r \in 21..31, NEW o \in Added(r), NEW p \in Intended(r - 1), SameName(o, p)
  PROVE  p \in Done(Downgrades[r], "add") \cup LostIndexes
<1>1. Hits(Done(Downgrades[r], "remove"), o)
  BY LateAreUndone
<1>2. Hits(Done(Downgrades[r], "remove"), p)
  BY <1>1 DEF Hits, SameName
<1>3. Reverses(r)
  <2>1. r \in 1..31
    OBVIOUS
  <2>2. QED  BY <2>1, EveryWayBackReverses
<1>4. QED  BY <1>2, <1>3 DEF Reverses

LEMMA LateAccepted ==
  ASSUME NEW r \in 21..31, LateShaped(r), KeepsItsOwn(Upgrades[r]),
         NEW state, IsState(state), state.ok, Follows(state.schema, r - 1),
         RowsAllow(Upgrades[r], state.rows)
  PROVE  Run(Upgrades[r], state).ok
<1> DEFINE P == Upgrades[r]
           n == Len(P)
<1>1. Len(P) \in Nat /\ DOMAIN P = 1..n
  <2>1. r \in 1..31
    OBVIOUS
  <2>2. QED  BY <2>1, ProgramsAreSequences
<1>2. Done(Downgrades[r], "add") \subseteq Intended(r - 1)
  <2>1. r \in 1..31
    OBVIOUS
  <2>2. QED  BY <2>1, EveryWayBackReverses DEF Reverses
<1>3. \A i \in 1..n : P[i].do = "add" => P[i].what \subseteq Added(r)
  BY <1>1, InDone DEF Added
<1>4. ASSUME NEW k \in 1..n, NEW s, Stage(P, k - 1, state, s), s.ok
      PROVE  CanExecute(P[k], s)
  <2>1. \A i : i \in 1..(k - 1) => i \in 1..n
    BY <1>1
  <2>2. \A o : Hits(UpTo(P, k - 1, "remove"), o) <=> TakenBefore(P, k, o)
    BY DEF Hits, UpTo, Tables, TakenBefore
  <2>3. \A o : o \in s.schema <=>
          \/ o \in state.schema /\ ~TakenBefore(P, k, o)
          \/ \E i \in 1..(k - 1) : P[i].do = "add" /\ o \in P[i].what
    <3>1. s.schema = MovedBy(P, k - 1, state.schema)
      BY <1>4 DEF Stage
    <3>2. QED  BY <2>2, <3>1 DEF MovedBy, UpTo
  <2>4. s.rows \subseteq RowsBy(P, k - 1, state.rows)
    BY <1>4 DEF Stage
  <2>5. UpTo(P, k - 1, "insert") = {}
    <3>1. \A i \in 1..n : P[i].do # "insert"
      BY DEF LateShaped
    <3>2. QED  BY <2>1, <3>1 DEF UpTo
  <2>6. \A o \in state.schema : o \in Intended(r - 1)
    BY DEF Follows
  <2>7. \A o \in Intended(r - 1) \ LostIndexes : o \in state.schema
    BY DEF Follows
  <2> HIDE DEF P, n
  <2>8. CASE P[k].do = "remove" /\ RemovesWell(r, k)
    <3>1. ASSUME NEW o \in P[k].what  PROVE \E p \in s.schema : SameName(o, p)
      <4>1. o \in state.schema /\ ~TakenBefore(P, k, o)
        BY <1>2, <2>7, <2>8 DEF RemovesWell, P
      <4>2. QED  BY <2>3, <4>1 DEF SameName
    <3>2. ASSUME NEW p \in s.schema, p.kind = "key", p.table \notin Tables(P[k].what)
          PROVE  p.to \cap Tables(P[k].what) = {}
      <4>1. ~\E i \in 1..(k - 1) : P[i].do = "add" /\ p \in P[i].what
        <5>1. ASSUME NEW i \in 1..(k - 1), P[i].do = "add", p \in P[i].what  PROVE FALSE
          <6>1. AddsWell(r, i)
            BY <2>1, <5>1 DEF LateShaped, P, n
          <6>2. QED  BY <3>2, <5>1, <6>1 DEF AddsWell, P
        <5>2. QED  BY <5>1
      <4>2. p \in Intended(r - 1) /\ ~TakenBefore(P, k, p)
        BY <2>3, <2>6, <4>1
      <4>3. p.name \notin Tables(P[k].what)
        BY <2>8, <3>2, <4>2 DEF RemovesWell, P
      <4>4. p.to = {p.name}
        <5>1. r - 1 \in 0..30
          OBVIOUS
        <5>2. QED  BY <3>2, <4>2, <5>1, IntendedMild
      <4>5. QED  BY <4>3, <4>4
    <3>3. QED  BY <2>8, <3>1, <3>2 DEF CanExecute, CanRemove
  <2>9. CASE P[k].do = "add" /\ AddsWell(r, k)
    <3>1. ASSUME NEW o \in P[k].what
          PROVE  /\ ~\E p \in s.schema : SameName(o, p)
                 /\ o.table \in Tables(s.schema \cup P[k].what)
                 /\ o.kind # "key"
                 /\ Admits(o, s.rows)
      <4>1. /\ o.kind \in {"column", "check", "index"}
            /\ Relation(o.table) \in Intended(r - 1)
            /\ ~TakenBefore(P, k, Relation(o.table))
            /\ \A p \in Done(Downgrades[r], "add") \cup LostIndexes :
                   SameName(o, p) => TakenBefore(P, k, p)
            /\ \A i \in 1..(k - 1) : P[i].do = "add" => \A p \in P[i].what : ~SameName(o, p)
        BY <2>9 DEF AddsWell, P
      <4>2. ASSUME NEW p \in s.schema, SameName(o, p)  PROVE FALSE
        <5>1. p \in state.schema /\ ~TakenBefore(P, k, p)
          BY <2>3, <4>1, <4>2
        <5>2. o \in Added(r)
          BY <1>3, <2>9
        <5>3. p \in Intended(r - 1)
          BY <2>6, <5>1
        <5>4. p \in Done(Downgrades[r], "add") \cup LostIndexes
          BY <4>2, <5>2, <5>3, NamesAreFree
        <5>5. QED  BY <4>1, <4>2, <5>1, <5>4
      <4>3. Relation(o.table) \in s.schema
        <5>1. Relation(o.table) \in state.schema
          BY <4>1, FollowedTables
        <5>2. QED  BY <2>3, <4>1, <5>1
      <4>4. o.table \in Tables(s.schema \cup P[k].what)
        BY <4>3, TableIsThere
      <4>5. Admits(o, RowsBy(P, k - 1, state.rows))
        BY <2>9 DEF RowsAllow, P, n
      <4>6. Admits(o, s.rows)
        BY <2>4, <4>5 DEF Admits
      <4>7. QED  BY <4>1, <4>2, <4>4, <4>6
    <3>2. QED  BY <2>9, <3>1 DEF CanExecute, CanAdd
  <2>10. CASE P[k].do = "delete" /\ P[k].held = {}
    BY <2>10 DEF CanExecute
  <2>11. CASE P[k].do = "forbid"
    <3>1. P[k].what \cap state.rows = {}
      BY <2>11 DEF RowsAllow, P, n
    <3>2. QED  BY <2>4, <2>5, <2>11, <3>1 DEF CanExecute, RowsBy
  <2>12. QED  BY <2>8, <2>9, <2>10, <2>11 DEF LateShaped, P, n
<1>5. QED  BY <1>1, <1>4, RunAccepted DEF P, n

\* The tables that no revision takes.
LEMMA TablesStay ==
  ASSUME NEW r \in 20..30, NEW t, Birth(t) <= 20,
         \/ t \notin PassingTables
         \/ t = "auth_identities" /\ r < 26
         \/ t \in TypeTables /\ r < 27
         \/ t \in MoneyTables /\ r < 25
  PROVE  Relation(t) \in Intended(r)
<1>1. Relation(t) \in Intended(20)
  BY StandingTables
<1>2. PICK f \in 1..20 : Relation(t) \in Added(f)
  <2>1. 20 \in 0..31
    OBVIOUS
  <2>2. QED  BY <1>1, <2>1, IntendedObjects
<1>3. Relation(t).kind = "table" /\ Relation(t).table = t
  BY RelationIs
<1>4. /\ ~Takes(21, Relation(t)) /\ ~Takes(22, Relation(t)) /\ ~Takes(24, Relation(t))
      /\ t \notin MoneyTables => ~Takes(25, Relation(t))
  <2>1. t \notin PlanTables \cup TextTables \cup CodeTables
    BY DEF PassingTables, PlanTables, TextTables, CodeTables, MoneyTables, TypeTables
  <2>2. QED  BY <1>3, <2>1, Up21, Up22, Up24, Up25 DEF Is
<1>5. t # "auth_identities" => ~Takes(26, Relation(t))
  BY <1>3, Up26
<1>6. t \notin TypeTables => ~Takes(27, Relation(t))
  BY <1>3, Up27 DEF Is
<1>7. ASSUME NEW b \in (f + 1)..r  PROVE ~Takes(b, Relation(t))
  <2>1. b \in 1..31 /\ b <= r /\ b # 31
    OBVIOUS
  <2>2. CASE b \notin {21, 22, 24, 25, 26, 27, 31}
    BY <2>1, <2>2, TakersAreFew
  <2>3. CASE b \in {21, 22, 24, 25}
    <3>1. b = 25 => t \notin MoneyTables
      BY <2>1 DEF PassingTables, MoneyTables, TypeTables
    <3>2. QED  BY <1>4, <2>3, <3>1
  <2>4. CASE b = 26
    <3>1. t # "auth_identities"
      BY <2>1, <2>4 DEF PassingTables, TypeTables
    <3>2. QED  BY <1>5, <2>4, <3>1
  <2>5. CASE b = 27
    <3>1. t \notin TypeTables
      BY <2>1, <2>5 DEF PassingTables
    <3>2. QED  BY <1>6, <2>5, <3>1
  <2>6. QED  BY <2>1, <2>2, <2>3, <2>4, <2>5
<1>8. f \in 1..r /\ r \in 0..31
  OBVIOUS
<1>9. QED  BY <1>2, <1>7, <1>8, IntendedObjects

\* The tables of translations are gone after the collapse.
LEMMA TextsAreGone ==
  ASSUME NEW r \in 22..30, NEW o \in Intended(r)
  PROVE  o.table \notin TextTables
<1>1. SUFFICES ASSUME o.table \in TextTables  PROVE FALSE
  OBVIOUS
<1>2. Passing(o)
  BY <1>1 DEF Passing, PassingTables
<1>3. PICK f \in 1..r : o \in Passes[f] /\ \A b \in (f + 1)..r : ~Takes(b, o)
  <2>1. r \in 0..30
    OBVIOUS
  <2>2. QED  BY <1>2, <2>1, PassingHistory
<1>4. Takes(22, o)
  BY <1>1, Up22
<1>5. f \in {22, 23, 24, 25, 26, 27, 28, 29, 30}
  BY <1>3, <1>4
<1>6. f \in 1..30
  OBVIOUS
<1>7. o.table \in PassingAt[f]
  BY <1>3, <1>6, PassingTablesKnown
<1>8. QED  BY <1>1, <1>5, <1>7 DEF PassingAt, TextTables
-----------------------------------------------------------------------------
LEMMA TablesHit == \A X : \A q \in Tables(X) : Hits(X, Relation(q))
<1>1. \A q : Relation(q).table = q
  BY RelationIs
<1>2. QED  BY <1>1 DEF Hits

LEMMA MemberHit == \A X : \A o \in X : Hits(X, o)
  BY DEF Hits, SameName

LEMMA MadeMore == \A t, R, I : Made(t, {}, I) \subseteq Made(t, R, I)
  BY DEF Made

LEMMA LostAre ==
  ASSUME NEW o \in LostIndexes
  PROVE  o.kind = "index" /\ o.name = "name_trgm" /\ o.table \in {"venue_translations",
           "menu_item_translations"}
  BY IndexIs DEF LostIndexes

LEMMA Shape21 == LateShaped(21)
<1>1. PICK P : P = Upgrades[21]
  OBVIOUS
<1>2. /\ DOMAIN P = 1..12 /\ Len(P) = 12
      /\ P[1] = Remove(PaymentChecks)
      /\ P[2] = Remove({AppliesTo})
      /\ P[3] = Forbid({Row("payments", "target", "subscription")})
      /\ P[4] = Remove({ForeignKey("payments", "user_subscriptions")})
      /\ P[5] = Remove({Column("payments", "subscription_id")})
      /\ P[6] = Remove({ForeignKey("promo_code_redemptions", "user_subscriptions")})
      /\ P[7] = Remove({Column("promo_code_redemptions", "subscription_id")})
      /\ P[8] = Drop("subscription_plan_translations", {})
      /\ P[9] = Drop("user_subscriptions", {"user_id"})
      /\ P[10] = Drop("subscription_plans", {})
      /\ P[11] = Add(BookingPaymentChecks)
      /\ P[12] = Add({AppliesToBookings})
  BY <1>1 DEF Upgrades, DropSubscriptionsUp
<1>3. \A i : i \in 1..12 <=> i \in {1, 2, 3, 4, 5, 6, 7, 8, 9, 10, 11, 12}
  OBVIOUS
<1>4. /\ \A i \in {1, 2, 4, 5, 6, 7, 8, 9, 10} : P[i].do = "remove"
      /\ \A i \in {11, 12} : P[i].do = "add"
      /\ P[3].do = "forbid"
      /\ P[11].what = BookingPaymentChecks
      /\ P[12].what = {AppliesToBookings}
  BY <1>2, Statements
<1>5. ASSUME NEW o
      PROVE  /\ Hits(P[1].what, o) <=>
                  Is(o, "check", "payments", "target") \/ Is(o, "check", "payments", "kind")
             /\ Hits(P[2].what, o) <=> Is(o, "check", "promo_codes", "applies_to")
             /\ Hits(P[4].what, o) <=> Is(o, "key", "payments", "user_subscriptions")
             /\ Hits(P[5].what, o) <=> Is(o, "column", "payments", "subscription_id")
             /\ Hits(P[6].what, o) <=> Is(o, "key", "promo_code_redemptions", "user_subscriptions")
             /\ Hits(P[7].what, o) <=> Is(o, "column", "promo_code_redemptions", "subscription_id")
             /\ Hits(P[8].what, o) <=> o.table = "subscription_plan_translations"
             /\ Hits(P[9].what, o) <=> o.table = "user_subscriptions"
             /\ Hits(P[10].what, o) <=> o.table = "subscription_plans"
  <2>1. /\ P[1].what = PaymentChecks
    BY <1>2, Statements
  <2>2. /\ Hits(P[1].what, o) <=>
             Is(o, "check", "payments", "target") \/ Is(o, "check", "payments", "kind")
    BY <2>1, HitsSets
  <2>3. /\ Hits(P[2].what, o) <=> Is(o, "check", "promo_codes", "applies_to")
        /\ Hits(P[4].what, o) <=> Is(o, "key", "payments", "user_subscriptions")
        /\ Hits(P[5].what, o) <=> Is(o, "column", "payments", "subscription_id")
        /\ Hits(P[6].what, o) <=> Is(o, "key", "promo_code_redemptions", "user_subscriptions")
        /\ Hits(P[7].what, o) <=> Is(o, "column", "promo_code_redemptions", "subscription_id")
        /\ Hits(P[8].what, o) <=> o.table = "subscription_plan_translations"
        /\ Hits(P[9].what, o) <=> o.table = "user_subscriptions"
        /\ Hits(P[10].what, o) <=> o.table = "subscription_plans"
    BY <1>2, RemoveHits DEF AppliesTo
  <2>4. QED  BY <2>2, <2>3
<1> DEFINE back == Done(Downgrades[21], "add")
           At(o) == IF o.table = "payments" /\ o.kind = "check" THEN 1
             ELSE IF o.table = "promo_codes" THEN 2
             ELSE IF o.table = "payments" /\ o.kind = "key" THEN 4
             ELSE IF o.table = "payments" THEN 5
             ELSE IF o.table = "promo_code_redemptions" /\ o.kind = "key" THEN 6
             ELSE IF o.table = "promo_code_redemptions" THEN 7
             ELSE IF o.table = "subscription_plan_translations" THEN 8
             ELSE IF o.table = "user_subscriptions" THEN 9
             ELSE IF o.table = "subscription_plans" THEN 10
             ELSE 99
<1>6. ASSUME NEW o
      PROVE  /\ (Hits(P[1].what, o) => At(o) = 1) /\ (Hits(P[2].what, o) => At(o) = 2)
             /\ (Hits(P[4].what, o) => At(o) = 4) /\ (Hits(P[5].what, o) => At(o) = 5)
             /\ (Hits(P[6].what, o) => At(o) = 6) /\ (Hits(P[7].what, o) => At(o) = 7)
             /\ (Hits(P[8].what, o) => At(o) = 8) /\ (Hits(P[9].what, o) => At(o) = 9)
             /\ (Hits(P[10].what, o) => At(o) = 10)
  BY <1>5 DEF Is
<1>7. /\ P[1].what = PaymentChecks
      /\ P[2].what = {AppliesTo}
      /\ P[4].what = {ForeignKey("payments", "user_subscriptions")}
      /\ P[5].what = {Column("payments", "subscription_id")}
      /\ P[6].what = {ForeignKey("promo_code_redemptions", "user_subscriptions")}
      /\ P[7].what = {Column("promo_code_redemptions", "subscription_id")}
      /\ P[8].what = Made("subscription_plan_translations", {}, {})
      /\ P[9].what = Made("user_subscriptions", {}, {"user_id"})
      /\ P[10].what = Made("subscription_plans", {}, {})
  BY <1>2, Statements
<1>8. /\ P[1].what \subseteq back /\ P[2].what \subseteq back /\ P[4].what \subseteq back
      /\ P[5].what \subseteq back /\ P[6].what \subseteq back /\ P[7].what \subseteq back
      /\ P[8].what \subseteq back /\ P[9].what \subseteq back /\ P[10].what \subseteq back
  BY <1>7, Down21, MadeMore
<1>9. ASSUME NEW q
      PROVE  /\ q \notin Tables(P[1].what) /\ q \notin Tables(P[2].what)
             /\ q \notin Tables(P[4].what) /\ q \notin Tables(P[5].what)
             /\ q \notin Tables(P[6].what) /\ q \notin Tables(P[7].what)
             /\ (q \in Tables(P[8].what) => q = "subscription_plan_translations")
             /\ (q \in Tables(P[9].what) => q = "user_subscriptions")
             /\ (q \in Tables(P[10].what) => q = "subscription_plans")
  <2>1. Relation(q).kind = "table" /\ Relation(q).table = q
    BY RelationIs
  <2>2. QED  BY <1>5, <2>1, TablesHit DEF Is
<1> HIDE DEF At, back
<1> USE DEF PassingTables, PlanTables, TextTables, CodeTables, MoneyTables, TypeTables
<1>10. ASSUME NEW k \in {1, 2, 4, 5, 6, 7, 8, 9, 10}  PROVE RemovesWell(21, k)
  <2>1. P[k].what \subseteq back
    BY <1>8
  <2>2. P[k].what \cap LostIndexes = {}
    <3>1. \A o \in P[k].what : At(o) = k
      BY <1>6, MemberHit
    <3>2. ASSUME NEW o \in LostIndexes  PROVE At(o) = 99
      <4>1. o.table \in {"venue_translations", "menu_item_translations"}
        BY LostAre
      <4>2. QED  BY <4>1 DEF At
    <3>3. QED  BY <3>1, <3>2
  <2>3. ASSUME NEW o \in P[k].what  PROVE ~TakenBefore(P, k, o)
    <3>1. At(o) = k
      BY <1>6, MemberHit
    <3>2. \A i \in 1..(k - 1) : P[i].do = "remove" => i \in {1, 2, 4, 5, 6, 7, 8, 9, 10} /\ i # k
      BY <1>3, <1>4, Statements, <1>2
    <3>3. QED  BY <1>6, <3>1, <3>2 DEF TakenBefore
  <2>4. ASSUME NEW o \in Intended(20), o.kind = "key", o.table \notin Tables(P[k].what),
               o.name \in Tables(P[k].what)
        PROVE  TakenBefore(P, k, o)
    <3>1. o.name \in PassingTables => PointsTo(o.table, o.name)
      <4>1. 20 \in 0..30
        OBVIOUS
      <4>2. QED  BY <2>4, <4>1, IntendedMild DEF Mild
    <3>2. k # 8
      BY <1>9, <2>4, <3>1 DEF PointsTo
    <3>3. CASE k = 9
      <4>1. o.name = "user_subscriptions" /\ PointsTo(o.table, "user_subscriptions")
        BY <1>9, <2>4, <3>1, <3>3
      <4>2. Hits(P[4].what, o) \/ Hits(P[6].what, o)
        BY <1>5, <2>4, <4>1 DEF PointsTo, Is
      <4>3. /\ 4 \in 1..(k - 1) /\ 6 \in 1..(k - 1)
        BY <3>3
      <4>4. QED  BY <1>4, <4>2, <4>3 DEF TakenBefore
    <3>4. CASE k = 10
      <4>1. o.name = "subscription_plans" /\ PointsTo(o.table, "subscription_plans")
        BY <1>9, <2>4, <3>1, <3>4
      <4>2. Hits(P[8].what, o) \/ Hits(P[9].what, o)
        BY <1>5, <2>4, <4>1 DEF PointsTo, Is
      <4>3. /\ 8 \in 1..(k - 1) /\ 9 \in 1..(k - 1)
        BY <3>4
      <4>4. QED  BY <1>4, <4>2, <4>3 DEF TakenBefore
    <3>5. k \notin {1, 2, 4, 5, 6, 7}
      BY <1>9, <2>4
    <3>6. QED  BY <3>2, <3>3, <3>4, <3>5
  <2>5. 21 - 1 = 20
    OBVIOUS
  <2>6. QED  BY <1>1, <2>1, <2>2, <2>3, <2>4, <2>5 DEF RemovesWell, back
<1>11. AddsWell(21, 11)
  <2>1. ASSUME NEW o \in P[11].what
        PROVE  o.kind = "check" /\ o.table = "payments" /\ o.name \in {"target", "kind"}
    BY <1>4, CheckIs DEF BookingPaymentChecks
  <2>2. ASSUME NEW o \in P[11].what  PROVE Relation(o.table) \in Intended(20)
    <3>1. Birth(o.table) <= 20
      BY <2>1 DEF Birth
    <3>2. \/ o.table \notin PassingTables
          \/ o.table = "auth_identities" /\ 20 < 26
          \/ o.table \in MoneyTables /\ 20 < 25
      BY <2>1
    <3>3. 20 \in 20..30
      OBVIOUS
    <3>4. QED  BY <3>1, <3>2, <3>3, TablesStay
  <2>3. \A i \in 1..(11 - 1) : i \in {1, 2, 3, 4, 5, 6, 7, 8, 9, 10}
    OBVIOUS
  <2>4. ASSUME NEW o \in P[11].what  PROVE ~TakenBefore(P, 11, Relation(o.table))
    <3>1. Relation(o.table).kind = "table" /\ Relation(o.table).table = o.table
      BY RelationIs
    <3>2. /\ ~Hits(P[1].what, Relation(o.table)) /\ ~Hits(P[2].what, Relation(o.table))
          /\ ~Hits(P[4].what, Relation(o.table)) /\ ~Hits(P[5].what, Relation(o.table))
          /\ ~Hits(P[6].what, Relation(o.table)) /\ ~Hits(P[7].what, Relation(o.table))
          /\ ~Hits(P[8].what, Relation(o.table)) /\ ~Hits(P[9].what, Relation(o.table))
          /\ ~Hits(P[10].what, Relation(o.table))
      BY <1>5, <2>1, <3>1 DEF Is
    <3>3. QED  BY <1>4, <2>3, <3>2 DEF TakenBefore
  <2>5. ASSUME NEW o \in P[11].what, NEW p \in back \cup LostIndexes, SameName(o, p)
        PROVE  TakenBefore(P, 11, p)
    <3>1. Hits(P[1].what, p)
      BY <1>5, <2>1, <2>5 DEF SameName, Is
    <3>2. 1 \in 1..(11 - 1)
      OBVIOUS
    <3>3. QED  BY <1>4, <3>1, <3>2 DEF TakenBefore
  <2>6. \A i \in 1..(11 - 1) : P[i].do # "add"
    BY <1>4, <2>3, <1>2, Statements
  <2>7. \A i \in 1..(11 - 1) : P[i].do = "add" => i \in {}
    BY <1>4, <2>3, <1>2, Statements
  <2>8. 21 - 1 = 20
    OBVIOUS
  <2>9. QED  BY <1>1, <2>1, <2>2, <2>4, <2>5, <2>6, <2>7, <2>8 DEF AddsWell, back
<1>12. AddsWell(21, 12)
  <2>1. ASSUME NEW o \in P[12].what
        PROVE  o.kind = "check" /\ o.table = "promo_codes" /\ o.name = "applies_to"
    BY <1>4, CheckIs DEF AppliesToBookings
  <2>2. ASSUME NEW o \in P[12].what  PROVE Relation(o.table) \in Intended(20)
    <3>1. Birth(o.table) <= 20
      BY <2>1 DEF Birth
    <3>2. \/ o.table \notin PassingTables
          \/ o.table = "auth_identities" /\ 20 < 26
          \/ o.table \in MoneyTables /\ 20 < 25
      BY <2>1
    <3>3. 20 \in 20..30
      OBVIOUS
    <3>4. QED  BY <3>1, <3>2, <3>3, TablesStay
  <2>3. \A i \in 1..(12 - 1) : i \in {1, 2, 3, 4, 5, 6, 7, 8, 9, 10, 11}
    OBVIOUS
  <2>4. ASSUME NEW o \in P[12].what  PROVE ~TakenBefore(P, 12, Relation(o.table))
    <3>1. Relation(o.table).kind = "table" /\ Relation(o.table).table = o.table
      BY RelationIs
    <3>2. /\ ~Hits(P[1].what, Relation(o.table)) /\ ~Hits(P[2].what, Relation(o.table))
          /\ ~Hits(P[4].what, Relation(o.table)) /\ ~Hits(P[5].what, Relation(o.table))
          /\ ~Hits(P[6].what, Relation(o.table)) /\ ~Hits(P[7].what, Relation(o.table))
          /\ ~Hits(P[8].what, Relation(o.table)) /\ ~Hits(P[9].what, Relation(o.table))
          /\ ~Hits(P[10].what, Relation(o.table))
      BY <1>5, <2>1, <3>1 DEF Is
    <3>3. QED  BY <1>4, <2>3, <3>2 DEF TakenBefore
  <2>5. ASSUME NEW o \in P[12].what, NEW p \in back \cup LostIndexes, SameName(o, p)
        PROVE  TakenBefore(P, 12, p)
    <3>1. Hits(P[2].what, p)
      BY <1>5, <2>1, <2>5 DEF SameName, Is
    <3>2. 2 \in 1..(12 - 1)
      OBVIOUS
    <3>3. QED  BY <1>4, <3>1, <3>2 DEF TakenBefore
  <2>6. ASSUME NEW o \in P[12].what, NEW i \in {11}, NEW p \in P[i].what  PROVE ~SameName(o, p)
    BY <2>1, <1>4, CheckIs DEF BookingPaymentChecks, SameName
  <2>7. \A i \in 1..(12 - 1) : P[i].do = "add" => i \in {11}
    BY <1>4, <2>3, <1>2, Statements
  <2>8. 21 - 1 = 20
    OBVIOUS
  <2>9. QED  BY <1>1, <2>1, <2>2, <2>4, <2>5, <2>6, <2>7, <2>8 DEF AddsWell, back
<1>13. QED
  <2>1. Len(P) = 12
    BY <1>2
  <2>2. \A k \in {1, 2, 4, 5, 6, 7, 8, 9, 10} : P[k].do = "remove" /\ RemovesWell(21, k)
    BY <1>4, <1>10
  <2>3. /\ (P[11].do = "add" /\ AddsWell(21, 11)) /\ (P[12].do = "add" /\ AddsWell(21, 12))
       /\ P[3].do = "forbid"
    BY <1>4, <1>11, <1>12
  <2>4. QED  BY <1>1, <1>3, <2>1, <2>2, <2>3 DEF LateShaped

LEMMA Shape22 == LateShaped(22)
<1>1. PICK P : P = Upgrades[22]
  OBVIOUS
<1>2. /\ DOMAIN P = 1..3 /\ Len(P) = 3
      /\ P[1] = Add(MovedTexts)
      /\ P[2] = Add(SearchIndexes)
      /\ P[3] = Remove({Relation(m[2]) : m \in Moves})
  BY <1>1 DEF Upgrades, CollapseUp
<1>3. \A i : i \in 1..3 <=> i \in {1, 2, 3}
  OBVIOUS
<1>4. /\ \A i \in {3} : P[i].do = "remove"
      /\ \A i \in {1, 2} : P[i].do = "add"
      /\ P[1].what = MovedTexts
      /\ P[2].what = SearchIndexes
  BY <1>2, Statements
<1>5. ASSUME NEW o
      PROVE  /\ Hits(P[3].what, o) <=> o.table \in TextTables
  <2>1. /\ P[3].what = {Relation(m[2]) : m \in Moves}
    BY <1>2, Statements
  <2>2. /\ Hits(P[3].what, o) <=> o.table \in TextTables
    BY <2>1, HitsSets
  <2>3. QED  BY <2>2
<1> DEFINE back == Done(Downgrades[22], "add")
           At(o) == IF o.table \in TextTables THEN 3
             ELSE 99
<1>6. ASSUME NEW o
      PROVE  /\ (Hits(P[3].what, o) => At(o) = 3)
  BY <1>5 DEF Is, TextTables
<1>7. /\ P[3].what = {Relation(m[2]) : m \in Moves}
  BY <1>2, Statements
<1>8. /\ P[3].what \subseteq back
  BY <1>7, Down22, MadeMore DEF TextObjects
<1>9. ASSUME NEW q
      PROVE  /\ (q \in Tables(P[3].what) => q \in TextTables)
  <2>1. Relation(q).kind = "table" /\ Relation(q).table = q
    BY RelationIs
  <2>2. QED  BY <1>5, <2>1, TablesHit DEF Is
<1> HIDE DEF At, back
<1> USE DEF PassingTables, PlanTables, TextTables, CodeTables, MoneyTables, TypeTables
<1>10. ASSUME NEW k \in {3}  PROVE RemovesWell(22, k)
  <2>1. P[k].what \subseteq back
    BY <1>8
  <2>2. P[k].what \cap LostIndexes = {}
    <3>1. \A o \in {Relation(m[2]) : m \in Moves} : o.kind = "table"
      <4>1. \A t : Relation(t).kind = "table"
        BY RelationIs
      <4>2. QED  BY <4>1
    <3>2. k = 3 /\ P[k].what = {Relation(m[2]) : m \in Moves}
      BY <1>7
    <3>3. QED  BY <3>1, <3>2, LostAre
  <2>3. ASSUME NEW o \in P[k].what  PROVE ~TakenBefore(P, k, o)
    <3>1. At(o) = k
      BY <1>6, MemberHit
    <3>2. \A i \in 1..(k - 1) : P[i].do = "remove" => i \in {3} /\ i # k
      BY <1>3, <1>4
    <3>3. QED  BY <1>6, <3>1, <3>2 DEF TakenBefore
  <2>4. ASSUME NEW o \in Intended(21), o.kind = "key", o.table \notin Tables(P[k].what),
               o.name \in Tables(P[k].what)
        PROVE  TakenBefore(P, k, o)
    <3>1. o.name \in PassingTables => PointsTo(o.table, o.name)
      <4>1. 21 \in 0..30
        OBVIOUS
      <4>2. QED  BY <2>4, <4>1, IntendedMild DEF Mild
    <3>2. k # 3
      BY <1>9, <2>4, <3>1 DEF PointsTo
    <3>3. QED  BY <3>2
  <2>5. 22 - 1 = 21
    OBVIOUS
  <2>6. QED  BY <1>1, <2>1, <2>2, <2>3, <2>4, <2>5 DEF RemovesWell, back
<1>11. AddsWell(22, 1)
  <2>1. ASSUME NEW o \in P[1].what  PROVE o.kind = "column" /\ \E m \in Moves : o.table = m[1]
    <3>1. PICK m \in Moves : o \in {Column(m[1], c) : c \in m[3]}
      BY <1>4 DEF MovedTexts
    <3>2. QED  BY <3>1, ColumnIs
  <2>2. ASSUME NEW o \in P[1].what
        PROVE  Relation(o.table) \in Intended(21) /\ o.table \notin TextTables
    <3>1. /\ o.table \notin TextTables
          /\ o.table \in {"amenities", "venue_types", "menu_categories", "menu_items",
               "menu_item_variants",
                         "banners", "service_catalog", "staff_roles", "venue_groups", "venues",
                         "venue_zones"}
      BY <2>1 DEF Moves, TextTables
    <3>2. Birth(o.table) <= 20
      BY <3>1 DEF Birth
    <3>3. o.table \notin PassingTables \/ o.table \in TypeTables \/ o.table \in MoneyTables
      BY <3>1
    <3>4. 21 \in 20..30 /\ 21 < 25 /\ 21 < 27
      OBVIOUS
    <3>5. QED  BY <3>1, <3>2, <3>3, <3>4, TablesStay
  <2>3. ASSUME NEW o \in P[1].what, NEW p \in back \cup LostIndexes, SameName(o, p)  PROVE FALSE
    <3>1. p.table \in TextTables
      BY Down22, TextsStand, LostAre DEF back, TextTables
    <3>2. QED  BY <2>2, <2>3, <3>1 DEF SameName
  <2>4. \A i : i \notin 1..(1 - 1)
    OBVIOUS
  <2>5. 22 - 1 = 21
    OBVIOUS
  <2>6. QED  BY <1>1, <2>1, <2>2, <2>3, <2>4, <2>5 DEF AddsWell, TakenBefore, back
<1>12. AddsWell(22, 2)
  <2>1. ASSUME NEW o \in P[2].what
        PROVE  o.kind = "index" /\ o.table \in {"venues", "menu_items"} /\ o.name = "name_trgm"
    BY <1>4, IndexIs DEF SearchIndexes
  <2>2. ASSUME NEW o \in P[2].what  PROVE Relation(o.table) \in Intended(21)
    <3>1. Birth(o.table) <= 20
      BY <2>1 DEF Birth
    <3>2. \/ o.table \notin PassingTables
          \/ o.table = "auth_identities" /\ 21 < 26
          \/ o.table \in MoneyTables /\ 21 < 25
      BY <2>1
    <3>3. 21 \in 20..30
      OBVIOUS
    <3>4. QED  BY <3>1, <3>2, <3>3, TablesStay
  <2>3. \A i \in 1..(2 - 1) : i \in {1}
    OBVIOUS
  <2>4. \A o : ~TakenBefore(P, 2, o)
    BY <1>4, <2>3 DEF TakenBefore
  <2>5. ASSUME NEW o \in P[2].what, NEW p \in back \cup LostIndexes, SameName(o, p)
        PROVE  TakenBefore(P, 2, p)
    <3>1. p \notin LostIndexes
      BY <2>1, <2>5, LostAre DEF SameName
    <3>2. p.table \in TextTables
      BY <3>1, Down22, TextsStand DEF back
    <3>3. QED  BY <2>1, <2>5, <3>2 DEF SameName, TextTables
  <2>6. ASSUME NEW o \in P[2].what, NEW i \in {1}, NEW p \in P[i].what  PROVE ~SameName(o, p)
    BY <2>1, <1>4, MovedTextsStand DEF SameName
  <2>7. \A i \in 1..(2 - 1) : P[i].do = "add" => i \in {1}
    BY <1>4, <2>3
  <2>8. 22 - 1 = 21
    OBVIOUS
  <2>9. QED  BY <1>1, <2>1, <2>2, <2>4, <2>5, <2>6, <2>7, <2>8 DEF AddsWell, back
<1>13. QED
  <2>1. Len(P) = 3
    BY <1>2
  <2>2. \A k \in {3} : P[k].do = "remove" /\ RemovesWell(22, k)
    BY <1>4, <1>10
  <2>3. /\ (P[1].do = "add" /\ AddsWell(22, 1)) /\ (P[2].do = "add" /\ AddsWell(22, 2))
    BY <1>4, <1>11, <1>12
  <2>4. QED  BY <1>1, <1>3, <2>1, <2>2, <2>3 DEF LateShaped

LEMMA Shape24 == LateShaped(24)
<1>1. PICK P : P = Upgrades[24]
  OBVIOUS
<1>2. /\ DOMAIN P = 1..7 /\ Len(P) = 7
      /\ P[1] = Drop("sms_messages", {"phone_created_at", "status_created_at"})
      /\ P[2] = Drop("verification_codes", {"destination_purpose_created_at"})
      /\ P[3] = Delete({Row("auth_identities", "provider", "apple")}, {})
      /\ P[4] = Remove({AnyProvider})
      /\ P[5] = Add({GoogleOnly})
      /\ P[6] = Remove(VerifiedColumns)
      /\ P[7] = Remove(SmsColumns)
  BY <1>1 DEF Upgrades, DropSmsUp
<1>3. \A i : i \in 1..7 <=> i \in {1, 2, 3, 4, 5, 6, 7}
  OBVIOUS
<1>4. /\ \A i \in {1, 2, 4, 6, 7} : P[i].do = "remove"
      /\ \A i \in {5} : P[i].do = "add"
      /\ P[3].do = "delete"
      /\ P[5].what = {GoogleOnly}
  BY <1>2, Statements
<1>5. ASSUME NEW o
      PROVE  /\ Hits(P[1].what, o) <=> o.table = "sms_messages"
             /\ Hits(P[2].what, o) <=> o.table = "verification_codes"
             /\ Hits(P[4].what, o) <=> Is(o, "check", "auth_identities", "provider")
             /\ Hits(P[6].what, o) <=> Is(o, "column", "users", "phone_verified_at")
                  \/ Is(o, "column", "users", "email_verified_at")
             /\ Hits(P[7].what, o) <=> Is(o, "column", "staff_invitations", "sms_sent_at")
                  \/ Is(o, "column", "staff_invitations", "sms_provider_id")
  <2>1. /\ P[6].what = VerifiedColumns
        /\ P[7].what = SmsColumns
    BY <1>2, Statements
  <2>2. /\ Hits(P[6].what, o) <=> Is(o, "column", "users", "phone_verified_at")
             \/ Is(o, "column", "users", "email_verified_at")
        /\ Hits(P[7].what, o) <=> Is(o, "column", "staff_invitations", "sms_sent_at")
             \/ Is(o, "column", "staff_invitations", "sms_provider_id")
    BY <2>1, HitsSets
  <2>3. /\ Hits(P[1].what, o) <=> o.table = "sms_messages"
        /\ Hits(P[2].what, o) <=> o.table = "verification_codes"
        /\ Hits(P[4].what, o) <=> Is(o, "check", "auth_identities", "provider")
    BY <1>2, RemoveHits DEF AnyProvider
  <2>4. QED  BY <2>2, <2>3
<1> DEFINE back == Done(Downgrades[24], "add")
           At(o) == IF o.table = "sms_messages" THEN 1
             ELSE IF o.table = "verification_codes" THEN 2
             ELSE IF o.table = "auth_identities" THEN 4
             ELSE IF o.table = "users" THEN 6
             ELSE IF o.table = "staff_invitations" THEN 7
             ELSE 99
<1>6. ASSUME NEW o
      PROVE  /\ (Hits(P[1].what, o) => At(o) = 1) /\ (Hits(P[2].what, o) => At(o) = 2)
             /\ (Hits(P[4].what, o) => At(o) = 4) /\ (Hits(P[6].what, o) => At(o) = 6)
             /\ (Hits(P[7].what, o) => At(o) = 7)
  BY <1>5 DEF Is
<1>7. /\ P[1].what = Made("sms_messages", {}, {"phone_created_at", "status_created_at"})
      /\ P[2].what = Made("verification_codes", {}, {"destination_purpose_created_at"})
      /\ P[4].what = {AnyProvider}
      /\ P[6].what = VerifiedColumns
      /\ P[7].what = SmsColumns
  BY <1>2, Statements
<1>8. /\ P[1].what \subseteq back /\ P[2].what \subseteq back /\ P[4].what \subseteq back
      /\ P[6].what \subseteq back /\ P[7].what \subseteq back
  BY <1>7, Down24, MadeMore
<1>9. ASSUME NEW q
      PROVE  /\ (q \in Tables(P[1].what) => q = "sms_messages")
             /\ (q \in Tables(P[2].what) => q = "verification_codes") /\ q \notin Tables(P[4].what)
             /\ q \notin Tables(P[6].what) /\ q \notin Tables(P[7].what)
  <2>1. Relation(q).kind = "table" /\ Relation(q).table = q
    BY RelationIs
  <2>2. QED  BY <1>5, <2>1, TablesHit DEF Is
<1> HIDE DEF At, back
<1> USE DEF PassingTables, PlanTables, TextTables, CodeTables, MoneyTables, TypeTables
<1>10. ASSUME NEW k \in {1, 2, 4, 6, 7}  PROVE RemovesWell(24, k)
  <2>1. P[k].what \subseteq back
    BY <1>8
  <2>2. P[k].what \cap LostIndexes = {}
    <3>1. \A o \in P[k].what : At(o) = k
      BY <1>6, MemberHit
    <3>2. ASSUME NEW o \in LostIndexes  PROVE At(o) = 99
      <4>1. o.table \in {"venue_translations", "menu_item_translations"}
        BY LostAre
      <4>2. QED  BY <4>1 DEF At
    <3>3. QED  BY <3>1, <3>2
  <2>3. ASSUME NEW o \in P[k].what  PROVE ~TakenBefore(P, k, o)
    <3>1. At(o) = k
      BY <1>6, MemberHit
    <3>2. \A i \in 1..(k - 1) : P[i].do = "remove" => i \in {1, 2, 4, 6, 7} /\ i # k
      BY <1>3, <1>4, Statements, <1>2
    <3>3. QED  BY <1>6, <3>1, <3>2 DEF TakenBefore
  <2>4. ASSUME NEW o \in Intended(23), o.kind = "key", o.table \notin Tables(P[k].what),
               o.name \in Tables(P[k].what)
        PROVE  TakenBefore(P, k, o)
    <3>1. o.name \in PassingTables => PointsTo(o.table, o.name)
      <4>1. 23 \in 0..30
        OBVIOUS
      <4>2. QED  BY <2>4, <4>1, IntendedMild DEF Mild
    <3>2. k # 1
      BY <1>9, <2>4, <3>1 DEF PointsTo
    <3>3. k # 2
      BY <1>9, <2>4, <3>1 DEF PointsTo
    <3>4. k \notin {4, 6, 7}
      BY <1>9, <2>4
    <3>5. QED  BY <3>2, <3>3, <3>4
  <2>5. 24 - 1 = 23
    OBVIOUS
  <2>6. QED  BY <1>1, <2>1, <2>2, <2>3, <2>4, <2>5 DEF RemovesWell, back
<1>11. AddsWell(24, 5)
  <2>1. ASSUME NEW o \in P[5].what
        PROVE  o.kind = "check" /\ o.table = "auth_identities" /\ o.name = "provider"
    BY <1>4, CheckIs DEF GoogleOnly
  <2>2. ASSUME NEW o \in P[5].what  PROVE Relation(o.table) \in Intended(23)
    <3>1. Birth(o.table) <= 20
      BY <2>1 DEF Birth
    <3>2. \/ o.table \notin PassingTables
          \/ o.table = "auth_identities" /\ 23 < 26
          \/ o.table \in MoneyTables /\ 23 < 25
      BY <2>1
    <3>3. 23 \in 20..30
      OBVIOUS
    <3>4. QED  BY <3>1, <3>2, <3>3, TablesStay
  <2>3. \A i \in 1..(5 - 1) : i \in {1, 2, 3, 4}
    OBVIOUS
  <2>4. ASSUME NEW o \in P[5].what  PROVE ~TakenBefore(P, 5, Relation(o.table))
    <3>1. Relation(o.table).kind = "table" /\ Relation(o.table).table = o.table
      BY RelationIs
    <3>2. /\ ~Hits(P[1].what, Relation(o.table)) /\ ~Hits(P[2].what, Relation(o.table))
          /\ ~Hits(P[4].what, Relation(o.table))
      BY <1>5, <2>1, <3>1 DEF Is
    <3>3. QED  BY <1>4, <2>3, <3>2 DEF TakenBefore
  <2>5. ASSUME NEW o \in P[5].what, NEW p \in back \cup LostIndexes, SameName(o, p)
        PROVE  TakenBefore(P, 5, p)
    <3>1. Hits(P[4].what, p)
      BY <1>5, <2>1, <2>5 DEF SameName, Is
    <3>2. 4 \in 1..(5 - 1)
      OBVIOUS
    <3>3. QED  BY <1>4, <3>1, <3>2 DEF TakenBefore
  <2>6. \A i \in 1..(5 - 1) : P[i].do # "add"
    BY <1>4, <2>3, <1>2, Statements
  <2>7. \A i \in 1..(5 - 1) : P[i].do = "add" => i \in {}
    BY <1>4, <2>3, <1>2, Statements
  <2>8. 24 - 1 = 23
    OBVIOUS
  <2>9. QED  BY <1>1, <2>1, <2>2, <2>4, <2>5, <2>6, <2>7, <2>8 DEF AddsWell, back
<1>12. P[3].held = {}
  BY <1>2 DEF Delete, Statement
<1>13. QED
  <2>1. Len(P) = 7
    BY <1>2
  <2>2. \A k \in {1, 2, 4, 6, 7} : P[k].do = "remove" /\ RemovesWell(24, k)
    BY <1>4, <1>10
  <2>3. /\ (P[5].do = "add" /\ AddsWell(24, 5)) /\ P[3].do = "delete" /\ P[3].held = {}
    BY <1>4, <1>11, <1>12
  <2>4. QED  BY <1>1, <1>3, <2>1, <2>2, <2>3 DEF LateShaped

LEMMA Shape25 == LateShaped(25)
<1>1. PICK P : P = Upgrades[25]
  OBVIOUS
<1>2. /\ DOMAIN P = 1..13 /\ Len(P) = 13
      /\ P[1] = Remove({ForeignKey("bookings", "promo_codes")})
      /\ P[2] = Remove({Column("bookings", "promo_code_id")})
      /\ P[3] = Remove({Column("bookings", "discount_amount")})
      /\ P[4] = Delete({Row("booking_price_lines", "line_type", "discount")}, {})
      /\ P[5] = Remove({AnyPriceLine})
      /\ P[6] = Add({UndiscountedLine})
      /\ P[7] = Drop("promo_code_redemptions", {})
      /\ P[8] = Drop("user_promo_codes", {"user_id_status_expires_at"})
      /\ P[9] = Drop("refunds", {"payment_id"})
      /\ P[10] = Drop("payments", {"user_id"})
      /\ P[11] = Drop("payment_cards", {"user_id"})
      /\ P[12] = Drop("promo_codes", {})
      /\ P[13] = Drop("banners", {})
  BY <1>1 DEF Upgrades, DropPaymentsUp
<1>3. \A i : i \in 1..13 <=> i \in {1, 2, 3, 4, 5, 6, 7, 8, 9, 10, 11, 12, 13}
  OBVIOUS
<1>4. /\ \A i \in {1, 2, 3, 5, 7, 8, 9, 10, 11, 12, 13} : P[i].do = "remove"
      /\ \A i \in {6} : P[i].do = "add"
      /\ P[4].do = "delete"
      /\ P[6].what = {UndiscountedLine}
  BY <1>2, Statements
<1>5. ASSUME NEW o
      PROVE  /\ Hits(P[1].what, o) <=> Is(o, "key", "bookings", "promo_codes")
             /\ Hits(P[2].what, o) <=> Is(o, "column", "bookings", "promo_code_id")
             /\ Hits(P[3].what, o) <=> Is(o, "column", "bookings", "discount_amount")
             /\ Hits(P[5].what, o) <=> Is(o, "check", "booking_price_lines", "line_type")
             /\ Hits(P[7].what, o) <=> o.table = "promo_code_redemptions"
             /\ Hits(P[8].what, o) <=> o.table = "user_promo_codes"
             /\ Hits(P[9].what, o) <=> o.table = "refunds"
             /\ Hits(P[10].what, o) <=> o.table = "payments"
             /\ Hits(P[11].what, o) <=> o.table = "payment_cards"
             /\ Hits(P[12].what, o) <=> o.table = "promo_codes"
             /\ Hits(P[13].what, o) <=> o.table = "banners"
  BY <1>2, RemoveHits DEF AnyPriceLine
<1> DEFINE back == Done(Downgrades[25], "add")
           At(o) == IF o.table = "bookings" /\ o.kind = "key" THEN 1
             ELSE IF o.table = "bookings" /\ o.name = "promo_code_id" THEN 2
             ELSE IF o.table = "bookings" THEN 3
             ELSE IF o.table = "booking_price_lines" THEN 5
             ELSE IF o.table = "promo_code_redemptions" THEN 7
             ELSE IF o.table = "user_promo_codes" THEN 8
             ELSE IF o.table = "refunds" THEN 9
             ELSE IF o.table = "payments" THEN 10
             ELSE IF o.table = "payment_cards" THEN 11
             ELSE IF o.table = "promo_codes" THEN 12
             ELSE IF o.table = "banners" THEN 13
             ELSE 99
<1>6. ASSUME NEW o
      PROVE  /\ (Hits(P[1].what, o) => At(o) = 1) /\ (Hits(P[2].what, o) => At(o) = 2)
             /\ (Hits(P[3].what, o) => At(o) = 3) /\ (Hits(P[5].what, o) => At(o) = 5)
             /\ (Hits(P[7].what, o) => At(o) = 7) /\ (Hits(P[8].what, o) => At(o) = 8)
             /\ (Hits(P[9].what, o) => At(o) = 9) /\ (Hits(P[10].what, o) => At(o) = 10)
             /\ (Hits(P[11].what, o) => At(o) = 11) /\ (Hits(P[12].what, o) => At(o) = 12)
             /\ (Hits(P[13].what, o) => At(o) = 13)
  BY <1>5 DEF Is
<1>7. /\ P[1].what = {ForeignKey("bookings", "promo_codes")}
      /\ P[2].what = {Column("bookings", "promo_code_id")}
      /\ P[3].what = {Column("bookings", "discount_amount")}
      /\ P[5].what = {AnyPriceLine}
      /\ P[7].what = Made("promo_code_redemptions", {}, {})
      /\ P[8].what = Made("user_promo_codes", {}, {"user_id_status_expires_at"})
      /\ P[9].what = Made("refunds", {}, {"payment_id"})
      /\ P[10].what = Made("payments", {}, {"user_id"})
      /\ P[11].what = Made("payment_cards", {}, {"user_id"})
      /\ P[12].what = Made("promo_codes", {}, {})
      /\ P[13].what = Made("banners", {}, {})
  BY <1>2, Statements
<1>8. /\ P[1].what \subseteq back /\ P[2].what \subseteq back /\ P[3].what \subseteq back
      /\ P[5].what \subseteq back /\ P[7].what \subseteq back /\ P[8].what \subseteq back
      /\ P[9].what \subseteq back /\ P[10].what \subseteq back /\ P[11].what \subseteq back
      /\ P[12].what \subseteq back /\ P[13].what \subseteq back
  BY <1>7, Down25, MadeMore
<1>9. ASSUME NEW q
      PROVE  /\ q \notin Tables(P[1].what) /\ q \notin Tables(P[2].what)
             /\ q \notin Tables(P[3].what) /\ q \notin Tables(P[5].what)
             /\ (q \in Tables(P[7].what) => q = "promo_code_redemptions")
             /\ (q \in Tables(P[8].what) => q = "user_promo_codes")
             /\ (q \in Tables(P[9].what) => q = "refunds")
             /\ (q \in Tables(P[10].what) => q = "payments")
             /\ (q \in Tables(P[11].what) => q = "payment_cards")
             /\ (q \in Tables(P[12].what) => q = "promo_codes")
             /\ (q \in Tables(P[13].what) => q = "banners")
  <2>1. Relation(q).kind = "table" /\ Relation(q).table = q
    BY RelationIs
  <2>2. QED  BY <1>5, <2>1, TablesHit DEF Is
<1> HIDE DEF At, back
<1> USE DEF PassingTables, PlanTables, TextTables, CodeTables, MoneyTables, TypeTables
<1>10. ASSUME NEW k \in {1, 2, 3, 5, 7, 8, 9, 10, 11, 12, 13}  PROVE RemovesWell(25, k)
  <2>1. P[k].what \subseteq back
    BY <1>8
  <2>2. P[k].what \cap LostIndexes = {}
    <3>1. \A o \in P[k].what : At(o) = k
      BY <1>6, MemberHit
    <3>2. ASSUME NEW o \in LostIndexes  PROVE At(o) = 99
      <4>1. o.table \in {"venue_translations", "menu_item_translations"}
        BY LostAre
      <4>2. QED  BY <4>1 DEF At
    <3>3. QED  BY <3>1, <3>2
  <2>3. ASSUME NEW o \in P[k].what  PROVE ~TakenBefore(P, k, o)
    <3>1. At(o) = k
      BY <1>6, MemberHit
    <3>2. \A i \in 1..(k - 1) : P[i].do = "remove" =>
            i \in {1, 2, 3, 5, 7, 8, 9, 10, 11, 12, 13} /\ i # k
      BY <1>3, <1>4, Statements, <1>2
    <3>3. QED  BY <1>6, <3>1, <3>2 DEF TakenBefore
  <2>4. ASSUME NEW o \in Intended(24), o.kind = "key", o.table \notin Tables(P[k].what),
               o.name \in Tables(P[k].what)
        PROVE  TakenBefore(P, k, o)
    <3>1. o.name \in PassingTables => PointsTo(o.table, o.name)
      <4>1. 24 \in 0..30
        OBVIOUS
      <4>2. QED  BY <2>4, <4>1, IntendedMild DEF Mild
    <3>2. k # 7
      BY <1>9, <2>4, <3>1 DEF PointsTo
    <3>3. k # 8
      BY <1>9, <2>4, <3>1 DEF PointsTo
    <3>4. k # 9
      BY <1>9, <2>4, <3>1 DEF PointsTo
    <3>5. CASE k = 10
      <4>1. o.name = "payments" /\ PointsTo(o.table, "payments")
        BY <1>9, <2>4, <3>1, <3>5
      <4>2. Hits(P[9].what, o)
        BY <1>5, <2>4, <4>1 DEF PointsTo, Is
      <4>3. /\ 9 \in 1..(k - 1)
        BY <3>5
      <4>4. QED  BY <1>4, <4>2, <4>3 DEF TakenBefore
    <3>6. CASE k = 11
      <4>1. o.name = "payment_cards" /\ PointsTo(o.table, "payment_cards")
        BY <1>9, <2>4, <3>1, <3>6
      <4>2. Hits(P[10].what, o)
        BY <1>5, <2>4, <4>1 DEF PointsTo, Is
      <4>3. /\ 10 \in 1..(k - 1)
        BY <3>6
      <4>4. QED  BY <1>4, <4>2, <4>3 DEF TakenBefore
    <3>7. CASE k = 12
      <4>1. o.name = "promo_codes" /\ PointsTo(o.table, "promo_codes")
        BY <1>9, <2>4, <3>1, <3>7
      <4>2. Hits(P[1].what, o) \/ Hits(P[7].what, o) \/ Hits(P[8].what, o)
        BY <1>5, <2>4, <4>1 DEF PointsTo, Is
      <4>3. /\ 1 \in 1..(k - 1) /\ 7 \in 1..(k - 1) /\ 8 \in 1..(k - 1)
        BY <3>7
      <4>4. QED  BY <1>4, <4>2, <4>3 DEF TakenBefore
    <3>8. k # 13
      <4>1. o.table \notin TextTables
        <5>1. 24 \in 22..30
          OBVIOUS
        <5>2. QED  BY <5>1, TextsAreGone
      <4>2. QED  BY <1>9, <2>4, <3>1, <4>1 DEF PointsTo
    <3>9. k \notin {1, 2, 3, 5}
      BY <1>9, <2>4
    <3>10. QED  BY <3>2, <3>3, <3>4, <3>5, <3>6, <3>7, <3>8, <3>9
  <2>5. 25 - 1 = 24
    OBVIOUS
  <2>6. QED  BY <1>1, <2>1, <2>2, <2>3, <2>4, <2>5 DEF RemovesWell, back
<1>11. AddsWell(25, 6)
  <2>1. ASSUME NEW o \in P[6].what
        PROVE  o.kind = "check" /\ o.table = "booking_price_lines" /\ o.name = "line_type"
    BY <1>4, CheckIs DEF UndiscountedLine
  <2>2. ASSUME NEW o \in P[6].what  PROVE Relation(o.table) \in Intended(24)
    <3>1. Birth(o.table) <= 20
      BY <2>1 DEF Birth
    <3>2. \/ o.table \notin PassingTables
          \/ o.table = "auth_identities" /\ 24 < 26
          \/ o.table \in MoneyTables /\ 24 < 25
      BY <2>1
    <3>3. 24 \in 20..30
      OBVIOUS
    <3>4. QED  BY <3>1, <3>2, <3>3, TablesStay
  <2>3. \A i \in 1..(6 - 1) : i \in {1, 2, 3, 4, 5}
    OBVIOUS
  <2>4. ASSUME NEW o \in P[6].what  PROVE ~TakenBefore(P, 6, Relation(o.table))
    <3>1. Relation(o.table).kind = "table" /\ Relation(o.table).table = o.table
      BY RelationIs
    <3>2. /\ ~Hits(P[1].what, Relation(o.table)) /\ ~Hits(P[2].what, Relation(o.table))
          /\ ~Hits(P[3].what, Relation(o.table)) /\ ~Hits(P[5].what, Relation(o.table))
      BY <1>5, <2>1, <3>1 DEF Is
    <3>3. QED  BY <1>4, <2>3, <3>2 DEF TakenBefore
  <2>5. ASSUME NEW o \in P[6].what, NEW p \in back \cup LostIndexes, SameName(o, p)
        PROVE  TakenBefore(P, 6, p)
    <3>1. Hits(P[5].what, p)
      BY <1>5, <2>1, <2>5 DEF SameName, Is
    <3>2. 5 \in 1..(6 - 1)
      OBVIOUS
    <3>3. QED  BY <1>4, <3>1, <3>2 DEF TakenBefore
  <2>6. \A i \in 1..(6 - 1) : P[i].do # "add"
    BY <1>4, <2>3, <1>2, Statements
  <2>7. \A i \in 1..(6 - 1) : P[i].do = "add" => i \in {}
    BY <1>4, <2>3, <1>2, Statements
  <2>8. 25 - 1 = 24
    OBVIOUS
  <2>9. QED  BY <1>1, <2>1, <2>2, <2>4, <2>5, <2>6, <2>7, <2>8 DEF AddsWell, back
<1>12. P[4].held = {}
  BY <1>2 DEF Delete, Statement
<1>13. QED
  <2>1. Len(P) = 13
    BY <1>2
  <2>2. \A k \in {1, 2, 3, 5, 7, 8, 9, 10, 11, 12, 13} : P[k].do = "remove" /\ RemovesWell(25, k)
    BY <1>4, <1>10
  <2>3. /\ (P[6].do = "add" /\ AddsWell(25, 6)) /\ P[4].do = "delete" /\ P[4].held = {}
    BY <1>4, <1>11, <1>12
  <2>4. QED  BY <1>1, <1>3, <2>1, <2>2, <2>3 DEF LateShaped

LEMMA Shape26 == LateShaped(26)
<1>1. PICK P : P = Upgrades[26]
  OBVIOUS
<1>2. /\ DOMAIN P = 1..1 /\ Len(P) = 1
      /\ P[1] = Drop("auth_identities", {"user_id"})
  BY <1>1 DEF Upgrades, DropIdentitiesUp
<1>3. \A i : i \in 1..1 <=> i \in {1}
  OBVIOUS
<1>4. /\ \A i \in {1} : P[i].do = "remove"
  BY <1>2, Statements
<1>5. ASSUME NEW o
      PROVE  /\ Hits(P[1].what, o) <=> o.table = "auth_identities"
  BY <1>2, RemoveHits
<1> DEFINE back == Done(Downgrades[26], "add")
           At(o) == IF o.table = "auth_identities" THEN 1
             ELSE 99
<1>6. ASSUME NEW o
      PROVE  /\ (Hits(P[1].what, o) => At(o) = 1)
  BY <1>5 DEF Is
<1>7. /\ P[1].what = Made("auth_identities", {}, {"user_id"})
  BY <1>2, Statements
<1>8. /\ P[1].what \subseteq back
  BY <1>7, Down26, MadeMore
<1>9. ASSUME NEW q
      PROVE  /\ (q \in Tables(P[1].what) => q = "auth_identities")
  <2>1. Relation(q).kind = "table" /\ Relation(q).table = q
    BY RelationIs
  <2>2. QED  BY <1>5, <2>1, TablesHit DEF Is
<1> HIDE DEF At, back
<1> USE DEF PassingTables, PlanTables, TextTables, CodeTables, MoneyTables, TypeTables
<1>10. ASSUME NEW k \in {1}  PROVE RemovesWell(26, k)
  <2>1. P[k].what \subseteq back
    BY <1>8
  <2>2. P[k].what \cap LostIndexes = {}
    <3>1. \A o \in P[k].what : At(o) = k
      BY <1>6, MemberHit
    <3>2. ASSUME NEW o \in LostIndexes  PROVE At(o) = 99
      <4>1. o.table \in {"venue_translations", "menu_item_translations"}
        BY LostAre
      <4>2. QED  BY <4>1 DEF At
    <3>3. QED  BY <3>1, <3>2
  <2>3. ASSUME NEW o \in P[k].what  PROVE ~TakenBefore(P, k, o)
    <3>1. At(o) = k
      BY <1>6, MemberHit
    <3>2. \A i \in 1..(k - 1) : P[i].do = "remove" => i \in {1} /\ i # k
      BY <1>3, <1>4
    <3>3. QED  BY <1>6, <3>1, <3>2 DEF TakenBefore
  <2>4. ASSUME NEW o \in Intended(25), o.kind = "key", o.table \notin Tables(P[k].what),
               o.name \in Tables(P[k].what)
        PROVE  TakenBefore(P, k, o)
    <3>1. o.name \in PassingTables => PointsTo(o.table, o.name)
      <4>1. 25 \in 0..30
        OBVIOUS
      <4>2. QED  BY <2>4, <4>1, IntendedMild DEF Mild
    <3>2. k # 1
      BY <1>9, <2>4, <3>1 DEF PointsTo
    <3>3. QED  BY <3>2
  <2>5. 26 - 1 = 25
    OBVIOUS
  <2>6. QED  BY <1>1, <2>1, <2>2, <2>3, <2>4, <2>5 DEF RemovesWell, back
<1>11. QED
  <2>1. Len(P) = 1
    BY <1>2
  <2>2. \A k \in {1} : P[k].do = "remove" /\ RemovesWell(26, k)
    BY <1>4, <1>10
  <2>4. QED  BY <1>1, <1>3, <2>1, <2>2 DEF LateShaped

LEMMA Shape27 == LateShaped(27)
<1>1. PICK P : P = Upgrades[27]
  OBVIOUS
<1>2. /\ DOMAIN P = 1..7 /\ Len(P) = 7
      /\ P[1] = Add(VenueTypeColumns)
      /\ P[2] = Add(VenueTypeChecks)
      /\ P[3] = Add({Index("venues", "venue_type")})
      /\ P[4] = Remove({Column("service_catalog", "applies_to_venue_type_id"),
           ForeignKey("service_catalog", "venue_types")})
      /\ P[5] = Remove({Column("venue_groups", "primary_venue_type_id"),
           ForeignKey("venue_groups", "venue_types")})
      /\ P[6] = Drop("venue_venue_types", {})
      /\ P[7] = Drop("venue_types", {})
  BY <1>1 DEF Upgrades, VenueTypeEnumUp
<1>3. \A i : i \in 1..7 <=> i \in {1, 2, 3, 4, 5, 6, 7}
  OBVIOUS
<1>4. /\ \A i \in {4, 5, 6, 7} : P[i].do = "remove"
      /\ \A i \in {1, 2, 3} : P[i].do = "add"
      /\ P[1].what = VenueTypeColumns
      /\ P[2].what = VenueTypeChecks
      /\ P[3].what = {Index("venues", "venue_type")}
  BY <1>2, Statements
<1>5. ASSUME NEW o
      PROVE  /\ Hits(P[4].what, o) <=> Is(o, "column", "service_catalog", "applies_to_venue_type_id")
                  \/ Is(o, "key", "service_catalog", "venue_types")
             /\ Hits(P[5].what, o) <=> Is(o, "column", "venue_groups", "primary_venue_type_id")
                  \/ Is(o, "key", "venue_groups", "venue_types")
             /\ Hits(P[6].what, o) <=> o.table = "venue_venue_types"
             /\ Hits(P[7].what, o) <=> o.table = "venue_types"
  <2>1. /\ P[4].what = {Column("service_catalog", "applies_to_venue_type_id"),
             ForeignKey("service_catalog", "venue_types")}
        /\ P[5].what = {Column("venue_groups", "primary_venue_type_id"),
             ForeignKey("venue_groups", "venue_types")}
    BY <1>2, Statements
  <2>2. /\ Hits(P[4].what, o) <=> Is(o, "column", "service_catalog", "applies_to_venue_type_id")
             \/ Is(o, "key", "service_catalog", "venue_types")
        /\ Hits(P[5].what, o) <=> Is(o, "column", "venue_groups", "primary_venue_type_id")
             \/ Is(o, "key", "venue_groups", "venue_types")
    BY <2>1, HitsSets
  <2>3. /\ Hits(P[6].what, o) <=> o.table = "venue_venue_types"
        /\ Hits(P[7].what, o) <=> o.table = "venue_types"
    BY <1>2, RemoveHits
  <2>4. QED  BY <2>2, <2>3
<1> DEFINE back == Done(Downgrades[27], "add")
           At(o) == IF o.table = "service_catalog" THEN 4
             ELSE IF o.table = "venue_groups" THEN 5
             ELSE IF o.table = "venue_venue_types" THEN 6
             ELSE IF o.table = "venue_types" THEN 7
             ELSE 99
<1>6. ASSUME NEW o
      PROVE  /\ (Hits(P[4].what, o) => At(o) = 4) /\ (Hits(P[5].what, o) => At(o) = 5)
             /\ (Hits(P[6].what, o) => At(o) = 6) /\ (Hits(P[7].what, o) => At(o) = 7)
  BY <1>5 DEF Is
<1>7. /\ P[4].what = {Column("service_catalog", "applies_to_venue_type_id"),
           ForeignKey("service_catalog", "venue_types")}
      /\ P[5].what = {Column("venue_groups", "primary_venue_type_id"),
           ForeignKey("venue_groups", "venue_types")}
      /\ P[6].what = Made("venue_venue_types", {}, {})
      /\ P[7].what = Made("venue_types", {}, {})
  BY <1>2, Statements
<1>8. /\ P[4].what \subseteq back /\ P[5].what \subseteq back /\ P[6].what \subseteq back
      /\ P[7].what \subseteq back
  BY <1>7, Down27, MadeMore
<1>9. ASSUME NEW q
      PROVE  /\ q \notin Tables(P[4].what) /\ q \notin Tables(P[5].what)
             /\ (q \in Tables(P[6].what) => q = "venue_venue_types")
             /\ (q \in Tables(P[7].what) => q = "venue_types")
  <2>1. Relation(q).kind = "table" /\ Relation(q).table = q
    BY RelationIs
  <2>2. QED  BY <1>5, <2>1, TablesHit DEF Is
<1> HIDE DEF At, back
<1> USE DEF PassingTables, PlanTables, TextTables, CodeTables, MoneyTables, TypeTables
<1>10. ASSUME NEW k \in {4, 5, 6, 7}  PROVE RemovesWell(27, k)
  <2>1. P[k].what \subseteq back
    BY <1>8
  <2>2. P[k].what \cap LostIndexes = {}
    <3>1. \A o \in P[k].what : At(o) = k
      BY <1>6, MemberHit
    <3>2. ASSUME NEW o \in LostIndexes  PROVE At(o) = 99
      <4>1. o.table \in {"venue_translations", "menu_item_translations"}
        BY LostAre
      <4>2. QED  BY <4>1 DEF At
    <3>3. QED  BY <3>1, <3>2
  <2>3. ASSUME NEW o \in P[k].what  PROVE ~TakenBefore(P, k, o)
    <3>1. At(o) = k
      BY <1>6, MemberHit
    <3>2. \A i \in 1..(k - 1) : P[i].do = "remove" => i \in {4, 5, 6, 7} /\ i # k
      BY <1>3, <1>4
    <3>3. QED  BY <1>6, <3>1, <3>2 DEF TakenBefore
  <2>4. ASSUME NEW o \in Intended(26), o.kind = "key", o.table \notin Tables(P[k].what),
               o.name \in Tables(P[k].what)
        PROVE  TakenBefore(P, k, o)
    <3>1. o.name \in PassingTables => PointsTo(o.table, o.name)
      <4>1. 26 \in 0..30
        OBVIOUS
      <4>2. QED  BY <2>4, <4>1, IntendedMild DEF Mild
    <3>2. k # 6
      BY <1>9, <2>4, <3>1 DEF PointsTo
    <3>3. CASE k = 7
      <4>1. o.table \notin TextTables
        <5>1. 26 \in 22..30
          OBVIOUS
        <5>2. QED  BY <5>1, TextsAreGone
      <4>2. o.name = "venue_types" /\ PointsTo(o.table, "venue_types")
        BY <1>9, <2>4, <3>1, <3>3
      <4>3. Hits(P[4].what, o) \/ Hits(P[5].what, o) \/ Hits(P[6].what, o)
        BY <1>5, <2>4, <4>2, <4>1 DEF PointsTo, Is, TextTables
      <4>4. /\ 4 \in 1..(k - 1) /\ 5 \in 1..(k - 1) /\ 6 \in 1..(k - 1)
        BY <3>3
      <4>5. QED  BY <1>4, <4>3, <4>4 DEF TakenBefore
    <3>4. k \notin {4, 5}
      BY <1>9, <2>4
    <3>5. QED  BY <3>2, <3>3, <3>4
  <2>5. 27 - 1 = 26
    OBVIOUS
  <2>6. QED  BY <1>1, <2>1, <2>2, <2>3, <2>4, <2>5 DEF RemovesWell, back
<1>11. AddsWell(27, 1)
  <2>1. ASSUME NEW o \in P[1].what
        PROVE  o.kind = "column" /\ o.table \in {"venues", "venue_groups", "service_catalog"}
          /\ o.name \in {"venue_type", "primary_venue_type", "applies_to_venue_type"}
    BY <1>4, ColumnIs DEF VenueTypeColumns
  <2>2. ASSUME NEW o \in P[1].what  PROVE Relation(o.table) \in Intended(26)
    <3>1. Birth(o.table) <= 20
      BY <2>1 DEF Birth
    <3>2. o.table \notin PassingTables
      BY <2>1
    <3>3. 26 \in 20..30
      OBVIOUS
    <3>4. QED  BY <3>1, <3>2, <3>3, TablesStay
  <2>3. \A i \in 1..(1 - 1) : i \in {}
    OBVIOUS
  <2>4. \A o : ~TakenBefore(P, 1, o)
    BY <1>4, <2>3 DEF TakenBefore
  <2>5. ASSUME NEW o \in P[1].what, NEW p \in back \cup LostIndexes, SameName(o, p)
        PROVE  TakenBefore(P, 1, p)
    <3>1. p \notin LostIndexes
      BY <2>1, <2>5, LostAre DEF SameName
    <3>2. /\ p.table \in TypeTables \cup {"venue_groups", "service_catalog"}
          /\ p.kind \in {"column", "table", "key"}
          /\ p.kind = "column" =>
               p.name \in {"name", "primary_venue_type_id", "applies_to_venue_type_id"}
      BY <2>5, <3>1, Down27, MadeHas, ColumnIs, KeyIs DEF back, TypeTables
    <3>3. QED  BY <2>1, <2>5, <3>2 DEF SameName
  <2>6. \A i \in 1..(1 - 1) : P[i].do # "add"
    BY <1>4, <2>3
  <2>7. \A i \in 1..(1 - 1) : P[i].do = "add" => i \in {}
    BY <1>4, <2>3
  <2>8. 27 - 1 = 26
    OBVIOUS
  <2>9. QED  BY <1>1, <2>1, <2>2, <2>4, <2>5, <2>6, <2>7, <2>8 DEF AddsWell, back
<1>12. AddsWell(27, 2)
  <2>1. ASSUME NEW o \in P[2].what
        PROVE  o.kind = "check" /\ o.table \in {"venues", "venue_groups", "service_catalog"}
    BY <1>4, CheckIs DEF VenueTypeChecks
  <2>2. ASSUME NEW o \in P[2].what  PROVE Relation(o.table) \in Intended(26)
    <3>1. Birth(o.table) <= 20
      BY <2>1 DEF Birth
    <3>2. o.table \notin PassingTables
      BY <2>1
    <3>3. 26 \in 20..30
      OBVIOUS
    <3>4. QED  BY <3>1, <3>2, <3>3, TablesStay
  <2>3. \A i \in 1..(2 - 1) : i \in {1}
    OBVIOUS
  <2>4. \A o : ~TakenBefore(P, 2, o)
    BY <1>4, <2>3 DEF TakenBefore
  <2>5. ASSUME NEW o \in P[2].what, NEW p \in back \cup LostIndexes, SameName(o, p)
        PROVE  TakenBefore(P, 2, p)
    <3>1. p \notin LostIndexes
      BY <2>1, <2>5, LostAre DEF SameName
    <3>2. /\ p.table \in TypeTables \cup {"venue_groups", "service_catalog"}
          /\ p.kind \in {"column", "table", "key"}
          /\ p.kind = "column" =>
               p.name \in {"name", "primary_venue_type_id", "applies_to_venue_type_id"}
      BY <2>5, <3>1, Down27, MadeHas, ColumnIs, KeyIs DEF back, TypeTables
    <3>3. QED  BY <2>1, <2>5, <3>2 DEF SameName
  <2>6. ASSUME NEW o \in P[2].what, NEW i \in {1}, NEW p \in P[i].what  PROVE ~SameName(o, p)
    BY <2>1, <1>4, ColumnIs, CheckIs DEF VenueTypeColumns, VenueTypeChecks, SameName
  <2>7. \A i \in 1..(2 - 1) : P[i].do = "add" => i \in {1}
    BY <1>4, <2>3
  <2>8. 27 - 1 = 26
    OBVIOUS
  <2>9. QED  BY <1>1, <2>1, <2>2, <2>4, <2>5, <2>6, <2>7, <2>8 DEF AddsWell, back
<1>13. AddsWell(27, 3)
  <2>1. ASSUME NEW o \in P[3].what
        PROVE  o.kind = "index" /\ o.table = "venues" /\ o.name = "venue_type"
    BY <1>4, IndexIs
  <2>2. ASSUME NEW o \in P[3].what  PROVE Relation(o.table) \in Intended(26)
    <3>1. Birth(o.table) <= 20
      BY <2>1 DEF Birth
    <3>2. o.table \notin PassingTables
      BY <2>1
    <3>3. 26 \in 20..30
      OBVIOUS
    <3>4. QED  BY <3>1, <3>2, <3>3, TablesStay
  <2>3. \A i \in 1..(3 - 1) : i \in {1, 2}
    OBVIOUS
  <2>4. \A o : ~TakenBefore(P, 3, o)
    BY <1>4, <2>3 DEF TakenBefore
  <2>5. ASSUME NEW o \in P[3].what, NEW p \in back \cup LostIndexes, SameName(o, p)
        PROVE  TakenBefore(P, 3, p)
    <3>1. p \notin LostIndexes
      BY <2>1, <2>5, LostAre DEF SameName
    <3>2. /\ p.table \in TypeTables \cup {"venue_groups", "service_catalog"}
          /\ p.kind \in {"column", "table", "key"}
          /\ p.kind = "column" =>
               p.name \in {"name", "primary_venue_type_id", "applies_to_venue_type_id"}
      BY <2>5, <3>1, Down27, MadeHas, ColumnIs, KeyIs DEF back, TypeTables
    <3>3. QED  BY <2>1, <2>5, <3>2 DEF SameName
  <2>6. ASSUME NEW o \in P[3].what, NEW i \in {1, 2}, NEW p \in P[i].what  PROVE ~SameName(o, p)
    BY <2>1, <1>4, ColumnIs, CheckIs DEF VenueTypeColumns, VenueTypeChecks, SameName
  <2>7. \A i \in 1..(3 - 1) : P[i].do = "add" => i \in {1, 2}
    BY <1>4, <2>3
  <2>8. 27 - 1 = 26
    OBVIOUS
  <2>9. QED  BY <1>1, <2>1, <2>2, <2>4, <2>5, <2>6, <2>7, <2>8 DEF AddsWell, back
<1>14. QED
  <2>1. Len(P) = 7
    BY <1>2
  <2>2. \A k \in {4, 5, 6, 7} : P[k].do = "remove" /\ RemovesWell(27, k)
    BY <1>4, <1>10
  <2>3. /\ (P[1].do = "add" /\ AddsWell(27, 1)) /\ (P[2].do = "add" /\ AddsWell(27, 2))
       /\ (P[3].do = "add" /\ AddsWell(27, 3))
    BY <1>4, <1>11, <1>12, <1>13
  <2>4. QED  BY <1>1, <1>3, <2>1, <2>2, <2>3 DEF LateShaped

LEMMA Shape28 == LateShaped(28)
<1>1. PICK P : P = Upgrades[28]
  OBVIOUS
<1>2. /\ DOMAIN P = 1..1 /\ Len(P) = 1
      /\ P[1] = Add({Check("regions", "code", RegionCodes)})
  BY <1>1 DEF Upgrades, UniqueRegionCodeUp
<1>3. \A i : i \in 1..1 <=> i \in {1}
  OBVIOUS
<1>4. /\ \A i \in {1} : P[i].do = "add"
      /\ P[1].what = {Check("regions", "code", RegionCodes)}
  BY <1>2, Statements
<1> DEFINE back == Done(Downgrades[28], "add")
<1>6. AddsWell(28, 1)
  <2>1. ASSUME NEW o \in P[1].what
        PROVE  o.kind = "check" /\ o.table = "regions"
    BY <1>4, CheckIs
  <2>2. ASSUME NEW o \in P[1].what  PROVE Relation(o.table) \in Intended(27)
    <3>1. Birth(o.table) <= 20
      BY <2>1 DEF Birth
    <3>2. o.table \notin PassingTables
      BY <2>1 DEF PassingTables, PlanTables, TextTables, CodeTables, MoneyTables, TypeTables
    <3>3. 27 \in 20..30
      OBVIOUS
    <3>4. QED  BY <3>1, <3>2, <3>3, TablesStay
  <2>3. \A i \in 1..(1 - 1) : i \in {}
    OBVIOUS
  <2>4. \A o : ~TakenBefore(P, 1, o)
    BY <1>4, <2>3 DEF TakenBefore
  <2>5. ASSUME NEW o \in P[1].what, NEW p \in back \cup LostIndexes, SameName(o, p)
        PROVE  TakenBefore(P, 1, p)
    <3>1. p \notin LostIndexes
      BY <2>1, <2>5, LostAre DEF SameName
    <3>2. QED  BY <3>1, Down28 DEF back
  <2>6. \A i \in 1..(1 - 1) : P[i].do # "add"
    BY <1>4, <2>3
  <2>7. \A i \in 1..(1 - 1) : P[i].do = "add" => i \in {}
    BY <1>4, <2>3
  <2>8. 28 - 1 = 27
    OBVIOUS
  <2>9. QED  BY <1>1, <2>1, <2>2, <2>4, <2>5, <2>6, <2>7, <2>8 DEF AddsWell, back
<1>7. QED
  <2>1. Len(P) = 1
    BY <1>2
  <2>2. \A k \in {} : P[k].do = "remove" /\ RemovesWell(28, k)
    BY <1>4
  <2>3. /\ (P[1].do = "add" /\ AddsWell(28, 1))
    BY <1>4, <1>6
  <2>4. QED  BY <1>1, <1>3, <2>1, <2>2, <2>3 DEF LateShaped

LEMMA Shape31 == LateShaped(31)
<1>1. PICK P : P = Upgrades[31]
  OBVIOUS
<1>2. /\ DOMAIN P = 1..3 /\ Len(P) = 3
      /\ P[1] = Add({Column("users", "telegram_id"), Check("users", "telegram_id", {"once"})})
      /\ P[2] = Remove({PhoneOrEmail})
      /\ P[3] = Add({AnyIdentity})
  BY <1>1 DEF Upgrades, TelegramUp
<1>3. \A i : i \in 1..3 <=> i \in {1, 2, 3}
  OBVIOUS
<1>4. /\ \A i \in {2} : P[i].do = "remove"
      /\ \A i \in {1, 3} : P[i].do = "add"
      /\ P[1].what = {Column("users", "telegram_id"), Check("users", "telegram_id", {"once"})}
      /\ P[3].what = {AnyIdentity}
  BY <1>2, Statements
<1>5. ASSUME NEW o
      PROVE  /\ Hits(P[2].what, o) <=> Is(o, "check", "users", "identity")
  BY <1>2, RemoveHits DEF PhoneOrEmail
<1> DEFINE back == Done(Downgrades[31], "add")
           At(o) == IF o.table = "users" THEN 2
             ELSE 99
<1>6. ASSUME NEW o
      PROVE  /\ (Hits(P[2].what, o) => At(o) = 2)
  BY <1>5 DEF Is
<1>7. /\ P[2].what = {PhoneOrEmail}
  BY <1>2, Statements
<1>8. /\ P[2].what \subseteq back
  BY <1>7, Down31, MadeMore
<1>9. ASSUME NEW q
      PROVE  /\ q \notin Tables(P[2].what)
  <2>1. Relation(q).kind = "table" /\ Relation(q).table = q
    BY RelationIs
  <2>2. QED  BY <1>5, <2>1, TablesHit DEF Is
<1> HIDE DEF At, back
<1> USE DEF PassingTables, PlanTables, TextTables, CodeTables, MoneyTables, TypeTables
<1>10. ASSUME NEW k \in {2}  PROVE RemovesWell(31, k)
  <2>1. P[k].what \subseteq back
    BY <1>8
  <2>2. P[k].what \cap LostIndexes = {}
    <3>1. \A o \in P[k].what : At(o) = k
      BY <1>6, MemberHit
    <3>2. ASSUME NEW o \in LostIndexes  PROVE At(o) = 99
      <4>1. o.table \in {"venue_translations", "menu_item_translations"}
        BY LostAre
      <4>2. QED  BY <4>1 DEF At
    <3>3. QED  BY <3>1, <3>2
  <2>3. ASSUME NEW o \in P[k].what  PROVE ~TakenBefore(P, k, o)
    <3>1. At(o) = k
      BY <1>6, MemberHit
    <3>2. \A i \in 1..(k - 1) : P[i].do = "remove" => i \in {2} /\ i # k
      BY <1>3, <1>4
    <3>3. QED  BY <1>6, <3>1, <3>2 DEF TakenBefore
  <2>4. ASSUME NEW o \in Intended(30), o.kind = "key", o.table \notin Tables(P[k].what),
               o.name \in Tables(P[k].what)
        PROVE  TakenBefore(P, k, o)
    BY <1>9, <2>4
  <2>5. 31 - 1 = 30
    OBVIOUS
  <2>6. QED  BY <1>1, <2>1, <2>2, <2>3, <2>4, <2>5 DEF RemovesWell, back
<1>11. AddsWell(31, 1)
  <2>1. ASSUME NEW o \in P[1].what
        PROVE  o.kind \in {"column", "check"} /\ o.table = "users" /\ o.name = "telegram_id"
    BY <1>4, ColumnIs, CheckIs
  <2>2. ASSUME NEW o \in P[1].what  PROVE Relation(o.table) \in Intended(30)
    <3>1. Birth(o.table) <= 20
      BY <2>1 DEF Birth
    <3>2. o.table \notin PassingTables
      BY <2>1
    <3>3. 30 \in 20..30
      OBVIOUS
    <3>4. QED  BY <3>1, <3>2, <3>3, TablesStay
  <2>3. \A i \in 1..(1 - 1) : i \in {}
    OBVIOUS
  <2>4. \A o : ~TakenBefore(P, 1, o)
    BY <1>4, <2>3 DEF TakenBefore
  <2>5. ASSUME NEW o \in P[1].what, NEW p \in back \cup LostIndexes, SameName(o, p)
        PROVE  TakenBefore(P, 1, p)
    <3>1. p \notin LostIndexes
      BY <2>1, <2>5, LostAre DEF SameName
    <3>2. p.name = "identity"
      BY <3>1, Down31, CheckIs DEF back, PhoneOrEmail
    <3>3. QED  BY <2>1, <2>5, <3>2 DEF SameName
  <2>6. \A i \in 1..(1 - 1) : P[i].do # "add"
    BY <1>4, <2>3
  <2>7. \A i \in 1..(1 - 1) : P[i].do = "add" => i \in {}
    BY <1>4, <2>3
  <2>8. 31 - 1 = 30
    OBVIOUS
  <2>9. QED  BY <1>1, <2>1, <2>2, <2>4, <2>5, <2>6, <2>7, <2>8 DEF AddsWell, back
<1>12. AddsWell(31, 3)
  <2>1. ASSUME NEW o \in P[3].what
        PROVE  o.kind = "check" /\ o.table = "users" /\ o.name = "identity"
    BY <1>4, CheckIs DEF AnyIdentity
  <2>2. ASSUME NEW o \in P[3].what  PROVE Relation(o.table) \in Intended(30)
    <3>1. Birth(o.table) <= 20
      BY <2>1 DEF Birth
    <3>2. o.table \notin PassingTables
      BY <2>1
    <3>3. 30 \in 20..30
      OBVIOUS
    <3>4. QED  BY <3>1, <3>2, <3>3, TablesStay
  <2>3. \A i \in 1..(3 - 1) : i \in {1, 2}
    OBVIOUS
  <2>4. ASSUME NEW o \in P[3].what  PROVE ~TakenBefore(P, 3, Relation(o.table))
    <3>1. Relation(o.table).kind = "table" /\ Relation(o.table).table = o.table
      BY RelationIs
    <3>2. /\ ~Hits(P[2].what, Relation(o.table))
      BY <1>5, <2>1, <3>1 DEF Is
    <3>3. QED  BY <1>4, <2>3, <3>2 DEF TakenBefore
  <2>5. ASSUME NEW o \in P[3].what, NEW p \in back \cup LostIndexes, SameName(o, p)
        PROVE  TakenBefore(P, 3, p)
    <3>1. Hits(P[2].what, p)
      BY <1>5, <2>1, <2>5 DEF SameName, Is
    <3>2. 2 \in 1..(3 - 1)
      OBVIOUS
    <3>3. QED  BY <1>4, <3>1, <3>2 DEF TakenBefore
  <2>6. ASSUME NEW o \in P[3].what, NEW i \in {1}, NEW p \in P[i].what  PROVE ~SameName(o, p)
    BY <2>1, <1>4, ColumnIs, CheckIs DEF SameName
  <2>7. \A i \in 1..(3 - 1) : P[i].do = "add" => i \in {1}
    BY <1>4, <2>3
  <2>8. 31 - 1 = 30
    OBVIOUS
  <2>9. QED  BY <1>1, <2>1, <2>2, <2>4, <2>5, <2>6, <2>7, <2>8 DEF AddsWell, back
<1>13. QED
  <2>1. Len(P) = 3
    BY <1>2
  <2>2. \A k \in {2} : P[k].do = "remove" /\ RemovesWell(31, k)
    BY <1>4, <1>10
  <2>3. /\ (P[1].do = "add" /\ AddsWell(31, 1)) /\ (P[3].do = "add" /\ AddsWell(31, 3))
    BY <1>4, <1>11, <1>12
  <2>4. QED  BY <1>1, <1>3, <2>1, <2>2, <2>3 DEF LateShaped
-----------------------------------------------------------------------------
(* Which rows there are, and what the revisions ask of them.                  *)

FirstSeeds == {Seed(t) : t \in ReferenceLists}
SeedRows == FirstSeeds \cup {Seed("staff_role_permissions")} \cup RegionRows

\* Rows that the model knows, in tables that are there, and no check rejects one.
RowsFit(s) ==
    /\ s.rows \subseteq RowsThatMatter \cup SeedRows
    /\ RowsStand(s)
    /\ \A o \in s.schema : Admits(o, s.rows)

\* A list is not there before the revision that brings it.
SeedsLate(rows, r) ==
    /\ r < 19 => rows \cap FirstSeeds = {}
    /\ r < 23 => Seed("staff_role_permissions") \notin rows
    /\ r < 29 => Seed("districts") \notin rows

LEMMA RowsKnown ==
  ASSUME NEW w \in RowsThatMatter \cup SeedRows
  PROVE  /\ w.table = "payments" => w = Row("payments", "target", "subscription")
         /\ w.table = "promo_codes" => w = Row("promo_codes", "applies_to", "subscription")
         /\ w.table = "auth_identities" => w = Row("auth_identities", "provider", "apple")
         /\ w.table = "booking_price_lines" => w = Row("booking_price_lines", "line_type", "discount")
         /\ w.table = "regions" =>
              w = Row("regions", "code", "seeded") \/ w = Row("regions", "code", "twice")
         /\ w.table = "users" => /\ w.column \in {"identity", "district_id", "language_id"}
                                 /\ w.column = "identity" => w.value = "telegram"
         /\ w.column \notin {"venue_type", "primary_venue_type", "applies_to_venue_type"}
<1>1. CASE w \in RowsThatMatter
  BY <1>1, ReferencesAre, RowIs DEF RowsThatMatter, TelegramGuest
<1>2. CASE w = Row("regions", "code", "seeded")
  BY <1>2, RowIs
<1>3. ASSUME NEW t, w = Seed(t),
             t \in ReferenceLists \cup {"staff_role_permissions", "districts"}
      PROVE  /\ w.column = "slug"
             /\ w.table \notin {"payments", "promo_codes", "auth_identities", "booking_price_lines",
                                "regions", "users"}
  BY <1>3, SeedIs DEF ReferenceLists
<1>4. \/ w \in RowsThatMatter \/ w = Row("regions", "code", "seeded")
      \/ \E t \in ReferenceLists \cup {"staff_role_permissions", "districts"} : w = Seed(t)
  BY DEF SeedRows, FirstSeeds, RegionRows
<1>5. QED  BY <1>1, <1>2, <1>3, <1>4

\* What a check asks of the rows that there may be.
LEMMA ChecksAdmit ==
  ASSUME NEW rows, rows \subseteq RowsThatMatter \cup SeedRows
  PROVE  /\ \A v : Row("payments", "target", "subscription") \notin rows =>
                     \A c : Admits(Check("payments", c, v), rows)
         /\ \A v : Row("promo_codes", "applies_to", "subscription") \notin rows =>
                     \A c : Admits(Check("promo_codes", c, v), rows)
         /\ \A v : Row("auth_identities", "provider", "apple") \notin rows =>
                     \A c : Admits(Check("auth_identities", c, v), rows)
         /\ \A v : Row("booking_price_lines", "line_type", "discount") \notin rows =>
                     \A c : Admits(Check("booking_price_lines", c, v), rows)
         /\ Row("regions", "code", "twice") \notin rows =>
              Admits(Check("regions", "code", {"seeded"}), rows)
         /\ \A v : Admits(Check("users", "telegram_id", v), rows)
         /\ Admits(Check("users", "identity", {"phone", "email", "telegram"}), rows)
         /\ \A t, c, v : c \in {"venue_type", "primary_venue_type", "applies_to_venue_type"} =>
                           Admits(Check(t, c, v), rows)
<1>1. ASSUME NEW t, NEW c, NEW v,
             \A w \in rows : w.table = t /\ w.column = c => w.value \in v
      PROVE  Admits(Check(t, c, v), rows)
  <2>1. Check(t, c, v).table = t /\ Check(t, c, v).name = c /\ Check(t, c, v).to = v
    BY DEF Check, Object
  <2>2. QED  BY <1>1, <2>1 DEF Admits
<1>2. /\ \A w \in rows : w.table = "payments" => w = Row("payments", "target", "subscription")
      /\ \A w \in rows : w.table = "promo_codes" => w = Row("promo_codes", "applies_to", "subscription")
      /\ \A w \in rows : w.table = "auth_identities" => w = Row("auth_identities", "provider", "apple")
      /\ \A w \in rows : w.table = "booking_price_lines" =>
              w = Row("booking_price_lines", "line_type", "discount")
  BY RowsKnown
<1>3. \A w \in rows : w.table = "regions" =>
          w = Row("regions", "code", "seeded") \/ w = Row("regions", "code", "twice")
  BY RowsKnown
<1>4. \A w \in rows : w.table = "users" => /\ w.column # "telegram_id"
                                           /\ w.column = "identity" => w.value = "telegram"
  BY RowsKnown
<1>5. \A w \in rows : w.column \notin {"venue_type", "primary_venue_type", "applies_to_venue_type"}
  BY RowsKnown
<1>6. Row("regions", "code", "twice") \notin rows => Admits(Check("regions", "code", {"seeded"}), rows)
  BY <1>1, <1>3, RowIs
<1>7. \A v : Admits(Check("users", "telegram_id", v), rows)
  BY <1>1, <1>4
<1>8. Admits(Check("users", "identity", {"phone", "email", "telegram"}), rows)
  BY <1>1, <1>4
<1>9. \A t, c, v : c \in {"venue_type", "primary_venue_type", "applies_to_venue_type"} =>
                     Admits(Check(t, c, v), rows)
  BY <1>1, <1>5
<1>10. /\ \A v, c : Row("payments", "target", "subscription") \notin rows =>
                     Admits(Check("payments", c, v), rows)
       /\ \A v, c : Row("promo_codes", "applies_to", "subscription") \notin rows =>
                     Admits(Check("promo_codes", c, v), rows)
  BY <1>1, <1>2
<1>11. /\ \A v, c : Row("auth_identities", "provider", "apple") \notin rows =>
                     Admits(Check("auth_identities", c, v), rows)
       /\ \A v, c : Row("booking_price_lines", "line_type", "discount") \notin rows =>
                     Admits(Check("booking_price_lines", c, v), rows)
  BY <1>1, <1>2
<1>12. QED  BY <1>6, <1>7, <1>8, <1>9, <1>10, <1>11

LEMMA PartsAdmit ==
  /\ \A t, c, rows : Admits(Column(t, c), rows)
  /\ \A t, i, rows : Admits(Index(t, i), rows)
  BY ColumnIs, IndexIs DEF Admits

\* Without an obstacle, the rows allow each of the later revisions.
LEMMA LateRows ==
  ASSUME NEW r \in {21, 22, 24, 25, 26, 27, 28, 31}, LateShaped(r),
         NEW rows, rows \subseteq RowsThatMatter \cup SeedRows,
         r < 29 => rows \cap Obstacles = {}
  PROVE  RowsAllow(Upgrades[r], rows)
<1>1. DOMAIN Upgrades[r] = 1..Len(Upgrades[r]) /\ Len(Upgrades[r]) \in Nat
  <2>1. r \in 1..31
    OBVIOUS
  <2>2. QED  BY <2>1, ProgramsAreSequences
<1>2. \A i \in 1..Len(Upgrades[r]) : Upgrades[r][i].do # "insert"
  BY DEF LateShaped
<1>3. ASSUME NEW k \in 1..Len(Upgrades[r])
      PROVE  RowsBy(Upgrades[r], k - 1, rows) \subseteq rows \ UpTo(Upgrades[r], k - 1, "delete")
  <2>1. \A i \in 1..(k - 1) : i \in 1..Len(Upgrades[r])
    BY <1>1
  <2>2. UpTo(Upgrades[r], k - 1, "insert") = {}
    BY <1>2, <2>1 DEF UpTo
  <2>3. QED  BY <2>2 DEF RowsBy
<1>4. ASSUME NEW k \in 1..Len(Upgrades[r]), Upgrades[r][k].do = "add", NEW o \in Upgrades[r][k].what
      PROVE  o \in Added(r)
  BY <1>1, <1>4, InDone DEF Added
<1>5. ASSUME \A k \in 1..Len(Upgrades[r]) : Upgrades[r][k].do # "forbid",
             \A o \in Added(r) : Admits(o, rows)
      PROVE  RowsAllow(Upgrades[r], rows)
  BY <1>3, <1>4, <1>5 DEF RowsAllow, Admits
<1>6. CASE r = 21
  <2>1. /\ Row("payments", "target", "subscription") \notin rows
        /\ Row("promo_codes", "applies_to", "subscription") \notin rows
    BY <1>6 DEF Obstacles
  <2>2. \A o \in Added(21) : Admits(o, rows)
    BY <2>1, Up21, ChecksAdmit DEF BookingPaymentChecks, AppliesToBookings
  <2>3. Upgrades[21] = DropSubscriptionsUp
    BY DEF Upgrades
  <2>4. ASSUME NEW k \in 1..Len(DropSubscriptionsUp), DropSubscriptionsUp[k].do = "forbid"
        PROVE  DropSubscriptionsUp[k].what = {Row("payments", "target", "subscription")}
    <3>1. \A x : Forbid(x).what = x
      BY DEF Forbid, Statement
    <3>2. QED  BY <2>4, <3>1, Statements DEF DropSubscriptionsUp
  <2>5. QED  BY <1>3, <1>4, <1>6, <2>1, <2>2, <2>3, <2>4 DEF RowsAllow, Admits
<1>7. CASE r = 24
  <2>1. Upgrades[24] = DropSmsUp
    BY DEF Upgrades
  <2>2. ASSUME NEW k \in 1..Len(DropSmsUp)
        PROVE  /\ DropSmsUp[k].do # "forbid" /\ (DropSmsUp[k].do = "add" => k = 5)
               /\ DropSmsUp[3].do = "delete"
               /\ DropSmsUp[3].what = {Row("auth_identities", "provider", "apple")}
    <3>1. \A x, y : Delete(x, y).what = x
      BY DEF Delete, Statement
    <3>2. QED  BY <3>1, Statements DEF DropSmsUp
  <2>3. ASSUME NEW k \in 1..Len(DropSmsUp), DropSmsUp[k].do = "add", NEW o \in DropSmsUp[k].what
        PROVE  Admits(o, RowsBy(DropSmsUp, k - 1, rows))
    <3>1. 3 \in 1..(k - 1)
      BY <2>2, <2>3
    <3>2. Row("auth_identities", "provider", "apple") \in UpTo(DropSmsUp, k - 1, "delete")
      BY <2>2, <3>1 DEF UpTo
    <3>3. /\ RowsBy(DropSmsUp, k - 1, rows) \subseteq RowsThatMatter \cup SeedRows
          /\ Row("auth_identities", "provider", "apple") \notin RowsBy(DropSmsUp, k - 1, rows)
      BY <1>3, <1>7, <2>1, <3>2
    <3>4. o = GoogleOnly
      BY <1>4, <1>7, <2>1, <2>3, Up24
    <3>5. QED  BY <3>3, <3>4, ChecksAdmit DEF GoogleOnly
  <2>4. QED  BY <1>7, <2>1, <2>2, <2>3 DEF RowsAllow
<1>8. CASE r = 25
  <2>1. Upgrades[25] = DropPaymentsUp
    BY DEF Upgrades
  <2>2. ASSUME NEW k \in 1..Len(DropPaymentsUp)
        PROVE  /\ DropPaymentsUp[k].do # "forbid" /\ (DropPaymentsUp[k].do = "add" => k = 6)
               /\ DropPaymentsUp[4].do = "delete"
               /\ DropPaymentsUp[4].what = {Row("booking_price_lines", "line_type", "discount")}
    <3>1. \A x, y : Delete(x, y).what = x
      BY DEF Delete, Statement
    <3>2. QED  BY <3>1, Statements DEF DropPaymentsUp
  <2>3. ASSUME NEW k \in 1..Len(DropPaymentsUp), DropPaymentsUp[k].do = "add",
               NEW o \in DropPaymentsUp[k].what
        PROVE  Admits(o, RowsBy(DropPaymentsUp, k - 1, rows))
    <3>1. 4 \in 1..(k - 1)
      BY <2>2, <2>3
    <3>2. Row("booking_price_lines", "line_type", "discount") \in UpTo(DropPaymentsUp, k - 1, "delete")
      BY <2>2, <3>1 DEF UpTo
    <3>3. /\ RowsBy(DropPaymentsUp, k - 1, rows) \subseteq RowsThatMatter \cup SeedRows
          /\ Row("booking_price_lines", "line_type", "discount") \notin RowsBy(DropPaymentsUp,
               k - 1, rows)
      BY <1>3, <1>8, <2>1, <3>2
    <3>4. o = UndiscountedLine
      BY <1>4, <1>8, <2>1, <2>3, Up25
    <3>5. QED  BY <3>3, <3>4, ChecksAdmit DEF UndiscountedLine
  <2>4. QED  BY <1>8, <2>1, <2>2, <2>3 DEF RowsAllow
<1>9. CASE r \in {22, 26, 27, 28, 31}
  <2>1. ASSUME NEW o \in Added(22)  PROVE Admits(o, rows)
    <3>1. o.kind # "check"
      BY Up22, MovedTextsStand, IndexIs DEF SearchIndexes
    <3>2. QED  BY <3>1 DEF Admits
  <2>2. \A o \in Added(26) : Admits(o, rows)
    BY Up26
  <2>3. \A o \in Added(27) : Admits(o, rows)
    BY Up27, ChecksAdmit, PartsAdmit DEF VenueTypeColumns, VenueTypeChecks
  <2>4. r = 28 => \A o \in Added(28) : Admits(o, rows)
    BY Up28, ChecksAdmit DEF RegionCodes, Obstacles
  <2>5. \A o \in Added(31) : Admits(o, rows)
    BY Up31, ChecksAdmit, PartsAdmit DEF AnyIdentity
  <2>6. \A k \in 1..Len(Upgrades[r]) : Upgrades[r][k].do # "forbid"
    <3>1. \A k \in 1..Len(Upgrades[22]) : Upgrades[22][k].do # "forbid"
      <4>1. Upgrades[22] = CollapseUp
        BY DEF Upgrades
      <4>2. \A k \in 1..Len(CollapseUp) : CollapseUp[k].do # "forbid"
        BY Statements DEF CollapseUp
      <4>3. QED  BY <4>1, <4>2
    <3>2. \A k \in 1..Len(Upgrades[26]) : Upgrades[26][k].do # "forbid"
      <4>1. Upgrades[26] = DropIdentitiesUp
        BY DEF Upgrades
      <4>2. \A k \in 1..Len(DropIdentitiesUp) : DropIdentitiesUp[k].do # "forbid"
        BY Statements DEF DropIdentitiesUp
      <4>3. QED  BY <4>1, <4>2
    <3>3. \A k \in 1..Len(Upgrades[27]) : Upgrades[27][k].do # "forbid"
      <4>1. Upgrades[27] = VenueTypeEnumUp
        BY DEF Upgrades
      <4>2. \A k \in 1..Len(VenueTypeEnumUp) : VenueTypeEnumUp[k].do # "forbid"
        BY Statements DEF VenueTypeEnumUp
      <4>3. QED  BY <4>1, <4>2
    <3>4. \A k \in 1..Len(Upgrades[28]) : Upgrades[28][k].do # "forbid"
      <4>1. Upgrades[28] = UniqueRegionCodeUp
        BY DEF Upgrades
      <4>2. \A k \in 1..Len(UniqueRegionCodeUp) : UniqueRegionCodeUp[k].do # "forbid"
        BY Statements DEF UniqueRegionCodeUp
      <4>3. QED  BY <4>1, <4>2
    <3>5. \A k \in 1..Len(Upgrades[31]) : Upgrades[31][k].do # "forbid"
      <4>1. Upgrades[31] = TelegramUp
        BY DEF Upgrades
      <4>2. \A k \in 1..Len(TelegramUp) : TelegramUp[k].do # "forbid"
        BY Statements DEF TelegramUp
      <4>3. QED  BY <4>1, <4>2
    <3>6. QED  BY ONLY <1>9, <3>1, <3>2, <3>3, <3>4, <3>5
  <2>7. QED  BY <1>5, <1>9, <2>1, <2>2, <2>3, <2>4, <2>5, <2>6
<1>10. QED  BY <1>6, <1>7, <1>8, <1>9

LEMMA InsertAccepted ==
  ASSUME NEW rows, NEW state, IsState(state), state.ok, rows \cap state.rows = {},
         \A w \in rows : w.table \in Tables(state.schema)
  PROVE  Run(<<Insert(rows)>>, state).ok
<1> DEFINE P == <<Insert(rows)>>
<1>1. Len(P) = 1 /\ Len(P) \in Nat /\ P[1] = Insert(rows)
  OBVIOUS
<1>2. Insert(rows).do = "insert" /\ Insert(rows).what = rows
  BY DEF Insert, Statement
<1> HIDE DEF P
<1>3. KeepsItsOwn(P)
  BY <1>1, <1>2 DEF KeepsItsOwn
<1>4. ASSUME NEW k \in 1..Len(P), NEW s, Stage(P, k - 1, state, s), s.ok
      PROVE  CanExecute(P[k], s)
  <2>1. k = 1 /\ k - 1 = 0 /\ P[k] = Insert(rows)
    BY <1>1
  <2>2. \A kind : UpTo(P, 0, kind) = {}
    BY DEF UpTo
  <2>3. \A o : ~Hits({}, o)
    BY DEF Hits, Tables
  <2>4. MovedBy(P, 0, state.schema) = state.schema /\ RowsBy(P, 0, state.rows) = state.rows
    BY <2>2, <2>3 DEF MovedBy, RowsBy
  <2>5. s.schema = state.schema /\ s.rows \subseteq state.rows
    BY <1>4, <2>1, <2>4 DEF Stage
  <2>6. QED  BY <1>2, <2>1, <2>5 DEF CanExecute
<1>5. QED  BY <1>1, <1>3, <1>4, RunAccepted DEF P

LEMMA StandsIn ==
  ASSUME NEW r, NEW schema, Follows(schema, r), NEW t, Relation(t) \in Intended(r)
  PROVE  t \in Tables(schema)
  BY FollowedTables, TableIsThere

\* A deployment that starts from what there may be is refused by obstacles only.
LEMMA UpAccepted ==
  ASSUME NEW r \in 0..30, NEW state, IsState(state), state.ok, Follows(state.schema, r),
         RowsFit(state), SeedsLate(state.rows, r), r < 29 => state.rows \cap Obstacles = {}
  PROVE  Run(Upgrades[r + 1], state).ok
<1>1. CASE r + 1 \in 1..20 /\ r + 1 # 19
  <2>1. (r + 1) - 1 = r
    OBVIOUS
  <2>2. QED  BY <1>1, <2>1, EarlyAccepted DEF RowsFit
<1>2. CASE r + 1 = 19
  <2>1. Upgrades[19] = <<Insert(FirstSeeds)>>
    BY DEF Upgrades, ReferenceDataUp, FirstSeeds
  <2>2. r = 18 /\ FirstSeeds \cap state.rows = {}
    BY <1>2 DEF SeedsLate
  <2>3. ASSUME NEW t \in ReferenceLists  PROVE t \in Tables(state.schema)
    <3>1. Birth(t) <= 18
      BY DEF ReferenceLists, Birth
    <3>2. Relation(t) \in Intended(18)
      BY <3>1, StandingTables
    <3>3. QED  BY <2>2, <3>2, StandsIn
  <2>4. \A w \in FirstSeeds : w.table \in Tables(state.schema)
    BY <2>3, SeedIs DEF FirstSeeds
  <2>5. QED  BY <1>2, <2>1, <2>2, <2>4, InsertAccepted
<1>3. CASE r + 1 = 23
  <2>1. Upgrades[23] = <<Insert({Seed("staff_role_permissions")})>>
    BY DEF Upgrades, RolePermissionsUp
  <2>2. r = 22 /\ {Seed("staff_role_permissions")} \cap state.rows = {}
    BY <1>3 DEF SeedsLate
  <2>3. Relation("staff_role_permissions") \in Intended(22)
    <3>1. "staff_role_permissions" \notin PassingTables /\ Birth("staff_role_permissions") <= 20
      BY DEF Birth, PassingTables, PlanTables, TextTables, CodeTables, MoneyTables, TypeTables
    <3>2. 22 \in 20..30
      OBVIOUS
    <3>3. QED  BY <3>1, <3>2, TablesStay
  <2>4. \A w \in {Seed("staff_role_permissions")} : w.table \in Tables(state.schema)
    BY <2>2, <2>3, SeedIs, StandsIn
  <2>5. QED  BY <1>3, <2>1, <2>2, <2>4, InsertAccepted
<1>4. CASE r + 1 = 29
  <2>1. Upgrades[29] = <<Insert(RegionRows)>>
    BY DEF Upgrades, RegionsUp
  <2>2. r = 28 /\ RegionRows \cap state.rows = {}
    BY <1>4 DEF SeedsLate, RegionRows, Obstacles
  <2>3. Relation("regions") \in Intended(28) /\ Relation("districts") \in Intended(28)
    <3>1. /\ "regions" \notin PassingTables /\ Birth("regions") <= 20
          /\ "districts" \notin PassingTables /\ Birth("districts") <= 20
      BY DEF Birth, PassingTables, PlanTables, TextTables, CodeTables, MoneyTables, TypeTables
    <3>2. 28 \in 20..30
      OBVIOUS
    <3>3. QED  BY <3>1, <3>2, TablesStay
  <2>4. \A w \in RegionRows : w.table \in Tables(state.schema)
    BY <2>2, <2>3, SeedIs, RowIs, StandsIn DEF RegionRows
  <2>5. QED  BY <1>4, <2>1, <2>2, <2>4, InsertAccepted
<1>5. CASE r + 1 = 30
  <2>1. Upgrades[30] = <<>>
    BY DEF Upgrades, AmenityNamesUp
  <2>2. Len(<<>>) = 0 /\ Len(<<>>) \in Nat /\ KeepsItsOwn(<<>>)
    BY DEF KeepsItsOwn
  <2>3. Run(<<>>, state).ok
    BY <2>2, RunAccepted
  <2>4. QED  BY <1>5, <2>1, <2>3
<1>6. CASE r + 1 \in {21, 22, 24, 25, 26, 27, 28, 31}
  <2>1. LateShaped(r + 1)
    BY <1>6, Shape21, Shape22, Shape24, Shape25, Shape26, Shape27, Shape28, Shape31
  <2>2. KeepsItsOwn(Upgrades[r + 1])
    BY <1>6, ProgramsKeepTheirOwn
  <2>3. r + 1 \in 21..31 /\ (r + 1) - 1 = r /\ (r + 1 < 29 => r < 29)
    BY <1>6
  <2>4. RowsAllow(Upgrades[r + 1], state.rows)
    BY <1>6, <2>1, <2>3, LateRows DEF RowsFit
  <2>5. QED  BY <2>1, <2>2, <2>3, <2>4, LateAccepted
<1>7. \/ r + 1 \in 1..20 \/ r + 1 \in {21, 22, 23, 24, 25, 26, 27, 28, 29, 30, 31}
  OBVIOUS
<1>8. QED  BY <1>1, <1>2, <1>3, <1>4, <1>5, <1>6, <1>7
-----------------------------------------------------------------------------
(* The rows stay what they may be, up and down.                               *)

LEMMA SeedRowsAre ==
  ASSUME NEW w \in SeedRows
  PROVE  \/ w.column = "slug" /\ w.table \notin {"regions", "payments", "promo_codes"}
         \/ w = Row("regions", "code", "seeded")
<1>1. CASE w = Row("regions", "code", "seeded")
  BY <1>1
<1>2. ASSUME NEW t \in ReferenceLists \cup {"staff_role_permissions", "districts"}, w = Seed(t)
      PROVE  w.column = "slug" /\ w.table \notin {"regions", "payments", "promo_codes"}
  BY <1>2, SeedIs DEF ReferenceLists
<1>3. \/ w = Row("regions", "code", "seeded")
      \/ \E t \in ReferenceLists \cup {"staff_role_permissions", "districts"} : w = Seed(t)
  BY DEF SeedRows, FirstSeeds, RegionRows
<1>4. QED  BY <1>1, <1>2, <1>3

\* No check of the schema stands in the way of a seed.
LEMMA MildAdmits ==
  ASSUME NEW o, Mild(o), NEW rows, rows \subseteq SeedRows
  PROVE  Admits(o, rows)
<1>1. SUFFICES ASSUME o.kind = "check", NEW w \in rows, w.table = o.table, w.column = o.name
               PROVE  w.value \in o.to
  BY DEF Admits
<1>2. o.name # "slug" /\ (o.table = "regions" => o.to = {"seeded"})
  BY <1>1 DEF Mild
<1>3. w = Row("regions", "code", "seeded")
  BY <1>1, <1>2, SeedRowsAre
<1>4. w.table = "regions" /\ w.value = "seeded"
  BY <1>3, RowIs
<1>5. QED  BY <1>1, <1>2, <1>4

LEMMA AllMild ==
  ASSUME NEW r \in 0..31, NEW o \in Intended(r)
  PROVE  Mild(o)
<1>1. CASE r \in 0..30
  BY <1>1, IntendedMild
<1>2. CASE r = 31
  <2>1. 31 \in 1..31 /\ 31 - 1 = 30 /\ 30 \in 0..30
    OBVIOUS
  <2>2. o \in Intended(30) \/ o \in Added(31)
    BY <1>2, <2>1, IntendedNext
  <2>3. \A p \in Added(31) : Mild(p)
    BY Up31, PartsMild DEF AnyIdentity
  <2>4. QED  BY <2>1, <2>2, <2>3, IntendedMild
<1>3. QED  BY <1>1, <1>2

LEMMA AdmitsBoth ==
  ASSUME NEW o, NEW A, NEW B, Admits(o, A), Admits(o, B)
  PROVE  Admits(o, A \cup B)
  BY DEF Admits

LEMMA AdmitsFewer ==
  ASSUME NEW o, NEW A, NEW B, Admits(o, A), B \subseteq A
  PROVE  Admits(o, B)
  BY DEF Admits

LEMMA TablesGrow == \A A, B : A \subseteq B => Tables(A) \subseteq Tables(B)
  BY DEF Tables

\* A statement that is accepted leaves the rows as they may be.
LEMMA AttemptFits ==
  ASSUME NEW st, NEW s, IsState(s), RowsFit(s), Attempt(st, s).ok,
         st.do = "insert" => st.what \subseteq SeedRows,
         \A o \in s.schema : Mild(o)
  PROVE  RowsFit(Attempt(st, s))
<1> DEFINE next == Attempt(st, s)
<1>1. s.ok /\ CanExecute(st, s)
  BY DEF Attempt, Refused
<1>2. /\ st.do = "add" => next.schema = s.schema \cup st.what
      /\ st.do = "remove" => next.schema = {o \in s.schema : ~Hits(st.what, o)}
      /\ st.do \notin {"add", "remove"} => next.schema = s.schema
  BY AttemptMoves
<1>3. /\ st.do = "insert" => next.rows = s.rows \cup st.what
      /\ st.do = "delete" => next.rows = s.rows \ st.what
      /\ st.do = "remove" => next.rows = {w \in s.rows : w.table \notin Tables(st.what)}
      /\ st.do \notin {"insert", "delete", "remove"} => next.rows = s.rows
  BY AttemptRows
<1> HIDE DEF next
<1>4. /\ s.rows \subseteq RowsThatMatter \cup SeedRows
      /\ \A w \in s.rows : w.table \in Tables(s.schema)
      /\ \A o \in s.schema : Admits(o, s.rows)
  BY DEF RowsFit, RowsStand
<1>5. CASE st.do = "add"
  <2>1. next.schema = s.schema \cup st.what /\ next.rows = s.rows
    BY <1>2, <1>3, <1>5
  <2>2. \A o \in st.what : Admits(o, s.rows)
    BY <1>1, <1>5 DEF CanExecute, CanAdd
  <2>3. Tables(s.schema) \subseteq Tables(next.schema)
    BY <2>1, TablesGrow
  <2>4. QED  BY <1>4, <2>1, <2>2, <2>3 DEF RowsFit, RowsStand, next
<1>6. CASE st.do = "remove"
  <2>1. /\ next.schema = {o \in s.schema : ~Hits(st.what, o)}
        /\ next.rows = {w \in s.rows : w.table \notin Tables(st.what)}
    BY <1>2, <1>3, <1>6
  <2>2. ASSUME NEW w \in next.rows  PROVE w.table \in Tables(next.schema)
    <3>1. w \in s.rows /\ w.table \notin Tables(st.what)
      BY <2>1
    <3>2. PICK p \in s.schema : p.kind = "table" /\ p.table = w.table
      BY <1>4, <3>1 DEF Tables
    <3>3. ~Hits(st.what, p)
      BY <3>1, <3>2 DEF Hits, SameName, Tables
    <3>4. QED  BY <2>1, <3>2, <3>3 DEF Tables
  <2>3. next.rows \subseteq s.rows /\ next.schema \subseteq s.schema
    BY <2>1
  <2>4. \A o \in next.schema : Admits(o, next.rows)
    BY <1>4, <2>3, AdmitsFewer
  <2>5. QED  BY <1>4, <2>2, <2>3, <2>4 DEF RowsFit, RowsStand, next
<1>7. CASE st.do = "insert"
  <2>1. next.schema = s.schema /\ next.rows = s.rows \cup st.what
    BY <1>2, <1>3, <1>7
  <2>2. \A w \in st.what : w.table \in Tables(s.schema)
    BY <1>1, <1>7 DEF CanExecute
  <2>3. \A o \in s.schema : Admits(o, st.what)
    BY <1>7, MildAdmits
  <2>4. \A o \in s.schema : Admits(o, s.rows \cup st.what)
    BY <1>4, <2>3, AdmitsBoth
  <2>5. QED  BY <1>4, <1>7, <2>1, <2>2, <2>4 DEF RowsFit, RowsStand, next
<1>8. CASE st.do \notin {"add", "remove", "insert"}
  <2>1. next.schema = s.schema /\ next.rows \subseteq s.rows
    BY <1>2, <1>3, <1>8
  <2>2. \A o \in next.schema : Admits(o, next.rows)
    BY <1>4, <2>1, AdmitsFewer
  <2>3. QED  BY <1>4, <2>1, <2>2 DEF RowsFit, RowsStand, next
<1>9. QED  BY <1>5, <1>6, <1>7, <1>8

\* So does a program that inserts seeds only, and it leaves no other row than
\* those that were there and those that it brings.
LEMMA RunFits ==
  ASSUME NEW program, Len(program) \in Nat, KeepsItsOwn(program), NEW state, IsState(state),
         RowsFit(state), Run(program, state).ok,
         \A k \in 1..Len(program) : program[k].do = "insert" => program[k].what \subseteq SeedRows,
         \A o \in state.schema \cup UpTo(program, Len(program), "add") : Mild(o)
  PROVE  /\ RowsFit(Run(program, state))
         /\ Run(program, state).rows \subseteq RowsBy(program, Len(program), state.rows)
<1> DEFINE n == Len(program)
<1>1. PICK f : /\ f[0] = state /\ Run(program, state) = f[n]
               /\ \A k \in 0..n : Stage(program, k, state, f[k])
               /\ \A k \in 1..n : f[k] = Attempt(program[k], f[k - 1])
  BY RunStages
<1> DEFINE S == {k \in Nat : k <= n => (f[k].ok => RowsFit(f[k]))}
<1>2. 0 \in S
  BY <1>1
<1>3. ASSUME NEW k \in Nat, k \in S  PROVE k + 1 \in S
  <2>1. SUFFICES ASSUME k + 1 <= n, f[k + 1].ok  PROVE RowsFit(f[k + 1])
    OBVIOUS
  <2>2. k + 1 \in 1..n /\ (k + 1) - 1 = k /\ k \in 0..n
    BY <2>1
  <2>3. f[k + 1] = Attempt(program[k + 1], f[k]) /\ Stage(program, k, state, f[k])
    BY <1>1, <2>2
  <2>4. f[k].ok /\ IsState(f[k])
    BY <2>1, <2>3 DEF Attempt, Refused, Stage
  <2>5. RowsFit(f[k])
    BY <1>3, <2>1, <2>4
  <2>6. ASSUME NEW o \in f[k].schema  PROVE Mild(o)
    <3>1. o \in state.schema \/ o \in UpTo(program, k, "add")
      BY <2>3, <2>4 DEF Stage, MovedBy
    <3>2. UpTo(program, k, "add") \subseteq UpTo(program, n, "add")
      <4>1. \A i : i \in 1..k => i \in 1..n
        BY <2>1
      <4>2. QED  BY <4>1 DEF UpTo
    <3>3. QED  BY <3>1, <3>2
  <2>7. QED  BY <2>1, <2>2, <2>3, <2>4, <2>5, <2>6, AttemptFits
<1>4. n \in S
  <2> HIDE DEF S
  <2>1. QED  BY <1>2, <1>3, Induct
<1>5. n \in 0..n /\ n \in Nat
  OBVIOUS
<1>6. QED  BY <1>1, <1>4, <1>5 DEF Stage
-----------------------------------------------------------------------------
(* Which rows a revision brings.                                              *)

Quiet(program) == \A k \in 1..Len(program) : program[k].do # "insert"

LEMMA SeedStatements ==
  /\ \A x : Insert(x).do = "insert" /\ Insert(x).what = x
  /\ \A x, y : Delete(x, y).do = "delete" /\ Delete(x, y).what = x
  BY DEF Insert, Delete, Statement

LEMMA UpInserts ==
  ASSUME NEW r \in 1..31
  PROVE  \/ Quiet(Upgrades[r]) /\ r \notin {19, 23, 29}
         \/ r = 19 /\ Upgrades[r] = <<Insert(FirstSeeds)>>
         \/ r = 23 /\ Upgrades[r] = <<Insert({Seed("staff_role_permissions")})>>
         \/ r = 29 /\ Upgrades[r] = <<Insert(RegionRows)>>
<1>1. /\ Upgrades[19] = <<Insert(FirstSeeds)>>
      /\ Upgrades[23] = <<Insert({Seed("staff_role_permissions")})>>
      /\ Upgrades[29] = <<Insert(RegionRows)>> /\ Upgrades[30] = <<>>
  BY DEF Upgrades, ReferenceDataUp, FirstSeeds, RolePermissionsUp, RegionsUp, AmenityNamesUp
<1>2. CASE r \in 1..20 /\ r # 19
  <2>1. ASSUME NEW k \in 1..Len(Upgrades[r])  PROVE Upgrades[r][k].do # "insert"
    <3>1. Shaped(Upgrades[r][k], r, k)
      BY <1>2, RevisionsShaped DEF AllShaped
    <3>2. QED  BY <1>2, <3>1, Statements DEF Shaped, Creates, Extends
  <2>2. QED  BY <1>2, <2>1 DEF Quiet
<1>3. CASE r = 30
  <2>1. Quiet(<<>>)
    BY DEF Quiet
  <2>2. QED  BY <1>1, <1>3, <2>1
<1>4. CASE r \in {21, 22, 24, 25, 26, 27, 28, 31}
  <2>1. LateShaped(r)
    BY <1>4, Shape21, Shape22, Shape24, Shape25, Shape26, Shape27, Shape28, Shape31
  <2>2. QED  BY <1>4, <2>1 DEF LateShaped, Quiet
<1>5. \/ r \in 1..20 \/ r \in {21, 22, 23, 24, 25, 26, 27, 28, 29, 30, 31}
  OBVIOUS
<1>6. QED  BY <1>1, <1>2, <1>3, <1>4, <1>5

LEMMA DownInserts ==
  ASSUME NEW r \in 1..31
  PROVE  \/ r # 27 /\ Quiet(Downgrades[r])
         \/ r = 27 /\ \A k \in 1..Len(Downgrades[r]) : Downgrades[r][k].do = "insert" =>
                          Downgrades[r][k].what = {Seed("venue_types")}
<1>1. ASSUME r \in 1..20  PROVE Quiet(Downgrades[r])
  BY <1>1, WaysBackUndo DEF UndoesAll, Undoes, Quiet
<1>2. Quiet(Downgrades[21])
  <2>1. Downgrades[21] = DropSubscriptionsDownTables \o DropSubscriptionsDownLinks
    BY DEF Downgrades
  <2>2. QED  BY <2>1, Statements DEF Quiet, DropSubscriptionsDownTables, DropSubscriptionsDownLinks
<1>3. Quiet(Downgrades[22])
  <2>1. Downgrades[22] = CollapseDown
    BY DEF Downgrades
  <2>2. QED  BY <2>1, Statements DEF Quiet, CollapseDown
<1>4. Quiet(Downgrades[24])
  <2>1. Downgrades[24] = DropSmsDown
    BY DEF Downgrades
  <2>2. QED  BY <2>1, Statements DEF Quiet, DropSmsDown
<1>5. Quiet(Downgrades[25])
  <2>1. Downgrades[25] = DropPaymentsDownMoney \o DropPaymentsDownRefunds \o DropPaymentsDownBooking
    BY DEF Downgrades
  <2>2. QED
    BY <2>1, Statements DEF Quiet, DropPaymentsDownMoney, DropPaymentsDownRefunds,
         DropPaymentsDownBooking
<1>6. Quiet(Downgrades[26]) /\ Quiet(Downgrades[28])
  <2>1. Downgrades[26] = DropIdentitiesDown /\ Downgrades[28] = UniqueRegionCodeDown
    BY DEF Downgrades
  <2>2. QED  BY <2>1, Statements DEF Quiet, DropIdentitiesDown, UniqueRegionCodeDown
<1>7. Quiet(Downgrades[23]) /\ Quiet(Downgrades[29]) /\ Quiet(Downgrades[30])
  <2>1. Downgrades[23] = RolePermissionsDown /\ Downgrades[29] = RegionsDown /\ Downgrades[30] = AmenityNamesDown
    BY DEF Downgrades
  <2>2. QED  BY <2>1, Statements DEF Quiet, RolePermissionsDown, RegionsDown, AmenityNamesDown
<1>8. Quiet(Downgrades[31])
  <2>1. Downgrades[31] = TelegramDown
    BY DEF Downgrades
  <2>2. QED  BY <2>1, Statements DEF Quiet, TelegramDown
<1>9. \A k \in 1..Len(Downgrades[27]) : Downgrades[27][k].do = "insert" =>
          Downgrades[27][k].what = {Seed("venue_types")}
  <2>1. Downgrades[27] = VenueTypeEnumDown
    BY DEF Downgrades
  <2>2. QED  BY <2>1, Statements, SeedStatements DEF VenueTypeEnumDown
<1>10. r \in 1..20 \/ r \in {21, 22, 23, 24, 25, 26, 27, 28, 29, 30, 31}
  OBVIOUS
<1>11. r \in 1..20 => r # 27
  OBVIOUS
<1>12. QED
  BY ONLY <1>1, <1>2, <1>3, <1>4, <1>5, <1>6, <1>7, <1>8, <1>9, <1>10, <1>11

LEMMA SeedsDiffer ==
  /\ Seed("staff_role_permissions") \notin FirstSeeds /\ Seed("districts") \notin FirstSeeds
  /\ Seed("districts") # Seed("staff_role_permissions")
  /\ \A w \in Obstacles \cup RowsThatMatter : w.column # "slug"
<1>1. /\ \A t \in ReferenceLists : t # "staff_role_permissions" /\ t # "districts"
  BY DEF ReferenceLists
<1>2. \A w \in Obstacles \cup RowsThatMatter : w.column # "slug"
  BY ReferencesAre, RowIs DEF Obstacles, RowsThatMatter, TelegramGuest
<1>3. \A s, t : Seed(s) = Seed(t) => s = t
  BY SeedIs
<1>4. QED  BY <1>1, <1>2, <1>3 DEF FirstSeeds

\* What a program of one statement that inserts may leave.
LEMMA InsertLeaves ==
  ASSUME NEW x, NEW rows
  PROVE  RowsBy(<<Insert(x)>>, Len(<<Insert(x)>>), rows) = rows \cup x
<1> DEFINE P == <<Insert(x)>>
<1>1. Len(P) = 1 /\ P[1].do = "insert" /\ P[1].what = x
  BY SeedStatements
<1>2. \A i : i \in 1..1 <=> i = 1
  OBVIOUS
<1> HIDE DEF P
<1>3. UpTo(P, 1, "insert") = x /\ UpTo(P, 1, "delete") = {}
  BY <1>1, <1>2 DEF UpTo
<1>4. QED  BY <1>1, <1>3 DEF RowsBy, P

LEMMA QuietLeaves ==
  ASSUME NEW P, Quiet(P), NEW rows
  PROVE  RowsBy(P, Len(P), rows) = rows \ UpTo(P, Len(P), "delete")
  BY DEF RowsBy, UpTo, Quiet

LEMMA UpFits ==
  ASSUME NEW r \in 0..30, NEW state, IsState(state), Follows(state.schema, r),
         RowsFit(state), SeedsLate(state.rows, r), Run(Upgrades[r + 1], state).ok
  PROVE  /\ RowsFit(Run(Upgrades[r + 1], state))
         /\ SeedsLate(Run(Upgrades[r + 1], state).rows, r + 1)
         /\ r + 1 < 29 => Run(Upgrades[r + 1], state).rows \cap Obstacles \subseteq state.rows
<1> DEFINE n == r + 1
           P == Upgrades[n]
<1>1. n \in 1..31 /\ n - 1 = r /\ r \in 0..31 /\ n \in 0..31
  OBVIOUS
<1>2. KeepsItsOwn(P)
  BY <1>1, ProgramsKeepTheirOwn
<1>3. Len(P) \in Nat /\ DOMAIN P = 1..Len(P)
  BY <1>1, ProgramsAreSequences
<1>4. UpTo(P, Len(P), "add") = Added(n)
  BY <1>3 DEF UpTo, Added, Done
<1>5. \A o \in state.schema \cup Added(n) : Mild(o)
  <2>1. state.schema \subseteq Intended(r)
    BY DEF Follows
  <2>2. Added(n) \subseteq Intended(n)
    BY <1>1, IntendedNext
  <2>3. QED  BY <1>1, <2>1, <2>2, AllMild
<1>6. \/ Quiet(P) /\ n \notin {19, 23, 29}
      \/ n = 19 /\ P = <<Insert(FirstSeeds)>>
      \/ n = 23 /\ P = <<Insert({Seed("staff_role_permissions")})>>
      \/ n = 29 /\ P = <<Insert(RegionRows)>>
  BY <1>1, UpInserts
<1> HIDE DEF P
<1>7. ASSUME NEW k \in 1..Len(P), P[k].do = "insert"  PROVE P[k].what \subseteq SeedRows
  <2>1. ASSUME NEW x, P = <<Insert(x)>>, x \subseteq SeedRows  PROVE P[k].what \subseteq SeedRows
    <3>1. k = 1 /\ P[1] = Insert(x)
      BY <2>1
    <3>2. QED  BY <2>1, <3>1, SeedStatements
  <2>2. ~Quiet(P)
    BY <1>7 DEF Quiet
  <2>3. FirstSeeds \subseteq SeedRows /\ {Seed("staff_role_permissions")}
          \subseteq SeedRows /\ RegionRows \subseteq SeedRows
    BY DEF SeedRows
  <2>4. QED  BY <1>6, <2>1, <2>2, <2>3
<1>8. RowsFit(Run(P, state)) /\ Run(P, state).rows \subseteq RowsBy(P, Len(P), state.rows)
  BY <1>2, <1>3, <1>4, <1>5, <1>7, RunFits DEF P
<1> DEFINE rows == Run(P, state).rows
<1>9. \/ rows \subseteq state.rows /\ n \notin {19, 23, 29}
      \/ n = 19 /\ rows \subseteq state.rows \cup FirstSeeds
      \/ n = 23 /\ rows \subseteq state.rows \cup {Seed("staff_role_permissions")}
      \/ n = 29
  <2>1. ASSUME NEW x, P = <<Insert(x)>>  PROVE rows \subseteq state.rows \cup x
    BY <1>8, <2>1, InsertLeaves
  <2>2. Quiet(P) => rows \subseteq state.rows
    BY <1>8, QuietLeaves
  <2> HIDE DEF rows
  <2>3. QED  BY <1>6, <2>1, <2>2
<1>10. \A w \in FirstSeeds \cup {Seed("staff_role_permissions")} : w \notin Obstacles
  <2>1. \A w \in FirstSeeds \cup {Seed("staff_role_permissions")} : w.column = "slug"
    BY SeedIs DEF FirstSeeds
  <2>2. QED  BY <2>1, SeedsDiffer
<1> HIDE DEF rows
<1>11. SeedsLate(rows, n)
  BY <1>1, <1>9, SeedsDiffer DEF SeedsLate
<1>12. n < 29 => rows \cap Obstacles \subseteq state.rows
  BY <1>1, <1>9, <1>10
<1>13. QED  BY <1>8, <1>11, <1>12 DEF rows, P, n

LEMMA DownFits ==
  ASSUME NEW r \in 1..31, NEW state, IsState(state), Follows(state.schema, r),
         RowsFit(state), SeedsLate(state.rows, r), Run(Downgrades[r], state).ok
  PROVE  /\ RowsFit(Run(Downgrades[r], state))
         /\ SeedsLate(Run(Downgrades[r], state).rows, r - 1)
<1> DEFINE P == Downgrades[r]
<1>1. KeepsItsOwn(P)
  BY ProgramsKeepTheirOwn
<1>2. Len(P) \in Nat /\ DOMAIN P = 1..Len(P)
  BY ProgramsAreSequences
<1>3. UpTo(P, Len(P), "add") = Done(P, "add")
  BY <1>2 DEF UpTo, Done
<1>4. \A o \in state.schema \cup Done(P, "add") : Mild(o)
  <2>1. state.schema \subseteq Intended(r)
    BY DEF Follows
  <2>2. Done(P, "add") \subseteq Intended(r - 1)
    BY EveryWayBackReverses DEF Reverses
  <2>3. r \in 0..31 /\ r - 1 \in 0..31
    OBVIOUS
  <2>4. QED  BY <2>1, <2>2, <2>3, AllMild
<1>5. \/ r # 27 /\ Quiet(P)
      \/ r = 27 /\ \A k \in 1..Len(P) : P[k].do = "insert" => P[k].what = {Seed("venue_types")}
  BY DownInserts
<1>6. Seed("venue_types") \in FirstSeeds /\ FirstSeeds \subseteq SeedRows
  BY DEF FirstSeeds, ReferenceLists, SeedRows
<1>7. r = 19 => FirstSeeds \subseteq UpTo(P, Len(P), "delete")
  <2>1. Downgrades[19] = <<Delete(FirstSeeds, OfReferenceLists)>>
    BY DEF Downgrades, ReferenceDataDown, FirstSeeds
  <2>2. \A x, y : /\ Len(<<Delete(x, y)>>) = 1 /\ 1 \in 1..1
                  /\ <<Delete(x, y)>>[1].do = "delete" /\ <<Delete(x, y)>>[1].what = x
    BY SeedStatements
  <2>3. QED  BY <2>1, <2>2, SMTT(30) DEF UpTo
<1>8. r = 23 => Seed("staff_role_permissions") \in UpTo(P, Len(P), "delete")
  <2>1. Downgrades[23] = <<Delete({Seed("staff_role_permissions")}, {})>>
    BY DEF Downgrades, RolePermissionsDown
  <2>2. \A x, y : /\ Len(<<Delete(x, y)>>) = 1 /\ 1 \in 1..1
                  /\ <<Delete(x, y)>>[1].do = "delete" /\ <<Delete(x, y)>>[1].what = x
    BY SeedStatements
  <2>3. QED  BY <2>1, <2>2, SMTT(30) DEF UpTo
<1>9. r = 29 => Seed("districts") \in UpTo(P, Len(P), "delete")
  <2>1. Downgrades[29] = <<Delete({Seed("districts")}, OfDistricts),
                           Delete({Row("regions", "code", "seeded")}, {})>>
    BY DEF Downgrades, RegionsDown
  <2>2. \A x, y, z, u : /\ Len(<<Delete(x, y), Delete(z, u)>>) = 2 /\ 1 \in 1..2
                  /\ <<Delete(x, y), Delete(z, u)>>[1].do = "delete"
                  /\ <<Delete(x, y), Delete(z, u)>>[1].what = x
    BY SeedStatements
  <2>3. QED  BY <2>1, <2>2 DEF UpTo
<1> HIDE DEF P
<1>10. \A k \in 1..Len(P) : P[k].do = "insert" => P[k].what \subseteq SeedRows
  BY <1>5, <1>6 DEF Quiet
<1>11. RowsFit(Run(P, state)) /\ Run(P, state).rows \subseteq RowsBy(P, Len(P), state.rows)
  BY <1>1, <1>2, <1>3, <1>4, <1>10, RunFits DEF P
<1> DEFINE rows == Run(P, state).rows
<1>12. UpTo(P, Len(P), "insert") \subseteq IF r = 27 THEN {Seed("venue_types")} ELSE {}
  BY <1>5 DEF UpTo, Quiet
<1>13. rows \subseteq (state.rows \ UpTo(P, Len(P), "delete"))
         \cup (IF r = 27 THEN {Seed("venue_types")} ELSE {})
  BY <1>11, <1>12 DEF RowsBy
<1>14. Seed("venue_types") # Seed("districts")
  BY <1>6, SeedsDiffer
<1> HIDE DEF rows
<1>15. SeedsLate(rows, r - 1)
  <2>1. r - 1 < 19 => rows \cap FirstSeeds = {}
    BY <1>7, <1>13 DEF SeedsLate
  <2>2. r - 1 < 23 => Seed("staff_role_permissions") \notin rows
    BY <1>8, <1>13 DEF SeedsLate
  <2>3. r - 1 < 29 => Seed("districts") \notin rows
    BY <1>9, <1>13, <1>14 DEF SeedsLate
  <2>4. QED  BY <2>1, <2>2, <2>3 DEF SeedsLate
<1>16. QED  BY <1>11, <1>15 DEF rows, P
=============================================================================
