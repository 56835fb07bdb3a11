------------------------------ MODULE Accounts ------------------------------
(***************************************************************************)
(* Accounts and their sessions (modules/auth): signing up and in by phone, *)
(* by Telegram or by an issued login, the rotation of refresh tokens, and  *)
(* everything that ends sessions.  Names, passwords and languages are left *)
(* out: a request here is one whose credentials were right.                *)
(***************************************************************************)
EXTENDS Requests

CONSTANTS
    Account,   \* the rows of users that there may be: 1..n
    Phone,     \* the phone numbers
    Telegram,  \* the Telegram ids
    NoValue    \* NULL

ASSUME AccountAssumption ==
    /\ {1, 2} \subseteq Account /\ Account \subseteq Nat
    /\ NoValue \notin Phone \cup Telegram \cup {"tombstone"}

VARIABLES
    users,   \* users[a]: the row of account a
    tokens   \* the refresh tokens, in the order they were minted

accounts == <<users, tokens>>

Nobody == [status |-> "none", phone |-> NoValue, telegram |-> NoValue, login |-> NoValue,
           email |-> NoValue]
NewUser == [Nobody EXCEPT !.status = "active"]

Token(u, from) == [user |-> u, live |-> TRUE, from |-> from]

\* Somebody who came by phone, with an issued login too, and somebody who came
\* by Telegram, each signed in on one device.
AccountsInit ==
    /\ \E p \in Phone, t \in Telegram :
        users = [a \in Account |->
                    CASE a = 1 -> [NewUser EXCEPT !.phone = p, !.login = "issued"]
                      [] a = 2 -> [NewUser EXCEPT !.telegram = t]
                      [] OTHER -> Nobody]
    /\ tokens = <<Token(1, 0), Token(2, 0)>>

\* deleted_at IS NULL, which every lookup asks for.
Living(a) == users[a].status \in {"active", "blocked"}
Found(by, x) == {a \in Account : Living(a) /\ users[a][by] = x}
\* A unique index knows nothing of deletion.
Taken(by, x) == {a \in Account : users[a][by] = x}

\* UPDATE refresh_tokens SET revoked_at WHERE user_id = u AND revoked_at IS NULL
RevokeAll(u) == [i \in DOMAIN tokens |-> IF tokens[i].user = u
                                         THEN [tokens[i] EXCEPT !.live = FALSE] ELSE tokens[i]]

PhoneTaken(p) == Refused("phone_taken", p)
TelegramTaken(t) == Refused("telegram_taken", t)

\* register: look for the number; then the row, whose unique index decides.
Register(c, p) ==
    /\ IF Found("phone", p) # {} THEN AnswerAtOnce(c, PhoneTaken(p))
       ELSE Begin(c, "register", {<<"phone", p>>}, [NewUser EXCEPT !.phone = p])
    /\ UNCHANGED accounts

\* telegram_login: the account of the id, or none yet.
TelegramLogin(c, t) ==
    /\ \/ /\ Found("telegram", t) = {}
          /\ Begin(c, "register", {<<"telegram", t>>}, [NewUser EXCEPT !.telegram = t])
       \/ \E a \in Found("telegram", t) :
            /\ users[a].status # "blocked"
            /\ Begin(c, "sign_in", {<<"user", a>>}, a)
    /\ UNCHANGED accounts

\* The INSERT of either, with its session.
Create(c) ==
    /\ calls[c].op = "register"
    /\ LET new == calls[c].read IN
        \/ /\ new.phone # NoValue /\ Taken("phone", new.phone) # {}
           /\ Answer(c, PhoneTaken(new.phone))
           /\ UNCHANGED accounts
        \/ /\ new.telegram # NoValue /\ Taken("telegram", new.telegram) # {}
           /\ Answer(c, TelegramTaken(new.telegram))
           /\ UNCHANGED accounts
        \/ /\ \A by \in {"phone", "telegram"} : new[by] # NoValue => Taken(by, new[by]) = {}
           /\ \E a \in Account :
                /\ users[a] = Nobody
                /\ \A b \in Account : b < a => users[b] # Nobody
                /\ users' = [users EXCEPT ![a] = new]
                /\ tokens' = Append(tokens, Token(a, 0))
           /\ Answer(c, Served)

\* login and staff_login: the number or the login of a usable account.
Login(c, a) ==
    /\ users[a].status = "active"
    /\ users[a].phone # NoValue \/ users[a].login # NoValue
    /\ Begin(c, "sign_in", {<<"user", a>>}, a)
    /\ UNCHANGED accounts

\* touch_last_login asks for no deleted_at, and nothing is read again.
Enter(c) ==
    /\ calls[c].op = "sign_in"
    /\ tokens' = Append(tokens, Token(calls[c].read, 0))
    /\ Answer(c, Served)
    /\ UNCHANGED users

\* attach_telegram_contact: the phone of the Telegram account a.
AttachContact(c, a, p) ==
    /\ users[a].status = "active" /\ users[a].telegram # NoValue
    /\ IF Found("phone", p) \ {a} # {} THEN AnswerAtOnce(c, PhoneTaken(p))
       ELSE Begin(c, "attach", {<<"user", a>>, <<"phone", p>>}, [user |-> a, phone |-> p])
    /\ UNCHANGED accounts

Attach(c) ==
    /\ calls[c].op = "attach"
    /\ LET r == calls[c].read IN
        IF Living(r.user) /\ Taken("phone", r.phone) \ {r.user} # {}
        THEN Answer(c, PhoneTaken(r.phone)) /\ UNCHANGED users
        ELSE /\ users' = IF Living(r.user) THEN [users EXCEPT ![r.user].phone = r.phone] ELSE users
             /\ Answer(c, Served)
    /\ UNCHANGED tokens

\* set_password and logout_all; upto tells the sessions there were when it began.
EndSessions(c, a) ==
    /\ users[a].status = "active"
    /\ Begin(c, "end_sessions", {<<"user", a>>}, [user |-> a, upto |-> Len(tokens)])
    /\ UNCHANGED accounts

Ended(c) == [what |-> "ended", of |-> calls[c].read.user, upto |-> calls[c].read.upto]

RevokeSessions(c) ==
    /\ calls[c].op = "end_sessions"
    /\ tokens' = RevokeAll(calls[c].read.user)
    /\ Answer(c, Ended(c))
    /\ UNCHANGED users

\* delete_account
DeleteAccount(c, a) ==
    /\ users[a].status = "active"
    /\ Begin(c, "delete", {<<"user", a>>}, [user |-> a, upto |-> Len(tokens)])
    /\ UNCHANGED accounts

\* Mutant: soft_delete, the repository's other way, which leaves no address.
SoftDeleted(u) == [u EXCEPT !.status = "deleted", !.phone = NoValue, !.login = NoValue,
                            !.email = NoValue]

\* anonymise_and_soft_delete keeps the Telegram id and leaves a tombstone as
\* the e-mail address, for the CHECK that asks for one means of contact.
Anonymised(u) == [u EXCEPT !.status = "deleted", !.phone = NoValue, !.login = NoValue,
                           !.email = "tombstone"]
HasContact(u) == \E by \in {"phone", "telegram", "email"} : u[by] # NoValue

Delete(c) ==
    /\ calls[c].op = "delete"
    /\ LET a == calls[c].read.user
           row == IF Living(a) THEN Anonymised(users[a]) ELSE users[a] IN
        IF HasContact(row)
        THEN /\ users' = [users EXCEPT ![a] = row]
             /\ tokens' = RevokeAll(a)
             /\ Answer(c, Ended(c))
        ELSE Answer(c, Refused("no_contact", a)) /\ UNCHANGED accounts

\* refresh: a revoked token ends every session, a live one is exchanged.
Refresh(c, t) ==
    /\ LET a == tokens[t].user
           keys == {<<"token", t>>, <<"user", a>>} IN
        \/ /\ ~tokens[t].live
           /\ Begin(c, "reuse", keys, [user |-> a, upto |-> Len(tokens)])
        \/ /\ tokens[t].live /\ users[a].status = "active"
           /\ Begin(c, "rotate", keys, t)
    /\ UNCHANGED accounts

\* Mutant: the replacement is minted and the token it replaces is left alone.
RotateKeeps(c) ==
    /\ calls[c].op = "rotate"
    /\ tokens' = Append(tokens, Token(tokens[calls[c].read].user, calls[c].read))
    /\ Answer(c, Served)
    /\ UNCHANGED users

\* The guarded UPDATE may find the token revoked by now; its answer is not used.
Rotate(c) ==
    /\ calls[c].op = "rotate"
    /\ LET t == calls[c].read IN
        tokens' = Append([tokens EXCEPT ![t].live = FALSE], Token(tokens[t].user, t))
    /\ Answer(c, Served)
    /\ UNCHANGED users

\* Mutant: raised before the commit.
EndReusedUncommitted(c) ==
    /\ calls[c].op = "reuse"
    /\ Answer(c, Ended(c))
    /\ UNCHANGED accounts

\* Committed before the refusal is raised, or the rollback would undo it.
EndReused(c) ==
    /\ calls[c].op = "reuse"
    /\ tokens' = RevokeAll(calls[c].read.user)
    /\ Answer(c, Ended(c))
    /\ UNCHANGED users

\* logout: only this device, and only the caller's own live token.
Logout(c, t) ==
    /\ users[tokens[t].user].status = "active"
    /\ Begin(c, "logout", {<<"token", t>>, <<"user", tokens[t].user>>},
             [token |-> t, live |-> tokens[t].live])
    /\ UNCHANGED accounts

Leave(c) ==
    /\ calls[c].op = "logout"
    /\ tokens' = IF calls[c].read.live THEN [tokens EXCEPT ![calls[c].read.token].live = FALSE]
                 ELSE tokens
    /\ Answer(c, Served)
    /\ UNCHANGED users

\* Support blocks an account in the database; no route does.
Block(a) ==
    /\ users[a].status = "active"
    /\ users' = [users EXCEPT ![a].status = "blocked"]
    /\ UNCHANGED <<tokens, requests>>

AccountsNext ==
    \/ \E c \in Client :
        \/ \E p \in Phone : Register(c, p) \/ \E a \in Account : AttachContact(c, a, p)
        \/ \E t \in Telegram : TelegramLogin(c, t)
        \/ \E a \in Account : Login(c, a) \/ EndSessions(c, a) \/ DeleteAccount(c, a)
        \/ \E t \in DOMAIN tokens : Refresh(c, t) \/ Logout(c, t)
        \/ Create(c) \/ Enter(c) \/ Attach(c) \/ RevokeSessions(c) \/ Delete(c) \/ Rotate(c)
        \/ EndReused(c) \/ Leave(c)
    \/ \E a \in Account : Block(a)
-----------------------------------------------------------------------------
AccountsTypeOK ==
    /\ \A a \in Account : users[a].status \in {"none", "active", "blocked", "deleted"}
    /\ \A i \in DOMAIN tokens : tokens[i].user \in Account /\ tokens[i].from \in 0..(i - 1)

\* A refusal has its cause: a number is refused while a living account holds
\* it, so deletion releases it; a Telegram id while any account holds it, for
\* deletion keeps it; and no deletion fails on the CHECK of users.
RefusedForItsCause(c) ==
    LET answer == calls'[c].answer IN
        /\ answer.what # "no_contact"
        /\ answer.what = "phone_taken" => Found("phone", answer.of) # {}
        /\ answer.what = "telegram_taken" => Taken("telegram", answer.of) # {}

AccountsAnswerForCause == [][\A c \in Client : Answering(c) => RefusedForItsCause(c)]_<<accounts, requests>>

\* What a request was told to end has ended, by whichever of the four ways,
\* also when it is answered by an error; and an account nobody else used while
\* it was being deleted keeps no session.
SessionsEnd ==
    /\ \A c \in Client :
        calls[c].op = "idle" /\ calls[c].answer.what = "ended" =>
            \A i \in 1..calls[c].answer.upto :
                tokens[i].user = calls[c].answer.of => ~tokens[i].live
    /\ \A i \in DOMAIN tokens :
        users[tokens[i].user].status = "deleted" /\ <<"user", tokens[i].user>> \notin raced =>
            ~tokens[i].live

\* "a stolen token is usable at most once" (auth_service.py:296-297): one
\* token is exchanged for two only by refreshes that overlapped.
ExchangedOnce ==
    \A i, j \in DOMAIN tokens :
        i # j /\ tokens[i].from = tokens[j].from /\ tokens[i].from # 0 =>
            <<"token", tokens[i].from>> \in raced
=============================================================================
