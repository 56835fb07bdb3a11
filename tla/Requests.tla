------------------------------ MODULE Requests ------------------------------
(***************************************************************************)
(* Requests in flight.  Each has one database session and one transaction  *)
(* (core/database/db_helper.py) under READ COMMITTED.  A request is two    *)
(* steps: what it reads before its first write, and its writes up to the   *)
(* commit, which the row locks it takes make one step.  Where a statement  *)
(* may wait for a lock with an older snapshot, it is a step of its own.    *)
(***************************************************************************)
EXTENDS Naturals, Sequences, FiniteSets

CONSTANTS
    Client,   \* the connections requests arrive on
    MaxCalls  \* bound on the requests of a behaviour

ASSUME RequestsAssumption == MaxCalls \in Nat

VARIABLES
    calls,  \* calls[c]: the request on c, what it is about and what it has read
    begun,  \* how many requests have begun
    raced   \* what two requests were ever about at the same time

requests == <<calls, begun, raced>>

NoAnswer == [what |-> "none"]
Idle == [op |-> "idle", keys |-> {}, answer |-> NoAnswer]

RequestsInit ==
    /\ calls = [c \in Client |-> Idle]
    /\ begun = 0
    /\ raced = {}

Waiting(c) == calls[c].op = "idle" /\ begun < MaxCalls

\* A request about keys arrives and has read what its next step goes by.
Begin(c, op, keys, read) ==
    /\ Waiting(c)
    /\ begun' = begun + 1
    /\ calls' = [calls EXCEPT ![c] = [op |-> op, keys |-> keys, read |-> read]]
    /\ raced' = raced \cup UNION {keys \cap calls[d].keys : d \in Client}

\* The same request reads again, or has taken its locks.
Proceed(c, op, read) ==
    /\ calls' = [calls EXCEPT ![c].op = op, ![c].read = read]
    /\ UNCHANGED <<begun, raced>>

\* The answer, after a commit or a rollback.
Answer(c, answer) ==
    /\ calls' = [calls EXCEPT ![c] = [Idle EXCEPT !.answer = answer]]
    /\ UNCHANGED <<begun, raced>>

\* A request that is answered by what it first reads.
AnswerAtOnce(c, answer) ==
    /\ Waiting(c)
    /\ begun' = begun + 1
    /\ calls' = [calls EXCEPT ![c] = [Idle EXCEPT !.answer = answer]]
    /\ UNCHANGED raced

\* In a step: the request on c is being answered.
Answering(c) == calls'[c].op = "idle" /\ calls'[c] # calls[c]

Refused(why, of) == [what |-> why, of |-> of]
Served == [what |-> "ok"]
=============================================================================
