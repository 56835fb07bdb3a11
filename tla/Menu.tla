-------------------------------- MODULE Menu --------------------------------
(***************************************************************************)
(* The menu builder (modules/menu): a dish belongs to the chain, and the   *)
(* branches that are ticked have a row for it, with a price of their own   *)
(* or without.  A branch without a row does not sell the dish.             *)
(***************************************************************************)
EXTENDS Requests

CONSTANTS
    Dish,      \* the dishes that may be created: 1..n
    Outlet,    \* the branches of the chain
    Ticks,     \* the bodies of PUT branches: from the ticked branches to prices
    BasePrice, \* the price in the catalogue
    NoPrice    \* price_override IS NULL

ASSUME MenuAssumption ==
    /\ \E n \in Dish : n \in Nat /\ Dish = 1..n
    /\ \A ticks \in Ticks : DOMAIN ticks \subseteq Outlet
    /\ \E ticks \in Ticks : DOMAIN ticks = Outlet

VARIABLES
    dishes,  \* how many dishes have been created
    shelf    \* shelf[d]: the rows of menu_item_branches of dish d

menu == <<dishes, shelf>>

\* A dish that the body of ticks has been saved for.
Rows(ticks, by) == {[at |-> v, price |-> ticks[v], row |-> by, by |-> by] : v \in DOMAIN ticks}

MenuInit ==
    /\ dishes = 1
    /\ LET everywhere == CHOOSE t \in Ticks : DOMAIN t = Outlet IN
        shelf = [d \in Dish |-> IF d = 1 THEN Rows(everywhere, 0) ELSE {}]

\* create_item: committed, and then read as the branch sells it, which it does
\* not yet.
CreateItem(c) ==
    /\ dishes + 1 \in Dish
    /\ dishes' = dishes + 1
    /\ AnswerAtOnce(c, Refused("not_found", dishes'))
    /\ UNCHANGED shelf

\* set_branch_availability: the DELETE removes the rows that it can see of
\* branches that are not ticked.
SetBranchAvailability(c, d, ticks) ==
    /\ Begin(c, "shelve", {<<"dish", d>>},
             [dish |-> d, ticks |-> ticks, by |-> begun + 1,
              gone |-> {<<r.at, r.row>> : r \in {s \in shelf[d] : s.at \notin DOMAIN ticks}}])
    /\ UNCHANGED menu

\* Mutant: INSERT without the conflict clause, and no unique pair.
InsertedAgain(rows, ticks, by) == rows \cup Rows(ticks, by)

\* Each ticked branch: INSERT .. ON CONFLICT DO UPDATE, in the row there is.
Upserted(rows, ticks, by) ==
    {r \in rows : r.at \notin DOMAIN ticks} \cup
    {[at |-> v, price |-> ticks[v], by |-> by,
      row |-> IF \E r \in rows : r.at = v THEN (CHOOSE r \in rows : r.at = v).row ELSE by]
        : v \in DOMAIN ticks}

\* What the DELETE leaves.
Unticked(rows, gone) == {r \in rows : <<r.at, r.row>> \notin gone}

CommitShelf(c) ==
    /\ calls[c].op = "shelve"
    /\ LET new == calls[c].read IN
        shelf' = [shelf EXCEPT ![new.dish] = Upserted(Unticked(@, new.gone), new.ticks, new.by)]
    /\ Answer(c, Served)
    /\ UNCHANGED dishes

\* Each of two has deleted the row that the other upserts: one is aborted.
ShelfDeadlock(c) ==
    /\ calls[c].op = "shelve"
    /\ \E d \in Client \ {c} :
        /\ calls[d].op = "shelve" /\ calls[d].read.dish = calls[c].read.dish
        /\ \E r \in calls[c].read.gone : r[1] \in DOMAIN calls[d].read.ticks
        /\ \E r \in calls[d].read.gone : r[1] \in DOMAIN calls[c].read.ticks
    /\ Answer(c, Refused("failed", calls[c].read.dish))
    /\ UNCHANGED menu

\* resolve_price: the price of the branch, else of the catalogue; no row, no price.
ResolvePrice(c, d, v) ==
    /\ LET rows == {r \in shelf[d] : r.at = v} IN
        AnswerAtOnce(c, IF rows = {} THEN Refused("not_found", d)
                        ELSE LET r == CHOOSE r \in rows : TRUE
                             IN  [what |-> "price", of |-> d, at |-> v,
                                  price |-> IF r.price = NoPrice THEN BasePrice ELSE r.price])
    /\ UNCHANGED menu

MenuNext ==
    \E c \in Client :
        \/ CreateItem(c)
        \/ \E d \in 1..dishes :
            \/ \E ticks \in Ticks : SetBranchAvailability(c, d, ticks)
            \/ \E v \in Outlet : ResolvePrice(c, d, v)
        \/ CommitShelf(c) \/ ShelfDeadlock(c)
-----------------------------------------------------------------------------
MenuTypeOK ==
    /\ dishes \in Dish
    /\ \A d \in Dish : \A r \in shelf[d] :
        /\ r.at \in Outlet
        /\ \A s \in shelf[d] : s.at = r.at => s = r

\* "Unticked branches lose their row": the rows of a dish are those of one
\* save, with no branch of an earlier one, unless two saves of it overlapped.
ShelfFromOneSave ==
    \A d \in Dish : <<"dish", d>> \notin raced => \A r, s \in shelf[d] : r.by = s.by
=============================================================================
