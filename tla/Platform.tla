------------------------------ MODULE Platform ------------------------------
(***************************************************************************)
(* The rest of the platform.  The rows of another area by which one of its *)
(* areas decides (who works where, which visits are completed) are fixed   *)
(* there, so a behaviour is the traffic of one area.                       *)
(***************************************************************************)
EXTENDS Accounts, Staff, Branches, Reviews, Menu, Inbox, Places, Bot

VARIABLE area   \* whose requests arrive

vars == <<requests, area, accounts, staff, venues, opinions, menu, inbox, places, chats>>

Areas == {"accounts", "staff", "branches", "reviews", "menu", "inbox", "places", "bot"}

Init ==
    /\ RequestsInit
    /\ area \in Areas
    /\ AccountsInit /\ StaffInit /\ BranchesInit /\ ReviewsInit
    /\ MenuInit /\ InboxInit /\ PlacesInit /\ BotInit

\* What does not change in a step of area a.
Others(a) ==
    /\ area = a
    /\ UNCHANGED area
    /\ a # "accounts" => UNCHANGED accounts
    /\ a # "staff" => UNCHANGED staff
    /\ a # "branches" => UNCHANGED venues
    /\ a # "reviews" => UNCHANGED opinions
    /\ a # "menu" => UNCHANGED menu
    /\ a # "inbox" => UNCHANGED inbox
    /\ a # "places" => UNCHANGED places
    /\ a # "bot" => UNCHANGED chats

Next ==
    \/ Others("accounts") /\ AccountsNext
    \/ Others("staff") /\ StaffNext
    \/ Others("branches") /\ BranchesNext
    \/ Others("reviews") /\ ReviewsNext
    \/ Others("menu") /\ MenuNext
    \/ Others("inbox") /\ InboxNext
    \/ Others("places") /\ PlacesNext
    \/ Others("bot") /\ BotNext

Spec == Init /\ [][Next]_vars
-----------------------------------------------------------------------------
PlatformTypeOK ==
    /\ area \in Areas
    /\ begun \in 0..MaxCalls
    /\ \A c \in Client : calls[c].op # "idle" => calls[c].keys # {}
    /\ AccountsTypeOK /\ StaffTypeOK /\ BranchesTypeOK /\ ReviewsTypeOK
    /\ MenuTypeOK /\ InboxTypeOK /\ PlacesTypeOK /\ BotTypeOK

\* What a PUT replaces as a whole holds the rows of one PUT: "a removed day
\* cannot survive as a stale row" of the week of a branch, and an unticked
\* branch keeps no row of a dish, unless two of them overlapped.
ReplacedAsAWhole == WeekFromOneCall /\ ShelfFromOneSave
=============================================================================
