----------------------------- MODULE MCPlatform -----------------------------
EXTENDS Platform
MCChain == [v \in {"v1", "v2"} |-> IF v = "v1" THEN "g1" ELSE "g2"]
MCScopeOf == [r \in {"admin", "waiter"} |-> IF r = "admin" THEN "group" ELSE "venue"]
MCDay(w, opens, closes) == [weekday |-> w, opens |-> opens, closes |-> closes, closed |-> FALSE]
MCClosed(w) == [weekday |-> w, opens |-> 0, closes |-> 0, closed |-> TRUE]
Monday == 0
Tuesday == 1
Sunday == 6
MCWeeks == {{MCDay(Monday, 9, 18), MCDay(Sunday, 9, 18)},
            {MCDay(Monday, 18, 2), MCClosed(Tuesday)}}
MCHolidays == {Sunday}
\* Around the hours of Monday and Tuesday, and of Sunday and the Monday after.
MCTimes == {10, 14, 20, 23, 25, 30, 38, 149, 160, 169, 178, 190}
MCVisit(u, done) == [guest |-> u, branch |-> "v1", completed |-> done]
MCVisits == <<MCVisit("eve", TRUE), MCVisit("fay", TRUE), MCVisit("eve", TRUE), MCVisit("fay", FALSE)>>
MCTicks == {[v \in {"v1", "v2"} |-> 0], [v \in {"v1"} |-> 7], [v \in {"v2"} |-> 8], [v \in {} |-> 0]}
=============================================================================
