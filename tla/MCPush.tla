------------------------------- MODULE MCPush -------------------------------
(* Instances of Push for TLC. *)
EXTENDS Push, TLC

CONSTANTS r1, r2, b1, b2, p1, p2, den_hurtige, begivenheder

OneResident == {r1}
TwoResidents == {r1, r2}
OneBrowser == {b1}
TwoBrowsers == {b1, b2}
OnePage == {p1}
TwoPages == {p1, p2}
TwoTopics == {den_hurtige, begivenheder}
AnyPageOrTopic == Permutations({p1, p2}) \cup Permutations({den_hurtige, begivenheder})

\* A resident who waits for the answer to one click before making the next, in any tab.
OneWaiting == \A p, q \in Pages : requests[p].stage # "none" /\ requests[q].stage # "none" => p = q
OneClickAtATime == Init /\ [][Next /\ OneWaiting']_vars
=============================================================================
