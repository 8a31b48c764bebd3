---------------------------- MODULE MCLoggedGame ----------------------------
(* The games of MCGame with the reader of their logs. *)
EXTENDS LoggedGame, MCGame

\* One team or the other has a reliever.
HomeRelief == [Regular EXCEPT !.bullpen = ByTeam(<<hr>>, <<>>)]
AwayRelief == [Regular EXCEPT !.bullpen = ByTeam(<<>>, <<ar>>)]

\* The same two teams at the other one's place.
Visited == LET Swap(lists) == [t \in Team |-> lists[Other(t)]]
           IN  [offense |-> Swap(AwayRelief.offense), defense |-> Swap(AwayRelief.defense),
                bullpen |-> Swap(AwayRelief.bullpen)]
StaleHome == [Stale EXCEPT !.bullpen = ByTeam(<<hs, hr>>, <<>>)]
MCSeasonCard == {HomeRelief, AwayRelief, Visited, StaleHome, Short}
\* Left-handed batters in both lineups, and one who is that against hp and ar.
MCBats == [p \in MCPlayer |-> CASE p \in {h1, a1} -> "L" [] p = h2 -> "S" [] OTHER -> "R"]
MCThrows == [p \in MCPitcher |-> IF p = ap THEN "L" ELSE "R"]
MCTired == [p \in MCPitcher |-> 1]
=============================================================================
