------------------------------- MODULE MCGame -------------------------------
(* Small games for TLC: five-man lineups of which one is the pitcher. *)
EXTENDS Game, TLC

CONSTANTS none, h1, h2, h3, h4, hp, hs, hr, a1, a2, a3, a4, ap, ar

MCPlayer == {h1, h2, h3, h4, hp, hs, hr, a1, a2, a3, a4, ap, ar}
MCPitcher == {hp, hs, hr, ap, ar}
MCReliever == {hr, ar}

HomeNine == <<h1, h2, h3, h4, hp>>
AwayNine == <<a1, a2, a3, a4, ap>>
ByTeam(home, away) == HOME_TEAM :> home @@ AWAY_TEAM :> away

MCField(pitcherOfDay, nine) == <<pitcherOfDay, nine[1], nine[2], nine[3], nine[4]>>

\* hs is a starter on his day of rest: sub_pitcher passes him over.
Regular == [offense |-> ByTeam(HomeNine, AwayNine),
            defense |-> ByTeam(MCField(hp, HomeNine), MCField(ap, AwayNine)),
            bullpen |-> ByTeam(<<hs, hr>>, <<ar>>)]

\* A form that still names hs: he starts, and the bullpen has him too.
StaleNine == <<h1, h2, h3, h4, hs>>
Stale == [Regular EXCEPT !.offense[HOME_TEAM] = StaleNine,
                         !.defense[HOME_TEAM] = MCField(hs, StaleNine)]

\* A card whose home lineup has an empty slot, which verify_lineups rejects.
Short == [Regular EXCEPT !.offense[HOME_TEAM][2] = none]

MCCard == {Regular, Stale, Short}
MCFreshLeft == [p \in MCPitcher |-> IF p \in MCReliever THEN 1 ELSE 2]
MCRefill == [p \in MCPitcher |-> 1]
=============================================================================
