--------------------------- MODULE BaseballRules ---------------------------
(***************************************************************************)
(* What a game promises: the rules that say when half-innings change and   *)
(* when the game is decided, without lineups, bases or pitchers.  Halves   *)
(* are counted from 0; the home team bats in the odd ones.                 *)
(***************************************************************************)
EXTENDS Integers

CONSTANTS LastInning, OutsPerHalf

VARIABLES half, out, home, away, state
rvars == <<half, out, home, away, state>>

HomeBats(h) == h % 2 = 1

\* The home team leads in its half of the last inning or later, even before
\* its first batter comes up.
HomeHasWon(h, x, y) == HomeBats(h) /\ h >= 2 * LastInning - 1 /\ x > y

\* Regulation is over, a full inning has just ended, and the score differs.
DecidedAfterInning(h, x, y) == ~HomeBats(h) /\ h >= 2 * LastInning /\ x # y

RulesInit == half = 0 /\ out = 0 /\ home = 0 /\ away = 0 /\ state = "playing"

\* One batter: o outs and r runs.
Batter(o, r) ==
  /\ state = "playing"
  /\ IF HomeBats(half) THEN home' = home + r /\ away' = away
                       ELSE home' = home /\ away' = away + r
  /\ IF out + o = OutsPerHalf
       THEN /\ half' = half + 1 /\ out' = 0
            /\ state' = IF \/ HomeHasWon(half', home', away')
                           \/ DecidedAfterInning(half', home', away')
                          THEN "final" ELSE "playing"
       ELSE /\ half' = half /\ out' = out + o
            /\ state' = IF HomeHasWon(half', home', away')
                          THEN "final" ELSE "playing"

CallOff ==
  /\ state = "playing" /\ state' = "called"
  /\ UNCHANGED <<half, out, home, away>>

\* A batter is out and nobody scores, or up to four men score.
RulesNext == CallOff \/ Batter(1, 0) \/ \E r \in 0 .. 4 : Batter(0, r)

RulesSpec == RulesInit /\ [][RulesNext]_rvars
=============================================================================
