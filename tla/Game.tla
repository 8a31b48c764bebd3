-------------------------------- MODULE Game --------------------------------
(***************************************************************************)
(* sim_game_batch of sim_game_func.c: one game, from the lineups read from *)
(* the database to the record of the pitchers it tired.                    *)
(*                                                                         *)
(* An iteration of the game loop is two steps: the mound is settled        *)
(* (KeepPitcher or ChangePitcher, pc = "top"), then a batter hits          *)
(* (PlateAppearance, pc = "bat").  What a batter does depends on skills    *)
(* and rand(): here every outcome sim_ab can draw is possible every time.  *)
(***************************************************************************)
EXTENDS Baserunning, Integers, Sequences, SequencesExt

CONSTANTS
  Player,        \* ids in the skill hash
  Pitcher,       \* those in t_rotation
  Reliever,      \* pitchers with t_player.position = 0 (1 is a starter)
  Card,          \* what select_lineups may read: lineups and bullpens
  FreshLeft,     \* batters_left of each pitcher before the game
  Refill,        \* 3 + end / 20: batters until he tires once more
  LineupSize,    \* 9: batting slots, and positions on the field
  LastInning,    \* 9: regulation innings
  OutsPerHalf,   \* 3
  BlowoutRuns,   \* 6: runs that take any pitcher out
  ShakyRuns,     \* 3: more than that take out a reliever, or a tired starter
  Exhausted      \* 20: a stamina of -20 aborts the game

HOME_TEAM == 0
AWAY_TEAM == 1
Team == {HOME_TEAM, AWAY_TEAM}
Other(t) == 1 - t
Slot == 1 .. LineupSize
Mound == 1               \* the pitcher's index in defense[team]

CardType == [offense : [Team -> [Slot -> Player \cup {Nobody}]],
             defense : [Team -> [Slot -> Player \cup {Nobody}]],
             bullpen : [Team -> Seq(Pitcher)]]

\* verify_lineups: every slot and every position of both teams is filled.
Complete(card) ==
  \A t \in Team, i \in Slot : /\ card.offense[t][i] # Nobody
                              /\ card.defense[t][i] # Nobody

\* A complete card has nine rows per team, one for each slot and each
\* position, and the pitcher is one of them.  No reliever is on the card and
\* in a bullpen, but a starter may be: fill_lineup puts the man a stale form
\* names on the mound, where fill_rotation had the next starter, and leaves
\* him in the bullpen with the starters who rest.
SoundCard(card) ==
  /\ \A t \in Team :
       /\ card.defense[t][Mound] \in Pitcher
       /\ \E i \in Slot : card.offense[t][i] = card.defense[t][Mound]
       /\ IsInjective(card.bullpen[t])
  /\ \A t, u \in Team, i, j \in Slot :
       card.offense[t][i] = card.offense[u][j] => t = u /\ i = j
  /\ \A t, u \in Team : \A i \in Slot, k \in DOMAIN card.bullpen[u] :
       card.offense[t][i] = card.bullpen[u][k] => card.offense[t][i] \notin Reliever
  /\ \A t, u \in Team :
       t # u => ToSet(card.bullpen[t]) \cap ToSet(card.bullpen[u]) = {}

ASSUME NumberAssumption ==
  /\ {LineupSize, LastInning, OutsPerHalf} \subseteq Nat \ {0}
  /\ {BlowoutRuns, ShakyRuns} \subseteq Nat
  /\ Exhausted \in Nat /\ Exhausted > 2
  /\ LineupSize >= OutsPerHalf + 3   \* three on base, a batter, the outs so far

ASSUME PlayerAssumption ==
  /\ Nobody \notin Player
  /\ Pitcher \subseteq Player /\ Reliever \subseteq Pitcher
  /\ FreshLeft \in [Pitcher -> Nat]
  /\ Refill \in [Pitcher -> Nat \ {0}]

ASSUME CardAssumption ==
  Card \subseteq CardType /\ \A c \in Card : Complete(c) => SoundCard(c)

VARIABLES
  pc,            \* "start", "top" and "bat" of the loop, "over", "aborted"
  inning, team_hitting, outs, inning_over,
  runs,          \* the score of each team
  order_at_bat,  \* the slot of each team's next hitter
  base_runners,
  offense,       \* slot -> player
  defense,       \* position -> player; defense[t][Mound] is the pitcher
  bullpen,       \* relievers and starters not next, best first
  pitcher,       \* the local pitcher_id / pitcher_skill
  pitcher_runs,  \* runs since each team's pitcher came in
  batters_left, stamina,   \* in the skill hash
  tired_pitchers \* the list given back: what each used pitcher has left

cards == <<offense, defense, bullpen>>
skills == <<batters_left, stamina>>
clock == <<inning, team_hitting, outs>>
vars == <<pc, clock, inning_over, runs, order_at_bat, base_runners, cards,
          pitcher, pitcher_runs, skills, tired_pitchers>>

Fielding == Other(team_hitting)
Card0 == [offense |-> offense, defense |-> defense, bullpen |-> bullpen]

Init ==
  /\ pc = "start"
  /\ inning = 1 /\ team_hitting = AWAY_TEAM /\ outs = 0 /\ inning_over = FALSE
  /\ runs = [t \in Team |-> 0]
  /\ order_at_bat = [t \in Team |-> 1]
  /\ base_runners = EmptyBases
  /\ \E c \in Card : offense = c.offense /\ defense = c.defense
                                         /\ bullpen = c.bullpen
  /\ pitcher = Nobody
  /\ pitcher_runs = [t \in Team |-> 0]
  /\ batters_left = FreshLeft
  /\ stamina = [p \in Pitcher |-> 0]
  /\ tired_pitchers = <<>>

\* verify_lineups, then the first UPDATE_PITCHER.
StartGame ==
  /\ pc = "start"
  /\ Complete(Card0)
  /\ pc' = "top"
  /\ pitcher' = defense[Fielding][Mound]
  /\ UNCHANGED <<clock, inning_over, runs, order_at_bat, base_runners, cards,
                 pitcher_runs, skills, tired_pitchers>>

RejectLineups ==
  /\ pc = "start"
  /\ ~Complete(Card0)
  /\ pc' = "aborted"
  /\ UNCHANGED <<clock, inning_over, runs, order_at_bat, base_runners, cards,
                 pitcher, pitcher_runs, skills, tired_pitchers>>

\* Slip: a lead of the visitors ends extra innings before the home half.
IsGameOverSlip ==
  /\ inning >= LastInning
  /\ \/ runs[HOME_TEAM] > runs[AWAY_TEAM] /\ team_hitting = HOME_TEAM
     \/ /\ inning > LastInning
        /\ runs[HOME_TEAM] # runs[AWAY_TEAM] /\ team_hitting = AWAY_TEAM

IsGameOver ==
  /\ inning >= LastInning
  /\ \/ runs[HOME_TEAM] > runs[AWAY_TEAM] /\ team_hitting = HOME_TEAM
     \/ /\ inning > LastInning /\ inning_over
        /\ runs[HOME_TEAM] # runs[AWAY_TEAM] /\ team_hitting = AWAY_TEAM

-----------------------------------------------------------------------------
(* The mound. *)

\* Slip: a new inning without UPDATE_PITCHER.
CurrentSlip == pitcher

\* UPDATE_PITCHER at the start of an inning.
Current == IF inning_over THEN defense[Fielding][Mound] ELSE pitcher

IsPitcherTired(p) ==
  LET allowed == pitcher_runs[Fielding]
  IN  \/ allowed >= BlowoutRuns
      \/ allowed > ShakyRuns /\ p \in Reliever
      \/ inning_over /\ allowed > ShakyRuns /\ stamina[p] < -1
      \/ inning_over /\ allowed > 0 /\ stamina[p] < 0 /\ p \in Reliever
      \/ stamina[p] <= -2

\* Slip: only the first man of the bullpen is looked at.
WarmSlip(t) == {k \in DOMAIN bullpen[t] : k = 1 /\ bullpen[t][k] \in Reliever}

\* The places of the bullpen that hold a reliever; the first one comes in.
Warm(t) == {k \in DOMAIN bullpen[t] : bullpen[t][k] \in Reliever}

\* Slip: the scan of the bullpen stands still at a man it cannot use.
NoReliefSlip(t) == bullpen[t] = <<>>

\* The scan of the bullpen ends without a reliever.
NoRelief(t) == Warm(t) = {}

\* Slip: the reliever stays on the list.
PenWithoutSlip(pen, k) == pen

\* Linked_List_remove_value.
PenWithout(pen, k) == RemoveAt(pen, k)

\* The entry update_pitcher_stamina appends for p.
Entry(p) == [id |-> p,
             left |-> IF stamina[p] < 0 THEN 0 ELSE batters_left[p]]

\* A scan from the front stops at the first place it looks for.
First(places) == {k \in places : \A l \in places : k <= l}

SlotsOf(t, p) == {i \in Slot : offense[t][i] = p}

\* Slip: the bases are not cleared between halves.
NextHalfSlip == base_runners' = base_runners

\* print_new_inning, and the bases are cleared.
NextHalf == base_runners' = IF inning_over THEN EmptyBases ELSE base_runners

\* sub_pitcher returns 1, and UPDATE_PITCHER follows.
ChangePitcher ==
  /\ pc = "top" /\ ~IsGameOver
  /\ IsPitcherTired(Current)
  /\ \E k \in First(Warm(Fielding)),
        i \in First(SlotsOf(Fielding, defense[Fielding][Mound])) :
       LET sub == bullpen[Fielding][k]
       IN  /\ offense' = [offense EXCEPT ![Fielding][i] = sub]
           /\ defense' = [defense EXCEPT ![Fielding][Mound] = sub]
           /\ bullpen' = [bullpen EXCEPT ![Fielding] = PenWithout(@, k)]
           /\ pitcher' = sub
  /\ tired_pitchers' = Append(tired_pitchers, Entry(Current))
  /\ pitcher_runs' = [pitcher_runs EXCEPT ![Fielding] = 0]
  /\ NextHalf
  /\ inning_over' = FALSE
  /\ pc' = "bat"
  /\ UNCHANGED <<clock, runs, order_at_bat, skills>>

KeepPitcher ==
  /\ pc = "top" /\ ~IsGameOver
  /\ ~IsPitcherTired(Current) \/ NoRelief(Fielding)
  /\ pitcher' = Current
  /\ NextHalf
  /\ inning_over' = FALSE
  /\ pc' = "bat"
  /\ UNCHANGED <<clock, runs, order_at_bat, cards, pitcher_runs, skills,
                 tired_pitchers>>

-----------------------------------------------------------------------------
(* The plate appearance: sim_ab, advance_runners, tire_pitcher, the batting *)
(* order, the score and, on the third out, the change of sides.             *)

Hitter == offense[team_hitting][order_at_bat[team_hitting]]

\* tire_pitcher.
Spent == batters_left[pitcher] - 1 <= 0
LeftAfter == IF Spent THEN Refill[pitcher] ELSE batters_left[pitcher] - 1
StaminaAfter == IF Spent THEN stamina[pitcher] - 1 ELSE stamina[pitcher]
Tire == /\ batters_left' = [batters_left EXCEPT ![pitcher] = LeftAfter]
        /\ stamina' = [stamina EXCEPT ![pitcher] = StaminaAfter]

\* Slip: the order runs one past the last slot.
NextInOrderSlip(i) == IF i = LineupSize + 1 THEN 1 ELSE i + 1

\* increment_bat_order.
NextInOrder(i) == IF i + 1 = LineupSize + 1 THEN 1 ELSE i + 1

Advance(type, sentHome, extraBase) ==
  base_runners' = BasesAfter(Destination(type, base_runners, sentHome, extraBase),
                             base_runners, Hitter)

\* The half goes on, or its last out changes sides.
CountOuts(o) ==
  \/ /\ o # OutsPerHalf
     /\ outs' = o
     /\ UNCHANGED <<inning, team_hitting, inning_over>>
  \/ /\ o = OutsPerHalf
     /\ outs' = 0
     /\ inning_over' = TRUE
     /\ team_hitting' = Other(team_hitting)
     /\ inning' = IF team_hitting = HOME_TEAM THEN inning + 1 ELSE inning

PlateAppearance(type, sentHome, extraBase) ==
  LET scored == RunsOn(Destination(type, base_runners, sentHome, extraBase),
                       base_runners)
  IN  /\ pc = "bat"
      /\ StaminaAfter > -Exhausted
      /\ Advance(type, sentHome, extraBase)
      /\ Tire
      /\ order_at_bat' = [order_at_bat EXCEPT ![team_hitting] = NextInOrder(@)]
      /\ runs' = [runs EXCEPT ![team_hitting] = @ + scored]
      /\ pitcher_runs' = [pitcher_runs EXCEPT ![Fielding] = @ + scored]
      /\ CountOuts(outs + OutsOn(type))
      /\ pc' = "top"
      /\ UNCHANGED <<cards, pitcher, tired_pitchers>>

\* "Pitcher is too tired": the runners have moved, the score has not, and
\* the log of the game is never flushed.
AbortGame(type, sentHome, extraBase) ==
  /\ pc = "bat"
  /\ StaminaAfter <= -Exhausted
  /\ Advance(type, sentHome, extraBase)
  /\ Tire
  /\ pc' = "aborted"
  /\ UNCHANGED <<clock, inning_over, runs, order_at_bat, cards, pitcher,
                 pitcher_runs, tired_pitchers>>

\* Slip: the pitcher who is in right now is written down for the home team.
FinalListSlip == Append(Append(tired_pitchers, Entry(pitcher)),
                        Entry(defense[AWAY_TEAM][Mound]))

FinalList == Append(Append(tired_pitchers, Entry(defense[HOME_TEAM][Mound])),
                    Entry(defense[AWAY_TEAM][Mound]))

\* Both pitchers of record go to the list, and the log is flushed.
EndGame ==
  /\ pc = "top" /\ IsGameOver
  /\ tired_pitchers' = FinalList
  /\ pc' = "over"
  /\ UNCHANGED <<clock, inning_over, runs, order_at_bat, base_runners, cards,
                 pitcher, pitcher_runs, skills>>

Next ==
  \/ StartGame
  \/ RejectLineups
  \/ ChangePitcher
  \/ KeepPitcher
  \/ \E type \in ResultType, sentHome, extraBase \in BOOLEAN :
       \/ PlateAppearance(type, sentHome, extraBase)
       \/ AbortGame(type, sentHome, extraBase)
  \/ EndGame

Spec == Init /\ [][Next]_vars

\* sim_game_batch is one thread of control that never waits.
FairSpec == Spec /\ WF_vars(Next)

-----------------------------------------------------------------------------
(* Properties. *)

\* The values the variables take.
TypeOK ==
  /\ pc \in {"start", "top", "bat", "over", "aborted"}
  /\ inning \in Nat \ {0}
  /\ team_hitting \in Team
  /\ outs \in 0 .. (OutsPerHalf - 1)
  /\ inning_over \in BOOLEAN
  /\ runs \in [Team -> Nat]
  /\ order_at_bat \in [Team -> Slot]
  /\ base_runners \in [Base -> Player \cup {Nobody}]
  /\ offense \in [Team -> [Slot -> Player \cup {Nobody}]]
  /\ defense \in [Team -> [Slot -> Player \cup {Nobody}]]
  /\ bullpen \in [Team -> Seq(Pitcher)]
  /\ pitcher \in Pitcher \cup {Nobody}
  /\ pitcher_runs \in [Team -> Nat]
  /\ batters_left \in [Pitcher -> Nat]
  /\ stamina \in [Pitcher -> Int]
  /\ tired_pitchers \in Seq([id : Pitcher, left : Nat])

\* Substitutions keep the card in order.  The pitcher stands in the batting
\* order, nobody bats twice or for both teams, and no reliever on the card
\* still waits in a bullpen, so get_player_bat_order never answers -1 and
\* lineup[-1] is never written.
CardsInOrder == pc # "start" /\ Complete(Card0) => SoundCard(Card0)

\* The batter faces the man on the mound: the local pitcher_skill, which
\* UPDATE_PITCHER refreshes in three places, is not left behind by a change
\* of sides or of pitcher.
BatterFacesMound == pc = "bat" => pitcher = defense[Fielding][Mound]

Recorded == {tired_pitchers[k].id : k \in DOMAIN tired_pitchers}

\* A pitcher who has been taken out is recorded, and never comes back: while
\* the game lasts nobody on the list is on a card, and a bullpen holds him
\* only if he is a starter, whom sub_pitcher passes over.
TakenOutForGood ==
  pc \in {"top", "bat"} =>
    \A t \in Team : /\ \A i \in Slot : offense[t][i] \notin Recorded
                    /\ ToSet(bullpen[t]) \cap Recorded \cap Reliever = {}

\* When the game is over the list holds every pitcher who threw a pitch,
\* once each, with what the skill hash says he has left: writing the list
\* to the database (update_stamina) and keeping the hash in memory agree.
ListMatchesHash ==
  pc = "over" =>
    /\ \A k, l \in DOMAIN tired_pitchers :
         tired_pitchers[k].id = tired_pitchers[l].id => k = l
    /\ \A k \in DOMAIN tired_pitchers :
         tired_pitchers[k] = Entry(tired_pitchers[k].id)
    /\ \A p \in Pitcher :
         batters_left[p] # FreshLeft[p] \/ stamina[p] # 0 => p \in Recorded

HalfGoesOn == pc = "bat" \/ (pc = "top" /\ ~inning_over)

\* How many batters ago the man in slot i came up.
Ago(i) == LET next == order_at_bat[team_hitting]
          IN  IF i < next THEN next - i ELSE next - i + LineupSize

SlotOf(p) == Min(SlotsOf(team_hitting, p))

\* The runners stand on the bases in the order in which they batted: nobody
\* passes a runner ahead of him, stands on two bases, or is still on base
\* when he comes up again.
RunnersInOrder ==
  HalfGoesOn =>
    \A b \in Occupied(base_runners) :
      /\ SlotsOf(team_hitting, base_runners[b]) # {}
      /\ pc = "bat" => base_runners[b] # Hitter
      /\ \A c \in Occupied(base_runners) :
           b < c => Ago(SlotOf(base_runners[b])) < Ago(SlotOf(base_runners[c]))

\* Nobody vanishes: each batter and runner of a plate appearance is out, has
\* scored or is on base after it, and nobody counts twice.
Accounted ==
  pc = "bat" /\ pc' = "top" =>
    LET scored == runs'[team_hitting] - runs[team_hitting]
        put_out == IF inning_over' THEN OutsPerHalf - outs ELSE outs' - outs
    IN  /\ Cardinality(Occupied(base_runners)) + 1
             = Cardinality(Occupied(base_runners')) + scored + put_out
        /\ runs'[Fielding] = runs[Fielding]
NobodyVanishes == [][Accounted]_vars

\* A game is aborted only when the fielding team has no reliever left: an
\* exhausted pitcher stays in only because nobody can take his place.
AbortOnlyWithoutRelief ==
  pc = "aborted" /\ Complete(Card0) =>
    ToSet(bullpen[Fielding]) \cap Reliever = {}

\* The innings, the score and the moment the game is decided are those of the
\* rules: is_game_over stops the loop exactly when a team has won.
Rules == INSTANCE BaseballRules WITH
  half <- 2 * (inning - 1) + (IF team_hitting = HOME_TEAM THEN 1 ELSE 0),
  out <- outs,
  home <- runs[HOME_TEAM],
  away <- runs[AWAY_TEAM],
  state <- IF pc = "aborted" THEN "called"
           ELSE IF pc = "over" \/ (pc = "top" /\ IsGameOver) THEN "final"
           ELSE "playing"
FollowsRules == Rules!RulesSpec

\* Every game ends, without any assumption on how often a batter is out:
\* each batter brings the pitcher closer to a stamina of -20, and bullpens
\* are finite.
Terminates == <>(pc \in {"over", "aborted"})
=============================================================================
