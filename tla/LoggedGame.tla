----------------------------- MODULE LoggedGame -----------------------------
(***************************************************************************)
(* sim_game_batch and game_log.pl together: the lines each step of a game  *)
(* writes, and what their reader makes of them.                            *)
(*                                                                         *)
(* The log of a game leaves the buffer only when the game is over, and the *)
(* reader sees it in order, so that what it knows is a function of the     *)
(* lines written: here a step of the game and the reading of its lines are *)
(* one step.  A log that is never flushed is never read.                   *)
(*                                                                         *)
(* MaxGames = 1 is simulate_day, one reader for each game; a larger number *)
(* is simulate_season_speed, one reader for all the games of a season.     *)
(***************************************************************************)
EXTENDS Game

CONSTANTS
  QualifyOuts, MaxGames,
  Bats,          \* "R", "L" or "S" (he switches) for each player
  Throws         \* "R" or "L" for each pitcher

VARIABLES
  box,           \* the reader
  read,          \* the reader after the last game that was flushed
  played,        \* games flushed to the reader
  credits        \* what the reader wrote to the database, or <<>>

Log == INSTANCE GameLog WITH OutResult <- OutType

logVars == <<box, read, played, credits>>
allVars == <<vars, logVars>>

SideOf(t) == IF t = HOME_TEAM THEN Log!HOME ELSE Log!AWAY

ReadLine(b, l) == Log!ReadLine(b, l)

\* The reader after the lines, one after the other.
ReadAll(b, lines) ==
  LET after[n \in 0 .. Len(lines)] ==
        IF n = 0 THEN b ELSE ReadLine(after[n - 1], lines[n])
  IN  after[Len(lines)]

Reads(lines) == /\ box' = ReadAll(box, lines)
                /\ UNCHANGED <<read, played, credits>>

\* print_player for each row of a lineup.
LineupLines(t) ==
  [i \in Slot |-> [kind |-> "lineup", id |-> offense[t][i], slot |-> i,
                   pitches |-> offense[t][i] = defense[t][Mound]]]

StartLines == <<[kind |-> "game"]>> \o LineupLines(AWAY_TEAM)
              \o <<[kind |-> "toggle"]>> \o LineupLines(HOME_TEAM)
              \o <<[kind |-> "half"]>>

HalfLines == IF inning_over THEN <<[kind |-> "half"]>> ELSE <<>>

\* The '*' line: the new man and the slot he takes.
ChangeLines ==
  <<[kind |-> "change", id |-> pitcher', slot |->
       CHOOSE i \in Slot : offense'[Fielding][i] = pitcher']>>

\* get_hitter_hand: a switch hitter bats from the other side.
HitterHand == IF Bats[Hitter] # "S" THEN Bats[Hitter]
              ELSE IF Throws[pitcher] = "R" THEN "L" ELSE "R"

BatLine(type) == [kind |-> "bat", pitcher |-> pitcher, hand |-> HitterHand,
                  result |-> type]

\* Slip: the batter's own run, which the reader counts, gets a line too.
PlayLinesSlip(type, sentHome, extraBase) ==
  <<BatLine(type)>>
  \o [k \in 1 .. RunsOn(Destination(type, base_runners, sentHome, extraBase),
                        base_runners) |-> [kind |-> "run", pitcher |-> pitcher]]

\* print_result: the play, then a line for each runner who scored.
PlayLines(type, sentHome, extraBase) ==
  LET runners == RunsOn(Destination(type, base_runners, sentHome, extraBase),
                        base_runners) - (IF type = "HR" THEN 1 ELSE 0)
  IN  <<BatLine(type)>>
      \o [k \in 1 .. runners |-> [kind |-> "run", pitcher |-> pitcher]]

LogInit == /\ Init
           /\ box = Log!EmptyBox /\ read = Log!EmptyBox
           /\ played = 0
           /\ credits = <<>>

LogStart == StartGame /\ Reads(StartLines)
LogReject == RejectLineups /\ UNCHANGED logVars
LogChange == ChangePitcher /\ Reads(HalfLines \o ChangeLines)
LogKeep == KeepPitcher /\ Reads(HalfLines)
LogPlay(type, sentHome, extraBase) ==
  /\ PlateAppearance(type, sentHome, extraBase)
  /\ Reads(PlayLines(type, sentHome, extraBase))
LogAbort(type, sentHome, extraBase) ==
  AbortGame(type, sentHome, extraBase) /\ UNCHANGED logVars

\* flush_game_log_buffer.
LogEnd == /\ EndGame
          /\ read' = box /\ played' = played + 1
          /\ UNCHANGED <<box, credits>>

\* simulate_season_speed goes on to the next game with the same reader.
NextGame ==
  /\ pc = "over" /\ played < MaxGames /\ credits = <<>>
  /\ pc' = "start"
  /\ inning' = 1 /\ team_hitting' = AWAY_TEAM /\ outs' = 0 /\ inning_over' = FALSE
  /\ runs' = [t \in Team |-> 0]
  /\ order_at_bat' = [t \in Team |-> 1]
  /\ base_runners' = EmptyBases
  /\ \E c \in Card : offense' = c.offense /\ defense' = c.defense
                                          /\ bullpen' = c.bullpen
  /\ pitcher' = Nobody
  /\ pitcher_runs' = [t \in Team |-> 0]
  /\ batters_left' = FreshLeft
  /\ stamina' = [p \in Pitcher |-> 0]
  /\ tired_pitchers' = <<>>
  /\ UNCHANGED <<box, read, played, credits>>

\* The pipe is closed, at the end of the last game or because a game was
\* given up, and the reader saves what it has.  Without a game it does not
\* know a team, and dies on its first query.
EndOfInput ==
  /\ pc \in {"over", "aborted"} /\ credits = <<>>
  /\ pc = "over" => played = MaxGames
  /\ played > 0
  /\ credits' = Log!Credits(read)
  /\ UNCHANGED <<vars, box, read, played>>

LogNext ==
  \/ LogStart \/ LogReject \/ LogChange \/ LogKeep
  \/ \E type \in ResultType, sentHome, extraBase \in BOOLEAN :
       LogPlay(type, sentHome, extraBase) \/ LogAbort(type, sentHome, extraBase)
  \/ LogEnd \/ NextGame \/ EndOfInput

LogSpec == LogInit /\ [][LogNext]_allVars

-----------------------------------------------------------------------------
(* Properties. *)

OnAir == pc \in {"top", "bat", "over"}

\* The runs of a line score, the outs of a staff.
SumOf(counts) ==
  LET sum[n \in 0 .. Len(counts)] == IF n = 0 THEN 0 ELSE sum[n - 1] + counts[n]
  IN  sum[Len(counts)]

\* The reader's score is the game's, and the line score adds up to it: no
\* run is written twice (a home run has no '@' line of its own) or dropped,
\* and each belongs to an inning that has begun.
ScoreMatches ==
  OnAir => \A t \in Team :
    LET s == SideOf(t)
    IN  /\ box.total[s] = runs[t]
        /\ SumOf(box.score[s]) = runs[t]

\* The reader, which is never told which team a line is about, knows who bats
\* in which inning, who pitches, and who stands in each slot.
BoxFollowsGame ==
  /\ pc = "bat" => /\ box.bat = SideOf(team_hitting)
                   /\ Log!Inning(box) = inning
                   /\ Last(box.staff[SideOf(Fielding)]) = pitcher
  /\ OnAir => \A t \in Team, i \in Slot :
                Last(box.order[SideOf(t)][i]) = offense[t][i]

\* The men who have pitched for a team in this game.  The reader's list goes
\* on from game to game, whoever plays on that side.
PitchedFor(t) ==
  LET s == SideOf(t)
  IN  SubSeq(box.staff[s], Len(read.staff[s]) + 1, Len(box.staff[s]))

\* What a team's pitchers are credited with in this game are the outs made
\* and the runs scored against the team: a change of pitcher loses none and
\* counts none twice.  The reader adds up over all its games.
HalvesAgainst(t) ==
  IF t = HOME_TEAM /\ team_hitting = HOME_TEAM THEN inning ELSE inning - 1
Since(then, now, men) == [k \in 1 .. Len(men) |-> now[men[k]] - then[men[k]]]
PitchingAddsUp ==
  pc \in {"top", "bat"} => \A t \in Team :
    /\ SumOf(Since(read.outs, box.outs, PitchedFor(t)))
         = HalvesAgainst(t) * OutsPerHalf + (IF team_hitting = t THEN 0 ELSE outs)
    /\ SumOf(Since(read.charged, box.charged, PitchedFor(t))) = runs[Other(t)]

\* The pitchers of record follow the lead: there is a loser exactly when a
\* team leads, he has pitched for the team behind in this game, and the man in
\* line for the win has pitched in it for the team ahead.
DecisionsFollowLead ==
  pc \in {"top", "bat"} =>
    /\ box.loser = Nobody <=> runs[HOME_TEAM] = runs[AWAY_TEAM]
    /\ \A t \in Team : runs[t] > runs[Other(t)] =>
         /\ box.loser \in ToSet(PitchedFor(Other(t)))
         /\ box.winner \in ToSet(PitchedFor(t)) \cup {Nobody}
    /\ runs[HOME_TEAM] = runs[AWAY_TEAM] => box.winner = Nobody

\* What the reader saves is the result of the last game it was sent: a tie,
\* which record_results would give to the visitors, never ends the input, a
\* game that was given up does not count, and $loser is a pitcher ($winner
\* need not be, and the L of $loser may still not be saved).
ResultRecorded ==
  credits # <<>> => \E t \in Team :
    /\ credits.wins = [s \in Log!Side |-> IF s = SideOf(t) THEN 1 ELSE 0]
    /\ credits.loses = [s \in Log!Side |-> IF s = SideOf(t) THEN 0 ELSE 1]
    /\ read.total[SideOf(t)] > read.total[SideOf(Other(t))]
    /\ pc = "over" => runs[t] > runs[Other(t)]
    /\ read.loser \in Pitcher

\* Stated by the script, "Determine the current winning/losing pitcher":
\* a game that was won has a winning pitcher.
WinHasPitcher == credits # <<>> => Log!Winner(read) # Nobody

\* Stated by the script, "Determine if starter is in-line for the win": a
\* starter who is taken out is in line for the win only on the outs of the
\* game he started.
StarterEarnsWin ==
  [][LogChange => LET old == Last(box.staff[SideOf(Fielding)])
                  IN  box.winner # old /\ box'.winner = old
                        => box.outs[old] - read.outs[old] >= QualifyOuts]_allVars
=============================================================================
