# Free Baseball Simulator in TLA+

TLA+ models of the Free Baseball Simulator (C and Perl on SQLite or MySQL),
TLC configurations that check them on small instances, and theorems that TLAPS
proves for every instance. Paths such as `src/sim_day.c` are relative to the
repository; line numbers are in the map of `PROJECT.json`.

## 1. The system

| Component | State it keeps | Operations |
|---|---|---|
| **Game engine** `src/sim_game_func.c` | one game: score, inning, outs, bases, batting orders, the man on each mound, bullpens, fatigue in the skill hash, the list of tired pitchers, the log buffer | `sim_game_batch`: read and verify lineups, then the loop of `sub_pitcher`, `sim_ab`, `advance_runners`, `tire_pitcher`, `increment_bat_order`, change of sides, `is_game_over` |
| **Game log reader** `src/game_log.pl` | score, half-inning, side at bat, rosters, stats of each player, pitchers of record | one branch per kind of line; at the end of input `save_stats`, `record_results`, box score |
| **Day and season simulation** `src/sim_day.c` | day and game, child process and pipe, skill hash (season), list of tired pitchers | `simulate_day`, `simulate_season`, `simulate_season_speed`, `main` in day mode |
| **Rest of pitchers** `src/sim_day.c`, `src/baseball_data.c` | `t_skill_pitcher.batters_left`, or its copy in the hash | `update_stamina`, `rest_pitchers`, `rest_pitchers_speed` |
| **Rotation and lineups** `src/baseball_data.c`, `web/lineup.pl`, `src/gtk/roster_page.c` | `t_rotation`, `t_lineup` | `update_rotation`, the edits of an owner, `init_lineups` |
| **Draft** `src/run_draft.c` | preference lists, `t_draft`, the team and status of players | one pick after another, ten positions, eight teams |
| **Schedule** `src/generate_schedule.c` | `t_schedule` | 54 series drawn from a grid of 14 weeks; `select_schedule` reads a day |
| **Set-up and new season** `src/restart_league.pl`, `src/new_season.pl`, `src/create_player.c` | everything | retire, create players, draft, set lineups |
| **Web** `web/` | users, sessions, owners of teams | sign up, log in, select a team, edit a lineup, and pages that only show |
| **Desktop program** `src/gtk/` | the boxes of its forms | starts a day with a button, makes a new league, enters a user and his team; pages that show |
| **Containers and database access** | lists, hashes, arrays; connections | wrappers |

How they interact. `fbs-gtk` starts `sim_day` for a day, or a user starts it
for a season. `sim_day` forks a `game_log.pl` per game (one for a whole season
with `--fast`) and is connected to it by a pipe only: the engine writes the log
of a game into a buffer that goes into the pipe when the game is over, and the
reader writes to the database when it sees the end of the pipe. In the evening
`sim_day` itself writes to the database: what pitchers have left, their rest,
the next starters. Lineups and rotation are shared with the web pages.
`restart_league.pl` starts `create_player` and `run_draft` and then fills the
lineups; `fbs-gtk` starts it for a new league and waits for it.

What is hard:

* inside a game, four interlocked pieces of state (card, mound, pen and
  batting order) that a pitching change updates one after another, runners who
  move through one array in place, and the boundary at which a game is decided;
* the reader's guesses: it is told the plays and nothing else, and derives the
  score, the inning, who is meant and who has won; several games may reach it
  in one input;
* two processes, a pipe with two holders of its write end, a signal, an exit
  status and a database that both write; a game that is given up; a reader that
  dies; a day that stops half-way and is started again;
* the same facts in memory and in the table, brought up to date in different
  ways;
* a database that knows transactions (SQLite) or none (MySQL with MyISAM
  tables), under requests that read in one step and write in another, and
  scripts of many statements that may die between any two.

## 2. The modules

| Module | What it is |
|---|---|
| `Baserunning` | `advance_runners`, `advance_to` and the outs of `sim_ab` as operators on the four bases |
| `Game` | `sim_game_batch`: a state machine over card, bases, clock and fatigue |
| `BaseballRules` | abstract: halves, outs, score and decision, and nothing else |
| `GameProofs`, `GameRulesProofs` | the theorems about `Game` |
| `GameLog` | `game_log.pl` as operators: what each line does to the reader, and what the end of the input saves |
| `LoggedGame` | composes `Game` and `GameLog`: each step of the game with the lines it writes |
| `LoggedGameProofs` | the theorems about the composition |
| `StaffRest` | abstract: how a staff tires and recovers from day to day |
| `SimDay` | `simulate_day`, `simulate_season` and the day mode of `main`, the reader as a process, the pipe, the signal, the database and the button of `fbs-gtk` |
| `SimDayProofs` | the theorems about `SimDay` |
| `Containers` | the list and the hash where others depend on how they work |
| `Schedule` | `generate_schedule` |
| `FastSeason` | composes `Schedule` and `Containers`: `simulate_season_speed` on the calendar that was drawn, with its one reader |
| `FastSeasonProofs` | the theorems about the two |
| `LineupTables` | rows of `t_lineup` and `t_rotation`, what `init_lineups` makes of them and what a game takes from them |
| `Draft`, `DraftProofs` | `run_draft`, and the theorems about it |
| `League`, `LeagueProofs` | composes `Draft` and `LineupTables`: `restart_league.pl`, year after year, and the people who own teams; the theorems about the composition |
| `Rotation` | abstract: starters take turns |
| `Lineups`, `LineupsProofs` | `update_rotation` and `lineup.pl` on the same rows, statement by statement, and the theorems about it |
| `MCGame`, `MCLoggedGame`, `MCSimDay`, `MCFastSeason`, `MCLeague`, `MCLineups` | instances for TLC |

### Game

One iteration of the loop is two steps. At `pc = "top"` the end of the game is
tested and the mound settled: `EndGame`, `ChangePitcher` (`sub_pitcher` returns
1) or `KeepPitcher`; the change of sides at the start of a half-inning belongs
to both (`NextHalf`, `Current`). At `pc = "bat"` a batter hits:
`PlateAppearance`, or `AbortGame` when the pitcher's stamina reaches -20.
Nothing runs between these two points in the code, which is one thread.

`sim_ab` draws its result from skills and `rand()`. The model lets every result
type happen at every plate appearance, with both of the draws that
`advance_runners` makes. Probabilities are not modelled; what holds here holds
for every seed and every skill.

The lineups of a game are any member of the constant `Card`. `SoundCard` says
what a complete lineup looks like: nine men in nine slots, the pitcher one of
them, and no reliever of a pen among them. The code verifies completeness
only; the rest is an assumption about `t_lineup` and `t_rotation`, named
`CardAssumption`. It does not say that the pens hold nobody from the card: the
man a form has on the mound pitches, whoever is next in the rotation, and after
a stale form he is a starter whom the pen holds as well (the card `Stale` of
`MCGame`). `sub_pitcher` brings in relievers only, so that such a man, once
taken out, is still on the list of the pen but never comes back.

### GameLog and LoggedGame

`GameLog` holds no variables: the reader is a record `box`, and `ReadLine` is
the branch of the `while(<STDIN>)` loop for a line. `LoggedGame` adds to each
action of `Game` the lines the code writes in it and lets the reader read them.
In the program the lines wait in the buffer until the game is over; since only
the reader looks at its state and the pipe keeps the order, reading them at
once gives the same states at the end. What is left in the box after a game
that was given up is not what is saved: `read` is the reader after the last
game that was flushed, and `EndOfInput` works on that.

A `#` line carries the hand the batter bats with (`Bats`, `Throws`,
`get_hitter_hand`), since the reader keeps a pitcher's row for each. W, L, R, ER
and G are in the row against right-handed batters; `save_pitcher_stat` skips a
row in which nobody batted (`Saved`). So what the reader holds, `$loser`, and
what the database gets, `Credits`, are two things. `NextGame` is the whole
evening between two games of one reader: besides a new card it refills
`batters_left` and sets `stamina` to 0, as `rest_pitchers_speed` does (line 74);
how much it refills is left to `FastSeason`.

### SimDay

The program has one step for each thing another process can see: fork, the
write of a game, close, kill, the end of `wait`, the transaction of the
evening. The child has its own: it closes the write end it inherited, sees the
end of the file when nobody holds a write end, and saves in one transaction
(the `BEGIN`/`COMMIT` of the script). A game is abstracted to what `Game` shows
of it: it is played out or given up, it uses some pitchers, and each of them is
left with fewer batters or more tired. `ListMatchesHash` of `Game` is what
entitles `SimDay` to take the list from the hash.

`sim_game` has no return statement, so in day mode its result is either value
(`Returned`). `game_log_buffer` is emptied only by a flush, so that the lines
of a game given up stay in `buffer` and leave with those of the next.

With `Season` the hash is kept and rested (`RestPitchersSpeed`), the table gets
the list (`UpdateStamina`) and no rest. Without, each start of the program
loads the table (`Launch`) and the evening updates and rests it (`Evening`).

### Schedule and FastSeason

`Schedule` is the loop of `generate_schedule`: `weeks`, `rounds` and `series`
are its variables, `Draw(num)` an iteration with the random index it drew,
`inserted` the rows in its transaction. `ScheduleFails` is the way to the
rollback. The grid is a constant with an assumption, in each week everybody
plays once; `MCFastSeason` holds the 14 weeks of the code and has TLC evaluate
that they fit.

`FastSeason` starts when the planner is over. In contrast to `SimDay` there is
one reader for all games, the pipe is a queue with a limit (`PipeGames`), and
the program keeps the read end, so that a dead reader breaks nothing but fills
the pipe. `Play` takes any row of the day, since `select_schedule` has no
`ORDER BY`. The evening turns the rotation inside the transaction (`turns`),
`Commit` makes it last (`rotation`), and `GiveUp` returns in the middle. The
pitchers are in the buckets of a `Containers` hash.

### Draft and League

`Draft` has the three loops of `main` as `position`, `round` and `next`, the
preference lists as sequences, and `Pick` with all the rows `insert_draft_pick`
writes. `DraftFails` covers an empty list and a team that is missing (the
program takes eight teams for granted): SQLite takes the transaction back,
MySQL keeps what was written.

`League` has a step for each statement of `restart_league.pl` that others can
see or after which it may die. What the code orders by `team_id` is one of the
increasing sequences of the ids (`InOrderOfId`; there is one for each set). A player is a year, a position and a rank, his
place in order of skill. `LookUp` and `SignUp`, `SelectForm` and `SelectTeam`
are requests on the web, the first of which reads and the second writes. On
SQLite there is `fbs-gtk` instead: its dialog for a new league starts the
script, waits, and opens the database whatever the status; its box of teams is
filled when a file is opened and not brought up to date.

### Lineups

Here the tables are those of MySQL, where every statement is visible at once.
`Evening` reads who is next; for each starter it found, `ResetRotation`,
`ResetLineup`, `SetNext` and `SetLineup` are the statements of the loop (those
on `t_rotation`, which nobody else touches, go with the step before them).
`Submit` is a form `validate` accepts, of any content and any age; `WriteRow`
writes its rows one at a time in any order, as the keys of a Perl hash come.
One form is in flight at a time (a bound of the model: `Submit` waits until the
last one is written).
Three history variables say for each hand whether the last form had the pitcher
bat last, whether `update_rotation` ran while it was written, and whether a
form came after the last evening. `update_rotation` puts the pitcher into slot
9 whatever the owner thinks: a lineup that had him elsewhere is left with an
empty slot, which is why `OneManEach` asks for a form with the pitcher last.
The script's own lineups have him there, and slot 9 twice in nobody's.

## 3. What the runs check

| Run | Bounds | Properties |
|---|---|---|
| `game_regulation` | two innings of two outs and extra innings, lineups of five, a starter and a reliever per team who tire after one or two batters, a home team whose stale form has a starter of the pen on the mound, stamina -4 aborts | `TypeOK`, `CardsInOrder`, `BatterFacesMound`, `TakenOutForGood`, `ListMatchesHash`, `RunnersInOrder`, `AbortOnlyWithoutRelief`, `NobodyVanishes`, `FollowsRules` (implements `BaseballRules`), `Terminates` |
| `logged_season` | two games of one inning and extra innings into one reader, one team or the other with a reliever, the teams exchanged, or the stale form; batters of both hands and one who switches; one out to be in line for a win | `ScoreMatches`, `BoxFollowsGame`, `PitchingAddsUp`, `DecisionsFollowLead`, `ResultRecorded` |
| `sim_season` | three days of two games, three pitchers of whom each game uses any but none | `SettledDayIsRecorded`, `StatsFollowResults`, `TableLagsMemory`, `RestsLikeStaff` (implements `StaffRest`) |
| `sim_days` | two starts of the program, two games a day, readers that may die | `TypeOK`, `OnlyFinishedRecorded`, `RestsLikeStaff`, `DayEnds`, `NextDayIsNew` |
| `fast_season` | four teams, three weeks of two games, four days, so that the second round is cut; a pipe of two games, a reader that may die, two pitchers in one bucket | `DrawnEvenly`, `EveryTeamPlaysDaily`, `NothingLost`, `SeasonOrNothing`, `RestsLikeStaff` (implements `StaffRest`), `SeasonEnds` |
| `new_league` | two teams, three positions of one, two and one rounds, pools of players that are enough, more than enough or too few; the script started twice and allowed to die; two people; SQLite and MySQL | `NobodyTwice`, `BestTaken`, `ReadyToPlay`, `RosterIsDrafted`, `OneSeasonEach`, `TakenFromOldList` |
| `lineups` | three starters, a reliever and a hitter on two slots, both hands | `OneNextStarter`, `OneManEach`, `PitcherFollowsRotation`, `RotationTurns` (implements `Rotation`) |

Why the bounds are enough. Runners interact only with the men ahead of them on
three bases, so a lineup of five (three on base, a batter, and one more, as
`NumberAssumption` demands) reaches every placement, and two outs a half end a
half with runners on. Two innings separate an ordinary inning from the last
one; a third and more arise as extra innings. The pitchers tire after a batter
or two, so that changes, an empty pen and an abort happen within a handful of
batters. The score needs no bound: the stamina bounds every game. In `SimDay`
two games are enough for one game's leavings to meet the next one's reader, two
days for a day to follow another or to be repeated, three for an entry of the
list to be two days old; more games a day repeat the same handshake. In
`logged_season` thresholds are scaled down together with the length of a game,
and the two games of its input, the second of which may be on exchanged sides,
are as good as 162 for what one game leaves to the next. In `fast_season` four days on three weeks make a second round that is
cut off, as the fourth is in the code; a pipe of two games fills up before the
season is over. Two teams are enough for a pick to meet another's list, two
rounds for one team to pick twice, and the pools make the draft fail at each
position; a second start of the script meets what the first one left, dead or
done. In `lineups` the rotation has no other bound than its length, three, the
least at which going round differs from swapping; one hitter stands for those
whom the pitcher may trade slots with.

Deadlock is not checked for games, which stop, nor for `League`, where nobody
has to do anything more. In `SimDay` and `FastSeason` it is: only `Over`, which
stutters when the program has ended, is allowed to idle. (A program that waits
on a full pipe stops there too: TLC would call it a deadlock if `GiveUp` were
not possible as well; `SeasonEnds` names it, `Stuck`, as the one way not to end.)

Fairness. `Game` has weak fairness of its next-state relation: one thread that
never blocks. With it every game ends, whatever the batters do, because each
plate appearance tires somebody. `SimDay` has weak fairness for the program and
for the child separately: two runnable processes are both scheduled. Nobody has
to press the button, and no reader has to die. `FastSeason` has it for the
planner, the program and the child: three processes. `GiveUp` has no fairness,
a game does not have to be given up.

### Where the code and its comments part

Each of these is a run that TLC ends with a counterexample. (`season_starter`
uses the fast season's single reader; that such a reader counts wins and losses
only for the last of its games is visible in `Credits` and agrees with the
README of the program, which records wins with `--slow` only.)

| Run | What the comment says | What happens |
|---|---|---|
| `no_winning_pitcher` | `game_log.pl:859` "Determine the current winning/losing pitcher." | a starter leaves early with a lead that stands; the game has a loser and no winner |
| `season_starter` | `game_log.pl:167` "Determine if starter is in-line for the win." | the outs are those of all his games in this input |
| `season_status` | `sim_day.c:230` "0 for success or something else if there is a failiure" | the status of the reader is not looked at; a game that was not saved counts as played |
| `day_log` | `sim_game_func.c:956` `@return \sa sim_game_batch`, "0 for success, something else if there is an error" | `sim_game` returns nothing; the day goes on after a game that was given up, and its lines are sent to the next game's reader, which books its stats |
| `locked_out` | `select_team.pl:54` "You have already selected a team." | owners of last season's rows are counted too: from the second season on they are told so, own no team, and get no form |

One more follows from the model without a run of its own. `save_pitcher_stat`
leaves out the row of a man who "did not pitch" (`game_log.pl:402`), that is, one
without OUTS, BB or H. These are booked by the hand of the batter, but W, L, R, ER
and G in the row against right-handed batters: a losing pitcher who faced
left-handed batters only has pitched, and his loss, runs and game are not saved
(`Saved`, `Credits`). `ResultRecorded` is therefore about `$loser`, the L of the
database not being what it says.

A day that stopped half-way is started again by the button of `fbs-gtk`, which
knows no more than the record of one team (`simulate_page.c:42`): `NextDayIsNew`
holds only as long as each day has all of its games in the database or none,
and says nothing about the days that stopped half-way.

## 4. What is proved

### The game

`GameProofs` and `GameRulesProofs` prove, for all players, lineups, numbers of
innings, outs and slots, and all limits of fatigue, from the assumptions
`NumberAssumption`, `PlayerAssumption` and `CardAssumption`:

* `TypeCorrect`, `CardsStayInOrder`, `BatterAlwaysFacesMound`,
  `TakenOutStaysOut`, `ListAlwaysMatchesHash` and `AbortsOnlyWithoutRelief`:
  `Spec => []P` for six of the invariants of `game_regulation`;
* `ImplementsRules`: `Spec => FollowsRules`, that the loop of the program is a
  game by the rules.

The argument. None of the invariants is inductive alone. `IInv` joins the types
and the order of the card with two facts the code never states: outside `pc =
"top"` at the start of a half the local `pitcher` is the man on the mound, and
a complete card stays complete. That the mound has changed hands only by
`ChangePitcher` needs the card in order, and that a change keeps the card in
order needs to know that the man who leaves bats in exactly one slot
(`First(SlotsOf(...))` is then not empty and unique) and that the man who
comes in, a reliever, is in no slot. `ListInv` adds, on top of `IInv`, that
nobody on the list is on a card, and no reliever on it in a pen, that each entry of the list still
agrees with the hash, and that whoever has been used is listed or on the mound:
`TakenOutForGood` alone does not survive a change, since it does not say that
the man who leaves was not listed before. `FitKept`, for the abort, is an
invariant about stamina: a pitcher whose stamina is down to -2 at the top is
relieved if anybody can relieve him, so that stamina on the way to -20 is only
seen over an empty pen; `Exhausted > 2` is all it needs to know of the limit.

For `ImplementsRules` the refinement mapping counts halves from the inning and
the side and reads "final" off `IsGameOver`. Initial states map to initial
states; `PlateAppearance` maps to a batter; a change or confirmation of the
pitcher, and `EndGame`, to a stutter; an abort to `CallOff`. It needs three
facts: `ClockKept` (when `inning_over` is set the outs are 0, and no batter
faces a decided game), that a play puts out at most one man, and that it scores
at most four (`RunsOnBound`, from the cardinality of the bases).

What happens to the men on the bases is in `GameRulesProofs` too.
`NobodyEverVanishes` (`Spec => NobodyVanishes`) is counting: `Landing` says that
after a play each base is held by exactly one of those who remain, so the bases
before, the batter, the runs and the outs balance (`EverybodyCounts`) whichever
of the destinations of `advance_runners` was drawn. `RunnersStayInOrder`
(`Spec => []RunnersInOrder`) needs more than the order itself: how long ago a
runner batted bounds how far behind the next batter can be. `InTurn` therefore
says that a runner batted at most as many turns ago as there are outs and
runners behind him; with `LineupSize >= OutsPerHalf + 3` nobody comes up while
he is still on base, which `NumberAssumption` demands and nine and three meet.

### The game and its reader

`LoggedGameProofs`, from the assumptions of `Game`, for any number of games in
one input and any teams at either place. (A game that is given up ends the
input: nothing but `EndOfInput` follows it.)

* `ScoreAlwaysMatches`, `ReaderFollowsGame`, `DecisionsAlwaysFollowLead`,
  `ResultIsRecorded` and `PitchingAlwaysAddsUp`: `LogSpec => []P` for all five
  invariants of `logged_season`.

What a step does to the reader is a function of its lines (`ReadAll`), which is
recursive. The library's theorems of recursion take an operator and cannot be
used; a least counterexample in a well-founded set is first-order, and with it
`Reading` says that the function exists and `ReadsOn` that the lines of two
texts are read one text after the other. `SumOf`, the sum of a line score, is
treated in the same way (`Tallied`, `NewInning`, `MoreAt`). There is then one
lemma for what each kind of line does (`GameRead` to `RunScored`, `BatRead`),
two for lines in any number (`LineupsRead`, `RunsRead`), and one for each step
of the game (`StartFollows` to `ChangeFollows`).

The invariant has two parts. `Sound` is about the reader alone: the half it
counts decides who bats, its line score adds up to its score, and it has a
loser exactly when a side leads (`RecordFollows`). `FollowsGame` ties
the reader to the game: its half is the half that is on, or the one before
while `inning_over` waits for the next line; its totals are the runs; the last
man in each slot and on each staff is the man of the card. A change of pitcher
is told by the slot of the man who leaves, so that `CardsInOrder` is needed to
find it (`ChangeIsSubstitution`). Between two games the reader need only be
typed: the lines of the start make it fresh. `ResultRecorded` follows because
only the end of a game, which somebody has won, replaces what is saved; its
`$loser` is a pitcher. That he has the loss in the database does not follow
(section 3).

`PitchingAddsUp` needs a third part, `StaffInv`: the men new on a staff in this
game are in the list of tired pitchers (`Recorded`), but for the last, who is on
the mound (`TakesTurns`), and nobody else has been credited with anything
(`OnlyPitchersCredited`). With `ListInv` of `GameProofs`, by which whoever was
taken out never comes back, the man a play is credited to is on one list only,
and there once, so that the sum grows by just what the play was worth
(`LastCredited`, `OthersCredited`); a man who comes in brings nothing along
(`NewManCredited`). The last out of a half is carried over by `OutsCounted`.

`DecisionsFollowLead` is proved from the same part. The list of a staff is never
emptied, so that being on it says little from the second game on; the men of
this game are its end (`PitchedFor`). What a line does to the pitchers of record
is `Redecided`: a decision falls on the last man of a staff, who is on the mound
and so among them, or stands because the lead does. It composes over any lines
that bring no new pitcher (`RedecidedMore`), and `DecidedOn` turns it into a step
of the invariant (`Decided`), as nobody ever leaves `PitchedFor`.

### Days

`SimDayProofs`, from `DayAssumption`: `RecordedWerePlayed`, in all modes and
with readers that may die; `SeasonStatsFollow` with `--season`, and
`SettledDaysRecorded` with `--season` and readers that do not fail, which are
the preconditions of the two findings `day_log` and `season_status`. The
invariant of the first (`ReaderInv`) follows the reader through the race: as
long as it is to save, its game was played out once more than it was recorded,
and the program moves to another game only when no reader runs. `BufferInv`
adds that with `--season` the buffer is empty unless the program is on its way
out, `SettleInv` that whoever is waited for has the game before it.

`StaffIsRested` (`Spec => RestsLikeStaff`) is the refinement of `StaffRest` in
both modes. `StaffInv` bounds what anybody has left by what he had in the
morning, in memory, on the list and in the table; a day then maps to one of the
abstract days, everything else to a stutter. `TableAlwaysLags` (`Spec =>
[]TableLagsMemory`) is about the list that is never emptied: `LagInv` says that
replaying it over the table at any moment of the day would not promise more
than memory holds, because the last entry for a pitcher is the newest one
(`LastThere` finds it). `ButtonStartsNewDays` (`Spec => NextDayIsNew`) is about
the button of `fbs-gtk`: by `ButtonInv` the first active team has decided just
one game of each day before this one and none later, so that counting them
(`DayCounted`) gives the day. The staff is finite there (`IsFiniteSet(Pitcher)`
of `StaffRest`), as a table is.

### Schedule and fast season

`FastSeasonProofs`, from `SeasonAssumption` and `GridAssumption`, for every grid
in which everybody plays once a week. `DrawIsEven`, about the planner on its own
(`ScheduleSpec`), rests on `FairDraw`: the
first `rounds` places of the array hold just the weeks not drawn in this round,
each once, which the swap with the last keeps (`FairSwap`).
`CalendarIsComplete` adds that the rows so far are those of the days so far,
each of them a week of the grid (`FullDays`); a series fills the days that
follow and leaves those before alone (`SeriesFills`).

It carries both over to the composed system
(`SeasonDrawIsEven`, `SeasonIsComplete`: its steps are steps of the planner or
leave the planner's variables alone) and adds `ReaderLosesNothing` and
`AllOrNothing`. The first follows from `received \o pipe = played` and from who
holds the write end; the second from `ProgressInv`, which says what a season
has played and turned half-way: all games of the days before, those of today
that are no longer to do, and an evening for each day before. It needs the
calendar at rest, that is `PipeInv`, and that a day is finite.

`HashIsRested` (`Spec => RestsLikeStaff`) is the refinement of `StaffRest` by a
season whose pitchers are only in the skill hash. Its lemmas say of the hash of
`Containers` what a test of two or three keys cannot: for any keys and any
capacity, an added entry answers for its key (`Added`), a value that is set is
the one that is found (`ValueSet`), the walk of `HashMap` reaches every entry
(`AllRested`), and none of them changes what the others answer. Loading and
booking go over all the pitchers (`FoldSet`); that they fill the whole hash
(`LoadFills`) and replace just those used (`SkillsSet`) is shown by a smallest
set of pitchers for which they would not (`SmallestSet`), in place of an
induction. It takes a finite staff (`IsFiniteSet(Pitcher)`). `RestInv` then
bounds what is left of each pitcher by what he had in the morning.

### Draft

`DraftProofs`, from `DraftAssumption`, on the draft on its own (`DraftSpec`)
with any players, any list of teams and any number of them missing:
`DraftsNobodyTwice` and `DraftTakesBest`. Between two picks (`PickInv`) all
lists are equal, and whoever is in one is worse than everybody drafted at his
position; taking the head out of every list keeps that (`RemoveHead`).

### The league

`LeagueProofs`, from `DraftAssumption` (whose `IsFiniteSet(TeamId)` says that a
league has finitely many teams) and `LeagueAssumption`, for any number of starts
of the script, deaths at any statement, and people at the same time.
`LeagueIsReady` also needs `LeagueSize`: as many slots as positions, and no more
teams than take part in a draft.


* `OneSeasonForEach` (`Spec => []OneSeasonEach`). `SeasonInv` knows the team
  whose old row is inactive and whose new one is still due (`hand_over`), and
  that rows which the loop has behind it are of this year;
* `LeagueDraftsNobodyTwice` and `LeagueTakesBest` carry the two theorems of
  `DraftProofs` over to the running league: a step of the script or of a person
  is a step of the draft, starts it on lists that hold nobody twice, or leaves
  it alone;
* `RostersAreDrafted` (`Spec => []RosterIsDrafted`). `RosterInv` follows the
  stages of the script: before the draft nobody is on a roster and the tables
  are empty; `DraftingInv` adds what a rollback of SQLite would restore
  (`before`), so that a failed draft is as if none had been;
* `LeagueIsReady` (`Spec => []ReadyToPlay`). Two counts carry it. While the draft
  is in its three loops, `CountInv` says how many of each position each team has
  by then (`Due`): all rounds of the positions before, none of those after, and of
  this one a round more for the teams that have had their turn. `TableInv` says
  that the rows of lineup and rotation are those of the drafted, one for each
  hand. After it, `Cleared` and `Placed` follow `init_lineups` from one hand to
  the other, and the starters of a team are counted once more
  (`StartersCounted`) for their turns;
* `TeamsAreTakenFromOldLists` (`Spec => TakenFromOldList`), an action property:
  a team is taken from its owner only by somebody whose list is older than that
  (`PageInv`).

### Rotation and lineups

`LineupsProofs`, from `SquadAssumption`, for rotations and lineups of any length
and any squad: `OneIsNext`, and `StartersTakeTurns`, the refinement of
`Rotation`. That `init_lineups` gives each starter a slot of his own is counting
(`EachHasHisSlot`: as many starters as slots, all ranks different). `TurnInv`
says where the turn is while nobody is next: in a variable of the program. The
mapping is the slot of the next starter, or that variable.

Two more theorems are about the lineups themselves, under forms of any content
that `validate` accepts, written row by row while the evening is at work.
`PlaceInv` has one row for each man and hand, in a place he may have, in the
table and in the form that is being written. `MoundFollowsRotation` (`Spec =>
[]PitcherFollowsRotation`) rests on `FollowInv`: once an evening has begun that
no form disturbs, a pitcher bats only if he is the next starter, and while
nobody is next none does. `LineupsStayFilled` (`Spec => []OneManEach`) rests on
`ManInv`: a hand that is `intact` is `Filled` also half-way through the evening,
where the last slot and the mound are empty together, and half-way through a
form, where what is still to be written fills what is open. That an accepted
form fills every position, though `validate` only looks for doubles, is the
pigeonhole principle (`FormFills`): as many slots as positions, all taken, none
twice.

The lemmas about rows (`RowIs`, `RowsUpdated`, `RowsMoved`, `OneRowPut`, ...) say
what an UPDATE does to a table with one row for each man; both theorems and
`PlaceInv` need nothing else of `LineupTables`.

### Only model-checked

Liveness, which is out of the prover's reach: `Terminates`, `DayEnds`,
`SeasonEnds`.

Every invariant, every other action property and every refinement that a passing
run checks is stated by a theorem.

## 5. What is not modelled, and the plan

Left out for good: the at-bat formulas and the random numbers, the attributes
of created players, names, wording and layout of logs and pages, SQL and the
connections (a transaction is a step), sessions and permissions of the web
pages, pages that only show, the calibration scripts. `sim_season.pl` passes
the day in a form that `sim_day` refuses, so the days of `SimDay` are started by
`fbs-gtk` only. `new_season.pl` is called by nobody (`goals.pl:168` is commented
out); it says that the year is updated at the end of a season, which no program
does, and is not modelled.

Assumed: the installed `perl` can be executed (when it cannot, `sim_day.c:258`
lets the child run on as a second simulator); the log of a game fits its 10000
bytes; in `SimDay` the pipe takes the log of a game without waiting; the rows
of free agents and retired players in `t_lineup` are nobody's.

Open, in this order:

1. The second simulator that a failing `exec` leaves behind, as two programs on
   the database of `SimDay`.
2. A game of `LoggedGame` that starts from lineups of `Lineups`, so that
   `SoundCard` is no longer an assumption but what the tables hold. What it
   still assumes is one man in each slot and at each position, the pitcher
   among those who bat, and relievers on no card. `OneManEach` shows the first
   two for forms with the pitcher last that no evening disturbs, and not for
   others: `sub_pitcher` then writes to `lineup[-1]`.
