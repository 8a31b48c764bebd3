------------------------------ MODULE Schedule ------------------------------
(***************************************************************************)
(* generate_schedule.c: the season is drawn, series after series, from a   *)
(* grid of weeks in which each team meets one other.  Each round draws the *)
(* weeks without putting them back: the week drawn is overwritten by the   *)
(* last of those left.  The last round is cut off when there are enough    *)
(* series.  All rows are inserted in one transaction.                      *)
(***************************************************************************)
EXTENDS Integers, Sequences

CONSTANTS
  Team,            \* the active teams of the league
  TeamIds,         \* in the order of select_team_ids_for_league
  Weeks,           \* weeks of the grid (14)
  schedule_grid,   \* the pairs of indexes, home first, of each week
  NumSeries,       \* series of a season (54)
  GAMES_PER_SERIES \* (3)

Week == 0 .. Weeks - 1
Index == 0 .. Len(TeamIds) - 1

\* gget(team_ids, i)
TeamAt(i) == TeamIds[i + 1]

\* In each week everybody plays once.
GridFits(grid, index) ==
  \A w \in DOMAIN grid :
    /\ grid[w] \subseteq index \X index
    /\ \A i \in index : \E g \in grid[w] :
         /\ i \in {g[1], g[2]} /\ g[1] # g[2]
         /\ \A h \in grid[w] : i \in {h[1], h[2]} => h = g

ASSUME SeasonAssumption ==
  /\ Weeks \in Nat \ {0} /\ NumSeries \in Nat /\ GAMES_PER_SERIES \in Nat \ {0}
  /\ TeamIds \in Seq(Team)
  /\ \A t \in Team : \E i \in Index : TeamAt(i) = t
  /\ \A i, j \in Index : TeamAt(i) = TeamAt(j) => i = j

ASSUME GridAssumption ==
  /\ DOMAIN schedule_grid = Week
  /\ GridFits(schedule_grid, Index)

VARIABLES
  planner,     \* generate_schedule: "draw", "commit", "done", "failed"
  series, rounds, weeks,
  inserted,    \* the rows of the transaction
  t_schedule,  \* the rows that are committed
  round,       \* history: the rounds that are complete
  drawn,       \* history: the weeks drawn in this round
  times        \* history: how often each week was drawn

schedule == <<planner, series, rounds, weeks, inserted, t_schedule>>
drawing == <<round, drawn, times>>

\* init_weeks
InOrder == [i \in Week |-> i]

ScheduleInit ==
  /\ planner = IF NumSeries = 0 THEN "commit" ELSE "draw"
  /\ series = 0 /\ rounds = Weeks /\ weeks = InOrder
  /\ inserted = {} /\ t_schedule = {}
  /\ round = 0 /\ drawn = {} /\ times = [w \in Week |-> 0]

\* insert_schedule: the days of the series, game_num.
DaysOf(s) == (s * GAMES_PER_SERIES + 1) .. (s + 1) * GAMES_PER_SERIES
SeriesRows(s, w) ==
  {[day |-> d, home |-> TeamAt(g[1]), away |-> TeamAt(g[2])] :
     d \in DaysOf(s), g \in schedule_grid[w]}

\* Slip: the place of the week drawn is kept, the last one is lost.
WithoutSlip(ws, num, left) == ws
\* weeks[num] = weeks[rounds - 1]
Without(ws, num, left) == [ws EXCEPT ![num] = ws[left - 1]]

Draw(num) ==
  /\ planner = "draw" /\ num < rounds
  /\ inserted' = inserted \cup SeriesRows(series, weeks[num])
  /\ series' = series + 1
  /\ times' = [times EXCEPT ![weeks[num]] = @ + 1]
  /\ IF rounds > 1 \/ series + 1 >= NumSeries
       THEN /\ weeks' = Without(weeks, num, rounds)
            /\ rounds' = rounds - 1
            /\ drawn' = drawn \cup {weeks[num]}
            /\ UNCHANGED round
       ELSE /\ weeks' = InOrder /\ rounds' = Weeks
            /\ drawn' = {} /\ round' = round + 1
  /\ planner' = IF series + 1 >= NumSeries THEN "commit" ELSE "draw"
  /\ UNCHANGED t_schedule

ScheduleCommit ==
  /\ planner = "commit" /\ planner' = "done"
  /\ t_schedule' = t_schedule \cup inserted /\ inserted' = {}
  /\ UNCHANGED <<series, rounds, weeks, drawing>>

\* Slip: what was inserted before the failure stays.
RolledBackSlip == t_schedule \cup inserted
RolledBack == t_schedule

\* An insert or the commit fails, or nothing could be begun at all.
ScheduleFails ==
  /\ planner \in {"draw", "commit"} /\ planner' = "failed"
  /\ t_schedule' = RolledBack /\ inserted' = {}
  /\ UNCHANGED <<series, rounds, weeks, drawing>>

ScheduleNext == (\E num \in Week : Draw(num)) \/ ScheduleCommit \/ ScheduleFails
ScheduleSpec == ScheduleInit /\ [][ScheduleNext]_<<schedule, drawing>>

-----------------------------------------------------------------------------
(* Properties. *)

ScheduleTypeOK ==
  /\ planner \in {"draw", "commit", "done", "failed"}
  /\ series \in 0 .. NumSeries /\ rounds \in 0 .. Weeks
  /\ weeks \in [Week -> Week]
  /\ round \in Nat /\ drawn \subseteq Week /\ times \in [Week -> Nat]

\* However the weeks are drawn, and wherever the last round is cut, no week of
\* the grid is played more than once more than another: the swap with the last
\* of the shrinking array neither loses a week nor keeps one.
DrawnEvenly == \A v, w \in Week : times[v] <= times[w] + 1

Plays(t, row) == t \in {row.home, row.away}

\* On each day of the season every team plays one game, or, when the schedule
\* was rolled back, there is no day at all: select_schedule finds the rows it
\* has room for.
EveryTeamPlaysDaily ==
  t_schedule # {} =>
    \A d \in 1 .. NumSeries * GAMES_PER_SERIES, t \in Team :
      \E r \in t_schedule :
        /\ r.day = d /\ Plays(t, r) /\ r.home # r.away
        /\ \A q \in t_schedule : q.day = d /\ Plays(t, q) => q = r
=============================================================================
