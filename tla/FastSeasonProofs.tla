-------------------------- MODULE FastSeasonProofs --------------------------
(***************************************************************************)
(* The fast season, for leagues, calendars and pipes of any size, readers  *)
(* that die and games that are given up: the calendar it is played on is   *)
(* fair and complete, a reader that saves has lost no game, the season is  *)
(* in the database with all its evenings or with none, and the pitchers in *)
(* the skill hash rest the way a staff does.                               *)
(***************************************************************************)
EXTENDS FastSeason, FiniteSetTheorems, SequenceTheorems, WellFoundedInduction, TLAPS

(***************************************************************************)
(* The draw of generate_schedule.                                          *)
(***************************************************************************)

sched_vars == <<schedule, drawing>>

\* The first `rounds' places of weeks hold the weeks that were not drawn in
\* this round, each once; the weeks drawn are one ahead of the others.
FairDraw ==
  /\ ScheduleTypeOK
  /\ series \in Nat /\ rounds \in Nat
  /\ \A w \in drawn : times[w] = round + 1
  /\ \A w \in Week \ drawn : times[w] = round
  /\ planner = "draw" =>
       /\ rounds > 0 /\ series < NumSeries
       /\ \A i, j \in 0 .. rounds - 1 : i # j => weeks[i] # weeks[j]
       /\ \A i \in 0 .. rounds - 1 : weeks[i] \notin drawn
       /\ \A w \in Week \ drawn : \E i \in 0 .. rounds - 1 : weeks[i] = w
  /\ planner \in {"commit", "done"} => series = NumSeries

LEMMA FairInit == ScheduleInit => FairDraw
  BY SeasonAssumption
  DEF ScheduleInit, FairDraw, ScheduleTypeOK, InOrder, Week

\* The place of the week drawn goes to the last of those left.
LEMMA FairSwap ==
  ASSUME FairDraw, planner = "draw", NEW num \in Week, num < rounds
  PROVE  LET left == rounds - 1
             ws == Without(weeks, num, rounds)
             out == drawn \cup {weeks[num]}
         IN  /\ ws \in [Week -> Week]
             /\ \A i, j \in 0 .. left - 1 : i # j => ws[i] # ws[j]
             /\ \A i \in 0 .. left - 1 : ws[i] \notin out
             /\ \A w \in Week \ out : \E i \in 0 .. left - 1 : ws[i] = w
<1> DEFINE left == rounds - 1
           ws == Without(weeks, num, rounds)
           out == drawn \cup {weeks[num]}
<1>1. /\ weeks \in [Week -> Week] /\ rounds \in 1 .. Weeks /\ Weeks \in Nat
      /\ num \in 0 .. rounds - 1 /\ left \in Week
  <2>1. weeks \in [Week -> Week] /\ rounds \in 0 .. Weeks /\ rounds > 0
    BY DEF FairDraw, ScheduleTypeOK
  <2>2. Weeks \in Nat
    BY SeasonAssumption
  <2>3. num \in Nat
    BY <2>2 DEF Week
  <2> HIDE DEF ws, out
  <2> QED BY <2>1, <2>2, <2>3 DEF Week
<1>2. /\ ws \in [Week -> Week]
      /\ ws[num] = weeks[left]
      /\ \A i \in Week : i # num => ws[i] = weeks[i]
  BY <1>1 DEF Without
<1>3. \A i \in 0 .. left - 1 : i \in Week /\ i \in 0 .. rounds - 1 /\ i # left
  BY <1>1 DEF Week
<1>4. left \in 0 .. rounds - 1
  BY <1>1
<1>5. \A i, j \in 0 .. rounds - 1 : i # j => weeks[i] # weeks[j]
  BY DEF FairDraw
<1>6. \A i, j \in 0 .. left - 1 : i # j => ws[i] # ws[j]
  <2> TAKE i, j \in 0 .. left - 1
  <2> HAVE i # j
  <2>1. CASE i = num
    BY <1>2, <1>3, <1>4, <1>5, <2>1
  <2>2. CASE j = num
    BY <1>2, <1>3, <1>4, <1>5, <2>2
  <2>3. CASE i # num /\ j # num
    BY <1>2, <1>3, <1>5, <2>3
  <2> QED BY <2>1, <2>2, <2>3
<1>7. \A i \in 0 .. left - 1 : ws[i] \notin out
  <2> TAKE i \in 0 .. left - 1
  <2>1. CASE i = num
    BY <1>1, <1>2, <1>3, <1>4, <1>5, <2>1 DEF FairDraw
  <2>2. CASE i # num
    BY <1>1, <1>2, <1>3, <1>5, <2>2 DEF FairDraw
  <2> QED BY <2>1, <2>2
<1>8. \A w \in Week \ out : \E i \in 0 .. left - 1 : ws[i] = w
  <2> TAKE w \in Week \ out
  <2>1. PICK i \in 0 .. rounds - 1 : weeks[i] = w
    BY DEF FairDraw
  <2>2. i # num
    BY <2>1
  <2>3. CASE i = left
    <3>1. num \in 0 .. left - 1 /\ ws[num] = w
      BY <1>1, <1>2, <2>1, <2>2, <2>3
    <3> QED BY <3>1
  <2>4. CASE i # left
    <3>1. i \in 0 .. left - 1 /\ ws[i] = w
      BY <1>1, <1>2, <1>3, <2>1, <2>2, <2>4
    <3> QED BY <3>1
  <2> QED BY <2>3, <2>4
<1> QED BY <1>2, <1>6, <1>7, <1>8

LEMMA FairStep == FairDraw /\ [ScheduleNext]_sched_vars => FairDraw'
<1> SUFFICES ASSUME FairDraw, [ScheduleNext]_sched_vars PROVE FairDraw'
  OBVIOUS
<1>0. Weeks \in Nat \ {0} /\ NumSeries \in Nat
  BY SeasonAssumption
<1>1. ASSUME NEW num \in Week, Draw(num) PROVE FairDraw'
  <2> DEFINE w == weeks[num]
  <2>1. /\ planner = "draw" /\ num < rounds
        /\ times' = [times EXCEPT ![w] = @ + 1] /\ series' = series + 1
        /\ planner' = IF series + 1 >= NumSeries THEN "commit" ELSE "draw"
    BY <1>1 DEF Draw
  <2>2. /\ w \in Week \ drawn /\ times \in [Week -> Nat] /\ round \in Nat
        /\ drawn \subseteq Week
    <3>1. num \in 0 .. rounds - 1
      BY <1>0, <2>1 DEF FairDraw, Week
    <3>2. /\ weeks \in [Week -> Week] /\ times \in [Week -> Nat] /\ round \in Nat
          /\ drawn \subseteq Week
      BY DEF FairDraw, ScheduleTypeOK
    <3>3. weeks[num] \notin drawn
      BY <2>1, <3>1 DEF FairDraw
    <3> QED BY <3>2, <3>3
  <2>3. /\ times' \in [Week -> Nat] /\ times'[w] = round + 1
        /\ \A v \in Week : v # w => times'[v] = times[v]
    BY <2>1, <2>2 DEF FairDraw
  <2>4. /\ series' \in 0 .. NumSeries /\ series' \in Nat
        /\ planner' \in {"draw", "commit"}
        /\ planner' = "draw" => series' < NumSeries
        /\ planner' \in {"commit", "done"} => series' = NumSeries
    BY <1>0, <2>1 DEF FairDraw
  <2>5. CASE rounds > 1 \/ series + 1 >= NumSeries
    <3>1. /\ weeks' = Without(weeks, num, rounds) /\ rounds' = rounds - 1
          /\ drawn' = drawn \cup {w} /\ round' = round
      BY <1>1, <2>5 DEF Draw
    <3>2. /\ weeks' \in [Week -> Week]
          /\ \A i, j \in 0 .. rounds' - 1 : i # j => weeks'[i] # weeks'[j]
          /\ \A i \in 0 .. rounds' - 1 : weeks'[i] \notin drawn'
          /\ \A v \in Week \ drawn' : \E i \in 0 .. rounds' - 1 : weeks'[i] = v
      BY <2>1, <3>1, FairSwap
    <3>3. rounds' \in 0 .. Weeks /\ rounds' \in Nat /\ (planner' = "draw" => rounds' > 0)
      BY <1>0, <2>1, <2>5, <3>1 DEF FairDraw, ScheduleTypeOK
    <3>4. /\ \A v \in drawn' : times'[v] = round' + 1
          /\ \A v \in Week \ drawn' : times'[v] = round'
      BY <2>2, <2>3, <3>1 DEF FairDraw
    <3> QED BY <2>2, <2>3, <2>4, <3>1, <3>2, <3>3, <3>4 DEF FairDraw, ScheduleTypeOK
  <2>6. CASE ~(rounds > 1 \/ series + 1 >= NumSeries)
    <3>1. /\ weeks' = InOrder /\ rounds' = Weeks /\ drawn' = {} /\ round' = round + 1
          /\ rounds = 1
      BY <1>1, <2>1, <2>6 DEF Draw, FairDraw
    <3>2. \A v \in Week \ drawn : v = w
      BY <2>1, <3>1 DEF FairDraw, Week
    <3>3. \A v \in Week : times'[v] = round'
      BY <2>2, <2>3, <3>1, <3>2 DEF FairDraw
    <3>4. /\ weeks' \in [Week -> Week]
          /\ \A i \in Week : weeks'[i] = i
          /\ Week = 0 .. rounds' - 1
      BY <3>1 DEF InOrder, Week
    <3>5. /\ \A i, j \in 0 .. rounds' - 1 : i # j => weeks'[i] # weeks'[j]
          /\ \A i \in 0 .. rounds' - 1 : weeks'[i] \notin drawn'
          /\ \A v \in Week \ drawn' : \E i \in 0 .. rounds' - 1 : weeks'[i] = v
      BY <3>1, <3>4
    <3>6. /\ rounds' \in 0 .. Weeks /\ rounds' \in Nat /\ rounds' > 0
          /\ round' \in Nat
      BY <1>0, <2>2, <3>1
    <3>7. /\ \A v \in drawn' : times'[v] = round' + 1
          /\ \A v \in Week \ drawn' : times'[v] = round'
          /\ drawn' \subseteq Week
      BY <3>1, <3>3
    <3>8. ScheduleTypeOK'
      BY <2>3, <2>4, <3>4, <3>6, <3>7 DEF ScheduleTypeOK
    <3> QED BY <2>4, <3>5, <3>6, <3>7, <3>8 DEF FairDraw
  <2> QED BY <2>5, <2>6
<1>2. CASE ScheduleCommit
  BY <1>2 DEF ScheduleCommit, drawing, FairDraw, ScheduleTypeOK
<1>3. CASE ScheduleFails
  BY <1>3 DEF ScheduleFails, drawing, FairDraw, ScheduleTypeOK
<1>4. CASE UNCHANGED sched_vars
  BY <1>4 DEF sched_vars, schedule, drawing, FairDraw, ScheduleTypeOK
<1> QED BY <1>1, <1>2, <1>3, <1>4 DEF ScheduleNext

LEMMA FairKept == ScheduleSpec => []FairDraw
  BY FairInit, FairStep, PTL DEF ScheduleSpec, sched_vars

\* For every number of weeks and series: however the weeks of a round are
\* drawn from the shrinking array of generate_schedule, none is played twice
\* more than another.
THEOREM DrawIsEven == ScheduleSpec => []DrawnEvenly
<1>1. FairDraw => DrawnEvenly
  <2> SUFFICES ASSUME FairDraw, NEW v \in Week, NEW w \in Week
               PROVE times[v] <= times[w] + 1
    BY DEF DrawnEvenly
  <2>1. round \in Nat /\ times[v] \in {round, round + 1} /\ times[w] \in {round, round + 1}
    BY DEF FairDraw, ScheduleTypeOK
  <2> QED BY <2>1
<1> QED BY <1>1, FairKept, PTL
-----------------------------------------------------------------------------

\* The rows of a day are those of one week of the grid.
DayRows(S, d) == {r \in S : r.day = d}
WeekRows(d, w) ==
  {[day |-> d, home |-> TeamAt(g[1]), away |-> TeamAt(g[2])] : g \in schedule_grid[w]}
DayFits(S, d) == \E w \in Week : DayRows(S, d) = WeekRows(d, w)

\* The rows of the series drawn so far are those of days, and each of their
\* days is complete.
FullDays(S, n) ==
  /\ \A r \in S : r.day \in 1 .. n * GAMES_PER_SERIES
  /\ \A d \in 1 .. n * GAMES_PER_SERIES : DayFits(S, d)

CalendarInv ==
  /\ planner \in {"draw", "commit"} => FullDays(inserted, series)
  /\ planner \in {"draw", "commit", "failed"} => t_schedule = {}
  /\ planner = "done" => FullDays(t_schedule, NumSeries)

LEMMA CalendarInit == ScheduleInit => CalendarInv
<1>1. 0 * GAMES_PER_SERIES = 0
  BY SeasonAssumption
<1> QED BY <1>1, SeasonAssumption DEF ScheduleInit, CalendarInv, FullDays

\* One more series fills the days that follow, and leaves those before alone.
LEMMA SeriesFills ==
  ASSUME NEW S, NEW n \in Nat, NEW w \in Week, FullDays(S, n)
  PROVE  FullDays(S \cup SeriesRows(n, w), n + 1)
<1> DEFINE last == n * GAMES_PER_SERIES
           new == SeriesRows(n, w)
<1>1. /\ last \in Nat /\ GAMES_PER_SERIES \in Nat
      /\ (n + 1) * GAMES_PER_SERIES = last + GAMES_PER_SERIES
  <2>1. GAMES_PER_SERIES \in Nat
    BY SeasonAssumption
  <2> QED BY <2>1
<1>2. DaysOf(n) = last + 1 .. last + GAMES_PER_SERIES
  BY <1>1 DEF DaysOf
<1> HIDE DEF last
<1>3. /\ \A r \in S : r.day \in 1 .. last
      /\ \A d \in 1 .. last : DayFits(S, d)
  BY DEF FullDays, last
<1>4. \A r \in new : r.day \in last + 1 .. last + GAMES_PER_SERIES
  BY <1>2 DEF SeriesRows
<1>5. \A r \in S \cup new : r.day \in 1 .. last + GAMES_PER_SERIES
  BY <1>1, <1>3, <1>4
<1>6. \A d \in 1 .. last + GAMES_PER_SERIES : DayFits(S \cup new, d)
  <2> TAKE d \in 1 .. last + GAMES_PER_SERIES
  <2>1. CASE d \in 1 .. last
    <3>1. \A r \in new : r.day # d
      BY <1>1, <1>4, <2>1
    <3>2. DayRows(S \cup new, d) = DayRows(S, d)
      BY <3>1 DEF DayRows
    <3> QED BY <1>3, <2>1, <3>2 DEF DayFits
  <2>2. CASE d \in last + 1 .. last + GAMES_PER_SERIES
    <3>1. \A r \in S : r.day # d
      BY <1>1, <1>3, <2>2
    <3>2. DayRows(S \cup new, d) = DayRows(new, d)
      BY <3>1 DEF DayRows
    <3>3. DayRows(new, d) = WeekRows(d, w)
      BY <1>2, <2>2 DEF DayRows, WeekRows, SeriesRows
    <3> QED BY <3>2, <3>3 DEF DayFits
  <2> QED BY <1>1, <2>1, <2>2
<1> QED BY <1>1, <1>5, <1>6 DEF FullDays

LEMMA CalendarStep ==
  FairDraw /\ CalendarInv /\ [ScheduleNext]_sched_vars => CalendarInv'
<1> SUFFICES ASSUME FairDraw, CalendarInv, [ScheduleNext]_sched_vars PROVE CalendarInv'
  OBVIOUS
<1>1. ASSUME NEW num \in Week, Draw(num) PROVE CalendarInv'
  <2>1. /\ planner = "draw" /\ num < rounds /\ series' = series + 1
        /\ inserted' = inserted \cup SeriesRows(series, weeks[num])
        /\ planner' \in {"draw", "commit"} /\ t_schedule' = t_schedule
    BY <1>1 DEF Draw
  <2>2. series \in Nat /\ weeks[num] \in Week
    BY <1>1 DEF FairDraw, ScheduleTypeOK
  <2>3. FullDays(inserted', series')
    BY <2>1, <2>2, SeriesFills DEF CalendarInv
  <2> QED BY <2>1, <2>3 DEF CalendarInv
<1>2. CASE ScheduleCommit
  <2>1. /\ planner = "commit" /\ planner' = "done" /\ series = NumSeries
        /\ t_schedule = {} /\ FullDays(inserted, series)
        /\ t_schedule' = t_schedule \cup inserted
    BY <1>2 DEF ScheduleCommit, FairDraw, CalendarInv
  <2>2. t_schedule' = inserted
    BY <2>1
  <2>3. FullDays(t_schedule', NumSeries)
    BY <2>1, <2>2
  <2> QED BY <2>1, <2>3 DEF CalendarInv
<1>3. CASE ScheduleFails
  BY <1>3 DEF ScheduleFails, RolledBack, CalendarInv
<1>4. CASE UNCHANGED sched_vars
  BY <1>4 DEF sched_vars, schedule, CalendarInv
<1> QED BY <1>1, <1>2, <1>3, <1>4 DEF ScheduleNext

\* On a day that has the rows of a week of the grid, a team has one game.
LEMMA OneGame ==
  ASSUME NEW S, NEW d, NEW w \in Week, DayRows(S, d) = WeekRows(d, w), NEW t \in Team
  PROVE  \E r \in S : /\ r.day = d /\ Plays(t, r) /\ r.home # r.away
                      /\ \A q \in S : q.day = d /\ Plays(t, q) => q = r
<1> DEFINE Game(g) == [day |-> d, home |-> TeamAt(g[1]), away |-> TeamAt(g[2])]
<1>1. PICK i \in Index : TeamAt(i) = t
  BY SeasonAssumption
<1>2. /\ schedule_grid[w] \subseteq Index \X Index
      /\ \E g \in schedule_grid[w] :
           /\ i \in {g[1], g[2]} /\ g[1] # g[2]
           /\ \A h \in schedule_grid[w] : i \in {h[1], h[2]} => h = g
  BY <1>1, GridAssumption DEF GridFits
<1>3. PICK g \in schedule_grid[w] :
        /\ i \in {g[1], g[2]} /\ g[1] # g[2]
        /\ \A h \in schedule_grid[w] : i \in {h[1], h[2]} => h = g
  BY <1>2
<1>4. \A h \in schedule_grid[w] : h[1] \in Index /\ h[2] \in Index
  BY <1>2
<1>5. \A a, b \in Index : TeamAt(a) = TeamAt(b) => a = b
  BY SeasonAssumption
<1>6. Game(g) \in S /\ Game(g).day = d
  <2>1. Game(g) \in WeekRows(d, w)
    BY DEF WeekRows
  <2> QED BY <2>1 DEF DayRows
<1>7. Plays(t, Game(g)) /\ Game(g).home # Game(g).away
  BY <1>1, <1>3, <1>4, <1>5 DEF Plays
<1>8. ASSUME NEW q \in S, q.day = d, Plays(t, q) PROVE q = Game(g)
  <2>1. q \in WeekRows(d, w)
    BY <1>8 DEF DayRows
  <2>2. PICK h \in schedule_grid[w] : q = Game(h)
    BY <2>1 DEF WeekRows
  <2>3. TeamAt(h[1]) = t \/ TeamAt(h[2]) = t
    BY <1>8, <2>2 DEF Plays
  <2>4. i \in {h[1], h[2]}
    BY <1>1, <1>4, <1>5, <2>3
  <2> QED BY <1>3, <2>2, <2>4
<1> QED BY <1>6, <1>7, <1>8

\* For every number of teams, weeks, series and games of a series: the season
\* that generate_schedule commits gives every team one game on every day.
THEOREM CalendarIsComplete == ScheduleSpec => []EveryTeamPlaysDaily
<1>1. FairDraw /\ CalendarInv => EveryTeamPlaysDaily
  <2> SUFFICES ASSUME FairDraw, CalendarInv, t_schedule # {},
                      NEW d \in 1 .. NumSeries * GAMES_PER_SERIES, NEW t \in Team
               PROVE  \E r \in t_schedule :
                        /\ r.day = d /\ Plays(t, r) /\ r.home # r.away
                        /\ \A q \in t_schedule : q.day = d /\ Plays(t, q) => q = r
    BY DEF EveryTeamPlaysDaily
  <2>1. planner = "done"
    BY DEF FairDraw, ScheduleTypeOK, CalendarInv
  <2>2. PICK w \in Week : DayRows(t_schedule, d) = WeekRows(d, w)
    BY <2>1 DEF CalendarInv, FullDays, DayFits
  <2> QED BY <2>2, OneGame
<1>2. ScheduleSpec => []CalendarInv
  BY CalendarInit, CalendarStep, FairKept, PTL DEF ScheduleSpec, sched_vars
<1> QED BY <1>1, <1>2, FairKept, PTL

-----------------------------------------------------------------------------
(***************************************************************************)
(* The season that is played on it.                                        *)
(***************************************************************************)
GameRow == [day : Nat \ {0}, home : Team, away : Team]

RowsInv ==
  /\ inserted \subseteq GameRow /\ IsFiniteSet(inserted)
  /\ t_schedule \subseteq GameRow /\ IsFiniteSet(t_schedule)

\* The pipe and the two processes at its ends.  Nothing is ever between them
\* but the pipe; while the program plays, nobody sees the end of the file.
PipeInv ==
  /\ pc \in {"idle", "play", "evening", "commit", "wait", "exit", "broken"}
  /\ child \in {"none", "ready", "reading", "saved", "dead"}
  /\ child = "none" <=> pc = "idle"
  /\ pc # "idle" => planner \in {"done", "failed"}
  /\ todo \subseteq t_schedule
  /\ played \in Seq(GameRow) /\ pipe \in Seq(GameRow) /\ received \in Seq(GameRow)
  /\ received \o pipe = played
  /\ pc \in {"play", "evening", "commit"} => "parent" \in writers
  /\ child = "saved" =>
       /\ pc \in {"wait", "exit", "broken"}
       /\ stats = played /\ record = Last(played)

Before(d) == {r \in t_schedule : r.day < d}

\* The games so far are in order of days, none of them twice.
Ordered(games) ==
  \A i, j \in DOMAIN games :
    i < j => games[i] # games[j] /\ games[i].day <= games[j].day

Complete == pc \in {"commit", "wait"} \/ (pc = "exit" /\ rc = 0)

\* How far the season is: the games of the days before, those of the day that
\* are no longer to be played, and an evening for each of the days before.
ProgressInv ==
  /\ day \in 1 .. LastDay /\ rc \in {0, 1}
  /\ Ordered(played)
  /\ pc = "idle" => day = 1 /\ rc = 0 /\ turns = 0 /\ rotation = 0 /\ played = <<>>
  /\ pc \in {"play", "evening"} =>
       /\ rc = 0 /\ turns = day - 1 /\ rotation = 0
       /\ todo \subseteq select_schedule(day)
       /\ ToSet(played) = Before(day) \cup (select_schedule(day) \ todo)
  /\ pc = "evening" => todo = {}
  /\ pc = "commit" => rc = 0 /\ turns = LastDay /\ rotation = 0
  /\ pc = "wait" => rc = 0 /\ rotation = LastDay
  /\ Complete => ToSet(played) = {r \in t_schedule : r.day <= LastDay}
  /\ pc = "exit" /\ rc = 0 => rotation = LastDay
  /\ (pc = "exit" /\ rc = 1) \/ pc = "broken" => rotation = 0

-----------------------------------------------------------------------------
(* The calendar. *)

LEMMA PlannerAlone ==
  [Next]_vars => [ScheduleNext]_sched_vars
<1>1. Planner => ScheduleNext
  BY DEF Planner
<1>2. Program => UNCHANGED sched_vars
  BY DEF Program, Begin, Games, Play, Crash, Evening, Commit, Wait, season, sched_vars
<1>3. Child => UNCHANGED sched_vars
  BY DEF Child, ChildStart, Read, EndOfFile, season, sched_vars
<1>4. GiveUp \/ ChildFails \/ Over \/ UNCHANGED vars => UNCHANGED sched_vars
  BY DEF GiveUp, ChildFails, Over, vars, season, sched_vars
<1> QED BY <1>1, <1>2, <1>3, <1>4 DEF Next

LEMMA PlannedSeason == Spec => ScheduleSpec
<1>1. Init => ScheduleInit
  BY DEF Init
<1> QED BY <1>1, PlannerAlone, PTL DEF Spec, ScheduleSpec, sched_vars

LEMMA FiniteSeries ==
  ASSUME NEW s \in Nat, NEW w \in Week
  PROVE  SeriesRows(s, w) \subseteq GameRow /\ IsFiniteSet(SeriesRows(s, w))
<1> DEFINE Game(d, g) == [day |-> d, home |-> TeamAt(g[1]), away |-> TeamAt(g[2])]
           grid == schedule_grid[w]
           f == [x \in DaysOf(s) \X grid |-> Game(x[1], x[2])]
<1>1. SeriesRows(s, w) = {Game(d, g) : d \in DaysOf(s), g \in grid}
  BY DEF SeriesRows
<1>2. DaysOf(s) \subseteq Nat \ {0} /\ IsFiniteSet(DaysOf(s))
  <2>1. GAMES_PER_SERIES \in Nat /\ s * GAMES_PER_SERIES \in Nat
        /\ (s + 1) * GAMES_PER_SERIES \in Nat
    <3>1. GAMES_PER_SERIES \in Nat
      BY SeasonAssumption
    <3> QED BY <3>1
  <2> QED BY <2>1, FS_Interval DEF DaysOf
<1>3. grid \subseteq Index \X Index
  BY GridAssumption DEF GridFits
<1>4. Index = 0 .. Len(TeamIds) - 1 /\ Len(TeamIds) \in Nat /\ IsFiniteSet(Index)
  BY SeasonAssumption, FS_Interval DEF Index
<1>5. IsFiniteSet(grid)
  BY <1>3, <1>4, FS_Product, FS_Subset
<1>6. \A i \in Index : TeamAt(i) \in Team
  BY <1>4, SeasonAssumption DEF TeamAt
<1>7. \A d \in DaysOf(s), g \in grid : Game(d, g) \in GameRow
  BY <1>2, <1>3, <1>6 DEF GameRow
<1>8. f \in Surjection(DaysOf(s) \X grid, SeriesRows(s, w))
  <2>1. f \in [DaysOf(s) \X grid -> SeriesRows(s, w)]
    BY <1>1
  <2>2. \A r \in SeriesRows(s, w) : \E x \in DaysOf(s) \X grid : f[x] = r
    <3> TAKE r \in SeriesRows(s, w)
    <3>1. PICK d \in DaysOf(s), g \in grid : r = Game(d, g)
      BY <1>1
    <3>2. <<d, g>> \in DaysOf(s) \X grid /\ f[<<d, g>>] = r
      BY <3>1
    <3> QED BY <3>2
  <2> QED BY <2>1, <2>2 DEF Surjection
<1>9. IsFiniteSet(SeriesRows(s, w))
  <2>1. IsFiniteSet(DaysOf(s) \X grid)
    BY <1>2, <1>5, FS_Product
  <2> HIDE DEF f
  <2> QED BY <1>8, <2>1, FS_Surjection
<1> QED BY <1>1, <1>7, <1>9

LEMMA RowsStep == FairDraw /\ RowsInv /\ [ScheduleNext]_sched_vars => RowsInv'
<1> SUFFICES ASSUME FairDraw, RowsInv, [ScheduleNext]_sched_vars PROVE RowsInv'
  OBVIOUS
<1>1. ASSUME NEW num \in Week, Draw(num) PROVE RowsInv'
  <2>1. series \in Nat /\ weeks[num] \in Week
    BY DEF FairDraw, ScheduleTypeOK
  <2>2. /\ SeriesRows(series, weeks[num]) \subseteq GameRow
        /\ IsFiniteSet(SeriesRows(series, weeks[num]))
    BY <2>1, FiniteSeries
  <2> QED BY <1>1, <2>2, FS_Union DEF Draw, RowsInv
<1>2. CASE ScheduleCommit
  BY <1>2, FS_Union, FS_EmptySet DEF ScheduleCommit, RowsInv
<1>3. CASE ScheduleFails
  BY <1>3, FS_EmptySet DEF ScheduleFails, RolledBack, RowsInv
<1>4. CASE UNCHANGED sched_vars
  BY <1>4 DEF sched_vars, schedule, RowsInv
<1> QED BY <1>1, <1>2, <1>3, <1>4 DEF ScheduleNext

LEMMA RowsKept == Spec => []RowsInv
<1>1. Init => RowsInv
  BY FS_EmptySet DEF Init, ScheduleInit, RowsInv
<1>2. ScheduleSpec => []FairDraw
  BY FairKept
<1> QED BY <1>1, <1>2, PlannedSeason, PlannerAlone, RowsStep, PTL DEF Spec

-----------------------------------------------------------------------------
(* The pipe. *)

LEMMA PipeStarts == Init => PipeInv
  BY EmptySeq, ConcatEmptySeq DEF Init, PipeInv

\* Once the program has begun, the calendar stays as it is.
LEMMA CalendarRests ==
  ASSUME PipeInv, Planner PROVE pc = "idle" /\ UNCHANGED <<program, reader, writers, pipe, played>>
  BY DEF PipeInv, Planner, ScheduleNext, Draw, ScheduleCommit, ScheduleFails

\* Nothing is lost between what was written to the pipe and what was read.
LEMMA WrittenLast ==
  ASSUME NEW S, NEW s \in Seq(S), NEW t \in Seq(S), NEW x \in S
  PROVE  s \o Append(t, x) = Append(s \o t, x)
  OBVIOUS

LEMMA ReadFirst ==
  ASSUME NEW S, NEW s \in Seq(S), NEW t \in Seq(S), t # <<>>
  PROVE  Append(s, Head(t)) \o Tail(t) = s \o t
<1>1. Head(t) \in S /\ Tail(t) \in Seq(S) /\ t = <<Head(t)>> \o Tail(t) /\ <<Head(t)>> \in Seq(S)
  OBVIOUS
<1>2. Append(s, Head(t)) = s \o <<Head(t)>>
  BY <1>1, AppendIsConcat
<1>3. (s \o <<Head(t)>>) \o Tail(t) = s \o (<<Head(t)>> \o Tail(t))
  BY <1>1, ConcatAssociative
<1> QED BY <1>1, <1>2, <1>3, Zenon

LEMMA PipeStep == RowsInv /\ PipeInv /\ [Next]_vars => PipeInv'
<1> SUFFICES ASSUME RowsInv, PipeInv, [Next]_vars PROVE PipeInv'
  OBVIOUS
<1>1. CASE Planner
  <2>1. pc = "idle" /\ UNCHANGED <<program, reader, writers, pipe, played>>
    BY <1>1, CalendarRests
  <2>2. t_schedule \subseteq t_schedule'
    BY <1>1 DEF Planner, ScheduleNext, Draw, ScheduleCommit, ScheduleFails, RolledBack
  <2> QED BY <2>1, <2>2 DEF PipeInv, program, reader
<1>2. CASE Begin
  BY <1>2 DEF Begin, season, schedule, select_schedule, PipeInv
<1>3. ASSUME NEW row \in todo, NEW used \in SUBSET StaffOf(row), Play(row, used)
      PROVE  PipeInv'
  <2>1. row \in GameRow
    BY DEF RowsInv, PipeInv
  <2>2. pipe' = pipe \o <<row>> /\ played' = played \o <<row>> /\ <<row>> \in Seq(GameRow)
    <3>1. pipe' = Append(pipe, row) /\ played' = Append(played, row)
      BY <1>3 DEF Play
    <3> QED BY <2>1, <3>1, AppendIsConcat DEF PipeInv
  <2>3. pipe' \in Seq(GameRow) /\ played' \in Seq(GameRow)
    BY <2>2, ConcatProperties DEF PipeInv
  <2>4. received \o pipe' = played'
    <3>1. received \o pipe = played /\ received \in Seq(GameRow) /\ pipe \in Seq(GameRow)
      BY DEF PipeInv
    <3>2. pipe' = Append(pipe, row) /\ played' = Append(played, row)
      BY <1>3 DEF Play
    <3>3. received \o Append(pipe, row) = Append(received \o pipe, row)
      BY <2>1, <3>1, WrittenLast
    <3> QED BY <3>1, <3>2, <3>3, Zenon
  <2>5. /\ pc = "play" /\ pc' \in {"play", "evening"} /\ todo' \subseteq todo
        /\ UNCHANGED <<season, reader, writers>>
    BY <1>3 DEF Play, AfterGame
  <2> QED BY <2>3, <2>4, <2>5 DEF PipeInv, season, schedule, reader
<1>4. CASE GiveUp
  BY <1>4 DEF GiveUp, season, schedule, reader, PipeInv
<1>5. CASE Crash
  BY <1>5 DEF Crash, season, schedule, reader, PipeInv
<1>6. CASE Evening
  BY <1>6 DEF Evening, season, schedule, reader, select_schedule, PipeInv
<1>7. CASE Commit
  BY <1>7 DEF Commit, season, schedule, reader, PipeInv
<1>8. CASE Wait
  BY <1>8 DEF Wait, season, schedule, reader, PipeInv
<1>9. CASE ChildStart
  BY <1>9 DEF ChildStart, Inherited, season, schedule, program, PipeInv
<1>10. CASE Read
  <2>1. /\ child = "reading" /\ pipe # <<>>
        /\ received' = Append(received, Head(pipe)) /\ pipe' = Tail(pipe)
        /\ UNCHANGED <<season, program, child, stats, record, writers, played>>
    BY <1>10 DEF Read, Received
  <2>2. received \in Seq(GameRow) /\ pipe \in Seq(GameRow)
    BY DEF PipeInv
  <2>3. received' \in Seq(GameRow) /\ pipe' \in Seq(GameRow)
    BY <2>1, <2>2
  <2>4. received' \o pipe' = received \o pipe
    BY <2>1, <2>2, ReadFirst
  <2> QED BY <2>1, <2>2, <2>3, <2>4 DEF season, schedule, program, PipeInv
<1>11. CASE EndOfFile
  <2>1. /\ child = "reading" /\ pipe = <<>> /\ writers = {}
        /\ UNCHANGED <<season, program, received, writers, pipe, played>>
        /\ \/ child' = "saved" /\ stats' = received /\ record' = Last(received)
           \/ child' = "dead"
    BY <1>11 DEF EndOfFile, ResultOf
  <2>2. received = played
    BY <2>1, ConcatEmptySeq DEF PipeInv
  <2>3. pc \in {"wait", "exit", "broken"}
    BY <2>1 DEF PipeInv
  <2> QED BY <2>1, <2>2, <2>3 DEF season, schedule, program, PipeInv, Last
<1>12. CASE ChildFails
  BY <1>12 DEF ChildFails, season, schedule, program, PipeInv
<1>13. CASE Over \/ UNCHANGED vars
  BY <1>13 DEF Over, vars, season, schedule, program, reader, PipeInv, Last
<1> QED BY <1>1, <1>2, <1>3, <1>4, <1>5, <1>6, <1>7, <1>8, <1>9, <1>10, <1>11, <1>12,
           <1>13 DEF Next, Program, Games, Child

LEMMA PipeKept == Spec => []PipeInv
BY PipeStarts, PipeStep, RowsKept, PTL DEF Spec

\* A reader that saves has lost no game and kept their order, for any number
\* of games and any pipe, whether the season was finished or given up.
THEOREM ReaderLosesNothing == Spec => []NothingLost
<1>1. PipeInv => NothingLost
  BY DEF PipeInv, NothingLost
<1> QED BY <1>1, PipeKept, PTL

-----------------------------------------------------------------------------
(* The progress of the season. *)

\* The games a sequence holds after one more.
LEMMA OneMoreGame ==
  ASSUME NEW S, NEW games \in Seq(S), NEW row \in S
  PROVE  ToSet(Append(games, row)) = ToSet(games) \cup {row}
<1> DEFINE more == Append(games, row)
<1>1. /\ Len(games) \in Nat /\ DOMAIN games = 1 .. Len(games)
      /\ DOMAIN more = 1 .. Len(games) + 1
      /\ more[Len(games) + 1] = row
      /\ \A i \in 1 .. Len(games) : more[i] = games[i]
  OBVIOUS
<1>2. 1 .. Len(games) + 1 = (1 .. Len(games)) \cup {Len(games) + 1}
  BY <1>1
<1> HIDE DEF more
<1>3. {more[i] : i \in DOMAIN more} = {games[i] : i \in DOMAIN games} \cup {row}
  BY <1>1, <1>2
<1> QED BY <1>3 DEF ToSet, more

LEMMA ProgressStarts == Init => ProgressInv
  BY FastAssumption DEF Init, ProgressInv, Ordered, Complete

LEMMA ProgressStep ==
  RowsInv /\ PipeInv /\ ProgressInv /\ [Next]_vars => ProgressInv'
<1> SUFFICES ASSUME RowsInv, PipeInv, ProgressInv, [Next]_vars PROVE ProgressInv'
  OBVIOUS
<1>0. LastDay \in Nat /\ 1 \in 1 .. LastDay
  <2>1. NumSeries \in Nat /\ GAMES_PER_SERIES \in Nat
    BY SeasonAssumption
  <2>2. NumSeries * GAMES_PER_SERIES \in Nat
    BY <2>1
  <2> QED BY <2>2, FastAssumption
<1>1. CASE Planner
  BY <1>1, CalendarRests DEF ProgressInv, Ordered, Complete, program
<1>2. CASE Begin
  <2>1. /\ pc = "idle" /\ pc' = "play" /\ todo' = select_schedule(1)
        /\ UNCHANGED <<day, rc, turns, rotation, played, t_schedule>>
    BY <1>2 DEF Begin, season, schedule
  <2>2. Before(1) = {} /\ ToSet(<<>>) = {}
    BY DEF Before, RowsInv, GameRow, ToSet
  <2> QED BY <2>1, <2>2 DEF ProgressInv, Ordered, Complete, Before, select_schedule
<1>3. ASSUME NEW row \in todo, NEW used \in SUBSET StaffOf(row), Play(row, used)
      PROVE  ProgressInv'
  <2>1. /\ pc = "play" /\ played' = Append(played, row) /\ todo' = todo \ {row}
        /\ pc' = AfterGame /\ UNCHANGED <<t_schedule, day, rc, turns, rotation>>
    BY <1>3 DEF Play, season, schedule
  <2>2. /\ rc = 0 /\ turns = day - 1 /\ rotation = 0 /\ todo \subseteq select_schedule(day)
        /\ ToSet(played) = Before(day) \cup (select_schedule(day) \ todo)
        /\ day \in 1 .. LastDay /\ Ordered(played)
    BY <2>1 DEF ProgressInv
  <2>3. /\ row \in GameRow /\ played \in Seq(GameRow) /\ t_schedule \subseteq GameRow
        /\ row \in t_schedule /\ row.day = day
    BY <2>2 DEF PipeInv, RowsInv, select_schedule
  <2>4. ToSet(played') = ToSet(played) \cup {row}
    BY <2>1, <2>3, OneMoreGame
  <2>5. ToSet(played') = Before(day) \cup (select_schedule(day) \ todo')
    BY <2>1, <2>2, <2>3, <2>4 DEF select_schedule
  <2>6. \A g \in ToSet(played) : g.day <= day /\ g # row
    BY <2>2, <2>3 DEF Before, select_schedule, GameRow
  <2>7. Ordered(played')
    <3>1. /\ Len(played) \in Nat /\ DOMAIN played = 1 .. Len(played)
          /\ DOMAIN played' = 1 .. Len(played) + 1
          /\ played'[Len(played) + 1] = row
          /\ \A i \in 1 .. Len(played) : played'[i] = played[i]
      BY <2>1, <2>3
    <3>2. \A i \in 1 .. Len(played) : played[i] \in ToSet(played)
      BY <3>1 DEF ToSet
    <3>3. \A i \in 1 .. Len(played) : played[i].day <= row.day /\ played[i] # row
      BY <2>3, <2>6, <3>2
    <3> SUFFICES ASSUME NEW i \in 1 .. Len(played) + 1, NEW j \in 1 .. Len(played) + 1, i < j
                 PROVE  played'[i] # played'[j] /\ played'[i].day <= played'[j].day
      BY <3>1 DEF Ordered
    <3>4. i \in 1 .. Len(played)
      BY <3>1
    <3>5. CASE j = Len(played) + 1
      BY <3>1, <3>3, <3>4, <3>5
    <3>6. CASE j \in 1 .. Len(played)
      BY <2>2, <3>1, <3>4, <3>6 DEF Ordered
    <3> QED BY <3>1, <3>5, <3>6
  <2>8. pc' = "evening" => todo' = {}
    <3> SUFFICES ASSUME pc' = "evening" PROVE todo' = {}
      OBVIOUS
    <3>1. Cardinality(todo) = 1
      BY <2>1 DEF AfterGame
    <3>2. IsFiniteSet(todo)
      BY FS_Subset DEF RowsInv, PipeInv
    <3>3. \E x : todo = {x}
      BY <3>1, <3>2, FS_Singleton
    <3> QED BY <2>1, <3>3
  <2>9. pc' \in {"play", "evening"} /\ todo' \subseteq select_schedule(day)
    BY <2>1, <2>2 DEF AfterGame
  <2> QED BY <2>1, <2>2, <2>5, <2>7, <2>8, <2>9
          DEF ProgressInv, Complete, Before, select_schedule
<1>4. CASE GiveUp
  BY <1>4 DEF GiveUp, season, schedule, ProgressInv, Ordered, Complete
<1>5. CASE Crash
  BY <1>5 DEF Crash, season, schedule, ProgressInv, Ordered, Complete
<1>6. CASE Evening
  <2>1. /\ pc = "evening" /\ todo = {} /\ turns' = turns + 1
        /\ UNCHANGED <<t_schedule, played, rc, rotation>>
    BY <1>6 DEF Evening, season, schedule, ProgressInv
  <2>2. /\ rc = 0 /\ turns = day - 1 /\ rotation = 0 /\ day \in 1 .. LastDay
        /\ ToSet(played) = Before(day) \cup select_schedule(day)
        /\ Ordered(played)
    BY <2>1 DEF ProgressInv
  <2>3. \A r \in t_schedule : r.day \in Nat
    BY DEF RowsInv, GameRow
  <2>4. ToSet(played) = Before(day + 1)
    BY <2>2, <2>3 DEF Before, select_schedule
  <2>5. ToSet(played) = {r \in t_schedule : r.day <= day}
    BY <2>2, <2>3 DEF Before, select_schedule
  <2>6. CASE day < LastDay
    <3>1. pc' = "play" /\ day' = day + 1 /\ todo' = select_schedule(day + 1)
      BY <1>6, <2>6 DEF Evening
    <3>2. day + 1 \in 1 .. LastDay /\ turns' = (day + 1) - 1
      BY <1>0, <2>1, <2>2, <2>6
    <3> QED BY <2>1, <2>2, <2>4, <3>1, <3>2
            DEF ProgressInv, Ordered, Complete, Before, select_schedule
  <2>7. CASE ~(day < LastDay)
    <3>1. pc' = "commit" /\ day' = day
      BY <1>6, <2>7 DEF Evening
    <3>2. day = LastDay /\ turns' = LastDay
      BY <1>0, <2>1, <2>2, <2>7
    <3> QED BY <2>1, <2>2, <2>5, <3>1, <3>2 DEF ProgressInv, Ordered, Complete
  <2> QED BY <2>6, <2>7
<1>7. CASE Commit
  BY <1>7 DEF Commit, season, schedule, ProgressInv, Ordered, Complete
<1>8. CASE Wait
  BY <1>8 DEF Wait, season, schedule, ProgressInv, Ordered, Complete
<1>9. CASE UNCHANGED <<season, program, played>>
  BY <1>9 DEF season, schedule, program, ProgressInv, Ordered, Complete,
              Before, select_schedule
<1>10. CASE Child \/ ChildFails \/ Over \/ UNCHANGED vars
  BY <1>9, <1>10 DEF Child, ChildStart, Read, EndOfFile, ChildFails, Over, vars
<1> QED BY <1>1, <1>2, <1>3, <1>4, <1>5, <1>6, <1>7, <1>8, <1>10 DEF Next, Program, Games

\* For seasons of any length: a program that succeeds has played the whole
\* calendar in order and has turned the rotation once a day; one that does not
\* has left the rotation as it was.
THEOREM AllOrNothing == Spec => []SeasonOrNothing
<1>1. ProgressInv => SeasonOrNothing
  BY DEF ProgressInv, SeasonOrNothing, Ordered, Complete
<1>2. Spec => []ProgressInv
  BY ProgressStarts, ProgressStep, RowsKept, PipeKept, PTL DEF Spec
<1> QED BY <1>1, <1>2, PTL

\* The calendar the fast season is played on: no week of the grid is played
\* twice more than another.
THEOREM SeasonDrawIsEven == Spec => []DrawnEvenly
BY PlannedSeason, DrawIsEven, PTL

\* And every team has one game on every day of it.
THEOREM SeasonIsComplete == Spec => []EveryTeamPlaysDaily
BY PlannedSeason, CalendarIsComplete, PTL

(***************************************************************************)
(* The pitchers in the skill hash.                                         *)
(***************************************************************************)

Skills == [left : Nat, tired : BOOLEAN]
Entries == [key : Pitcher, value : Skills]
Buckets == 0 .. HashCapacity - 1

\* A hash of skills, and one that answers for a pitcher.
Table(h) ==
  /\ h = [capacity |-> HashCapacity, items |-> h.items]
  /\ h.items \in [Buckets -> Seq(Entries)]
Has(h, p) == Matches(h, p) # {}
AllIn(h) == Table(h) /\ \A p \in Pitcher : Has(h, p)

\* A set of natural numbers that is not empty has a least one.
LEMMA LeastOf ==
  ASSUME NEW S \in SUBSET Nat, S # {}
  PROVE  Min(S) \in S /\ \A k \in S : Min(S) <= k
<1>1. PICK m \in S : \A k \in S : ~(<<k, m>> \in OpToRel(<, Nat))
  BY NatLessThanWellFounded, WFMin
<1>2. \A k \in S : ~(k < m)
  BY <1>1 DEF OpToRel
<1>3. \A k \in S : m <= k
  BY <1>2
<1> QED BY <1>3 DEF Min

LEMMA LeastIs ==
  ASSUME NEW S \in SUBSET Nat, NEW m \in S, \A k \in S : m <= k
  PROVE  Min(S) = m
<1>1. PICK n : n = Min(S) /\ n \in S /\ \A k \in S : n <= k
  BY LeastOf
<1> QED BY <1>1

LEMMA BucketOf ==
  ASSUME NEW h, Table(h), NEW p \in Pitcher
  PROVE  /\ simple_hash(h, p) \in Buckets /\ h.items[simple_hash(h, p)] \in Seq(Entries)
         /\ simple_hash(h, p) = p % HashCapacity
<1>1. p \in Nat /\ HashCapacity \in Nat \ {0}
  BY FastAssumption
<1>2. h.capacity = HashCapacity
  BY DEF Table
<1>3. p % HashCapacity \in 0 .. HashCapacity - 1
  BY <1>1
<1> QED BY <1>2, <1>3 DEF Table, simple_hash, Buckets

\* What a hash has for a pitcher is in the first of his entries.
LEMMA Found ==
  ASSUME NEW h, Table(h), NEW p \in Pitcher, Has(h, p)
  PROVE  LET bucket == h.items[p % HashCapacity]
             i == Min(Matches(h, p))
         IN  /\ i \in 1 .. Len(bucket) /\ bucket[i].key = p
             /\ \A k \in 1 .. Len(bucket) : bucket[k].key = p => i <= k
             /\ HashGetValue(h, p) = bucket[i].value /\ HashGetValue(h, p) \in Skills
<1> DEFINE bucket == h.items[p % HashCapacity]
           S == Matches(h, p)
<1>1. bucket \in Seq(Entries) /\ simple_hash(h, p) = p % HashCapacity
  BY BucketOf
<1>2. S = {i \in 1 .. Len(bucket) : bucket[i].key = p} /\ S # {}
  BY <1>1 DEF Matches, Has
<1>3. HashGetValue(h, p) = bucket[Min(S)].value
  BY <1>1, <1>2 DEF HashGetValue
<1> HIDE DEF S, bucket
<1>4. Min(S) \in S /\ \A k \in S : Min(S) <= k
  <2>1. S \in SUBSET Nat
    BY <1>2
  <2> QED BY <1>2, <2>1, LeastOf
<1>5. Min(S) \in 1 .. Len(bucket) /\ bucket[Min(S)].key = p
      /\ \A k \in 1 .. Len(bucket) : bucket[k].key = p => Min(S) <= k
  BY <1>2, <1>4
<1>6. bucket[Min(S)] \in Entries
  BY <1>1, <1>5
<1>7. bucket[Min(S)].value \in Skills
  BY <1>6 DEF Entries
<1> QED BY <1>3, <1>5, <1>7 DEF S, bucket

\* ... and is there when an entry is, and no entry before it.
LEMMA FoundAt ==
  ASSUME NEW h, Table(h), NEW p \in Pitcher,
         NEW i \in 1 .. Len(h.items[p % HashCapacity]),
         h.items[p % HashCapacity][i].key = p,
         \A k \in 1 .. Len(h.items[p % HashCapacity]) :
           h.items[p % HashCapacity][k].key = p => i <= k
  PROVE  Has(h, p) /\ HashGetValue(h, p) = h.items[p % HashCapacity][i].value
<1> DEFINE bucket == h.items[p % HashCapacity]
           S == Matches(h, p)
<1>1. bucket \in Seq(Entries) /\ simple_hash(h, p) = p % HashCapacity
  BY BucketOf
<1>2. S = {k \in 1 .. Len(bucket) : bucket[k].key = p}
  BY <1>1 DEF Matches
<1>3. i \in S /\ S \in SUBSET Nat /\ \A k \in S : i <= k
  BY <1>2
<1> HIDE DEF S
<1>4. Min(S) = i
  BY <1>3, LeastIs
<1> QED BY <1>1, <1>3, <1>4 DEF HashGetValue, Has, S

\* Who is in the bucket.
LEMMA HasEntry ==
  ASSUME NEW h, Table(h), NEW p \in Pitcher
  PROVE  Has(h, p) <=> \E i \in 1 .. Len(h.items[p % HashCapacity]) :
                         h.items[p % HashCapacity][i].key = p
<1>1. h.items[p % HashCapacity] \in Seq(Entries) /\ simple_hash(h, p) = p % HashCapacity
  BY BucketOf
<1> QED BY <1>1 DEF Has, Matches

\* Hash_add: the new entry answers if there was none, and changes no answer.
LEMMA Added ==
  ASSUME NEW h, Table(h), NEW p \in Pitcher, NEW v \in Skills, ~Has(h, p)
  PROVE  LET new == HashAddKey(h, p, v)
         IN  /\ Table(new) /\ Has(new, p) /\ HashGetValue(new, p) = v
             /\ \A q \in Pitcher : q # p =>
                  /\ Has(new, q) <=> Has(h, q)
                  /\ Has(h, q) => HashGetValue(new, q) = HashGetValue(h, q)
<1> DEFINE b == p % HashCapacity
           entry == [key |-> p, value |-> v]
           bucket == h.items[b]
           new == HashAddKey(h, p, v)
<1>1. b \in Buckets /\ bucket \in Seq(Entries) /\ simple_hash(h, p) = b
  BY BucketOf
<1>2. entry \in Entries /\ entry.key = p /\ entry.value = v
  BY DEF Entries
<1>3. new = [capacity |-> HashCapacity, items |-> [h.items EXCEPT ![b] = Append(bucket, entry)]]
  <2>1. new = [h EXCEPT !.items[b] = Append(@, entry)]
    BY <1>1 DEF HashAddKey
  <2>2. new = [h EXCEPT !.items = [h.items EXCEPT ![b] = Append(bucket, entry)]]
    BY <2>1
  <2>3. h = [capacity |-> HashCapacity, items |-> h.items]
    BY DEF Table
  <2> DEFINE t == [h.items EXCEPT ![b] = Append(bucket, entry)]
  <2> HIDE DEF t
  <2>4. new = [h EXCEPT !.items = t]
    BY <2>2 DEF t
  <2>5. new = [capacity |-> HashCapacity, items |-> t]
    BY <2>3, <2>4
  <2> QED BY <2>5 DEF t
<1> HIDE DEF b, entry, bucket, new
<1>4. Append(bucket, entry) \in Seq(Entries) /\ Len(Append(bucket, entry)) = Len(bucket) + 1
      /\ Append(bucket, entry)[Len(bucket) + 1] = entry /\ Len(bucket) \in Nat
      /\ \A i \in 1 .. Len(bucket) : Append(bucket, entry)[i] = bucket[i]
  BY <1>1, <1>2
<1>5. Table(new) /\ new.items[b] = Append(bucket, entry)
      /\ \A c \in Buckets : c # b => new.items[c] = h.items[c]
  BY <1>1, <1>3, <1>4 DEF Table
<1>6. \A i \in 1 .. Len(bucket) : bucket[i].key # p
  BY HasEntry DEF b, bucket
<1>7. Has(new, p) /\ HashGetValue(new, p) = v
  <2> DEFINE i == Len(bucket) + 1
  <2>1. i \in 1 .. Len(new.items[b]) /\ new.items[b][i] = entry
    BY <1>4, <1>5
  <2>2. \A k \in 1 .. Len(new.items[b]) : new.items[b][k].key = p => i <= k
    BY <1>4, <1>5, <1>6
  <2>3. new.items[b][i].key = p /\ new.items[b][i].value = v
    BY <1>2, <2>1
  <2> HIDE DEF i
  <2> QED BY <1>5, <2>1, <2>2, <2>3, FoundAt DEF b
<1>8. ASSUME NEW q \in Pitcher, q # p
      PROVE  /\ Has(new, q) <=> Has(h, q)
             /\ Has(h, q) => HashGetValue(new, q) = HashGetValue(h, q)
  <2> DEFINE c == q % HashCapacity
  <2>1. c \in Buckets
    BY BucketOf
  <2>2. /\ \A i \in 1 .. Len(h.items[c]) : /\ i \in 1 .. Len(new.items[c])
                                           /\ new.items[c][i] = h.items[c][i]
        /\ \A i \in 1 .. Len(new.items[c]) :
             new.items[c][i].key = q =>
               i \in 1 .. Len(h.items[c]) /\ new.items[c][i] = h.items[c][i]
    <3>1. CASE c # b
      BY <1>5, <2>1, <3>1
    <3>2. CASE c = b
      <4>1. h.items[c] = bucket /\ new.items[c] = Append(bucket, entry)
        BY <1>5, <3>2 DEF bucket
      <4> QED BY <1>2, <1>4, <1>8, <4>1
    <3> QED BY <3>1, <3>2
  <2>3. Has(new, q) <=> Has(h, q)
    <3>1. Has(new, q) <=> \E i \in 1 .. Len(new.items[c]) : new.items[c][i].key = q
      BY <1>5, HasEntry
    <3>2. Has(h, q) <=> \E i \in 1 .. Len(h.items[c]) : h.items[c][i].key = q
      BY HasEntry
    <3> QED BY <2>2, <3>1, <3>2
  <2>4. ASSUME Has(h, q) PROVE HashGetValue(new, q) = HashGetValue(h, q)
    <3> DEFINE i == Min(Matches(h, q))
    <3>1. /\ i \in 1 .. Len(h.items[c]) /\ h.items[c][i].key = q
          /\ \A k \in 1 .. Len(h.items[c]) : h.items[c][k].key = q => i <= k
          /\ HashGetValue(h, q) = h.items[c][i].value
      BY <2>4, Found
    <3> HIDE DEF i
    <3>2. /\ i \in 1 .. Len(new.items[c]) /\ new.items[c][i].key = q
          /\ \A k \in 1 .. Len(new.items[c]) : new.items[c][k].key = q => i <= k
          /\ new.items[c][i].value = h.items[c][i].value
      BY <2>2, <3>1
    <3>3. HashGetValue(new, q) = new.items[c][i].value
      BY <1>5, <3>2, FoundAt
    <3> QED BY <3>1, <3>2, <3>3
  <2> QED BY <2>3, <2>4
<1> QED BY <1>5, <1>7, <1>8 DEF new

\* A hash whose entries are those of another one, with some values changed.
SameKeys(h, new) ==
  \A b \in Buckets : /\ Len(new.items[b]) = Len(h.items[b])
                     /\ \A i \in 1 .. Len(h.items[b]) : new.items[b][i].key = h.items[b][i].key

\* It answers for the same pitchers, from the same entries.
LEMMA SameAnswer ==
  ASSUME NEW h, NEW new, Table(h), Table(new), SameKeys(h, new), NEW p \in Pitcher
  PROVE  /\ Has(new, p) <=> Has(h, p)
         /\ Has(h, p) =>
              LET i == Min(Matches(h, p))
              IN  /\ i \in 1 .. Len(h.items[p % HashCapacity])
                  /\ HashGetValue(h, p) = h.items[p % HashCapacity][i].value
                  /\ HashGetValue(new, p) = new.items[p % HashCapacity][i].value
<1> DEFINE c == p % HashCapacity
           i == Min(Matches(h, p))
<1>1. /\ c \in Buckets /\ Len(new.items[c]) = Len(h.items[c])
      /\ \A k \in 1 .. Len(h.items[c]) : new.items[c][k].key = h.items[c][k].key
  BY BucketOf DEF SameKeys
<1>2. Has(new, p) <=> \E k \in 1 .. Len(new.items[c]) : new.items[c][k].key = p
  BY HasEntry
<1>3. Has(h, p) <=> \E k \in 1 .. Len(h.items[c]) : h.items[c][k].key = p
  BY HasEntry
<1>4. ASSUME Has(h, p)
      PROVE  /\ i \in 1 .. Len(h.items[c]) /\ HashGetValue(h, p) = h.items[c][i].value
             /\ HashGetValue(new, p) = new.items[c][i].value
  <2>1. /\ i \in 1 .. Len(h.items[c]) /\ h.items[c][i].key = p
        /\ \A k \in 1 .. Len(h.items[c]) : h.items[c][k].key = p => i <= k
        /\ HashGetValue(h, p) = h.items[c][i].value
    BY <1>4, Found
  <2> HIDE DEF i
  <2>2. /\ i \in 1 .. Len(new.items[c]) /\ new.items[c][i].key = p
        /\ \A k \in 1 .. Len(new.items[c]) : new.items[c][k].key = p => i <= k
    BY <1>1, <2>1
  <2> QED BY <2>1, <2>2, FoundAt
<1> QED BY <1>1, <1>2, <1>3, <1>4

\* Hash_set_value: whoever is there has the new value, the others theirs.
LEMMA ValueSet ==
  ASSUME NEW h, AllIn(h), NEW p \in Pitcher, NEW v \in Skills
  PROVE  LET new == HashSetValue(h, p, v)
         IN  /\ AllIn(new) /\ HashGetValue(new, p) = v
             /\ \A q \in Pitcher : q # p => HashGetValue(new, q) = HashGetValue(h, q)
<1> DEFINE b == p % HashCapacity
           bucket == h.items[b]
           m == Min(Matches(h, p))
           entry == [bucket[m] EXCEPT !.value = v]
           items == [h.items EXCEPT ![b] = [bucket EXCEPT ![m] = entry]]
           new == HashSetValue(h, p, v)
<1>1. Table(h) /\ Has(h, p)
  BY DEF AllIn
<1>2. b \in Buckets /\ bucket \in Seq(Entries) /\ simple_hash(h, p) = b
  BY <1>1, BucketOf
<1>3. m \in 1 .. Len(bucket) /\ bucket[m].key = p
  BY <1>1, Found
<1>4. entry \in Entries /\ entry.key = p /\ entry.value = v
  <2>1. bucket[m] \in Entries
    BY <1>2, <1>3
  <2> HIDE DEF bucket, m
  <2> QED BY <1>3, <2>1 DEF Entries
<1>5. new = [capacity |-> HashCapacity, items |-> items]
  <2>1. new = [h EXCEPT !.items[b][m].value = v]
    BY <1>1, <1>2 DEF HashSetValue, Has
  <2>2. new = [h EXCEPT !.items = items]
    BY <2>1
  <2>3. h = [capacity |-> HashCapacity, items |-> h.items]
    BY <1>1 DEF Table
  <2> HIDE DEF items, new
  <2> QED BY <2>2, <2>3
<1> HIDE DEF b, entry, m, new
<1>6. /\ [bucket EXCEPT ![m] = entry] \in Seq(Entries)
      /\ Len([bucket EXCEPT ![m] = entry]) = Len(bucket)
      /\ [bucket EXCEPT ![m] = entry][m] = entry
      /\ \A i \in 1 .. Len(bucket) : i # m => [bucket EXCEPT ![m] = entry][i] = bucket[i]
  BY <1>2, <1>3, <1>4
<1> DEFINE changed == [bucket EXCEPT ![m] = entry]
<1>7. items[b] = changed /\ items \in [Buckets -> Seq(Entries)]
      /\ \A c \in Buckets : c # b => items[c] = h.items[c]
  BY <1>1, <1>2, <1>6 DEF Table
<1> HIDE DEF changed
<1>8. changed[m] = entry /\ \A i \in 1 .. Len(bucket) : i # m => changed[i] = bucket[i]
  BY <1>6 DEF changed
<1>9. Len(changed) = Len(bucket)
  BY <1>6 DEF changed
<1> HIDE DEF items
<1>10. new.items = items /\ Table(new)
  BY <1>5, <1>7 DEF Table
<1>11. SameKeys(h, new)
  <2> SUFFICES ASSUME NEW c \in Buckets
               PROVE  /\ Len(items[c]) = Len(h.items[c])
                      /\ \A i \in 1 .. Len(h.items[c]) : items[c][i].key = h.items[c][i].key
    BY <1>10 DEF SameKeys
  <2>1. CASE c = b
    BY <1>3, <1>4, <1>7, <1>8, <1>9, <2>1
  <2>2. CASE c # b
    BY <1>7, <2>2
  <2> QED BY <2>1, <2>2
<1>12. AllIn(new)
  BY <1>1, <1>10, <1>11, SameAnswer DEF AllIn
<1>13. HashGetValue(new, p) = v
  <2>1. HashGetValue(new, p) = items[b][m].value
    BY <1>1, <1>10, <1>11, SameAnswer DEF b, m
  <2> QED BY <1>4, <1>7, <1>8, <2>1
<1>14. ASSUME NEW q \in Pitcher, q # p PROVE HashGetValue(new, q) = HashGetValue(h, q)
  <2> DEFINE c == q % HashCapacity
             i == Min(Matches(h, q))
  <2>1. /\ i \in 1 .. Len(h.items[c]) /\ h.items[c][i].key = q
        /\ HashGetValue(h, q) = h.items[c][i].value
    BY <1>1, Found DEF AllIn
  <2>2. HashGetValue(new, q) = items[c][i].value
    BY <1>1, <1>10, <1>11, SameAnswer DEF AllIn
  <2>3. c \in Buckets
    BY <1>1, BucketOf
  <2> HIDE DEF c, i
  <2>4. items[c][i] = h.items[c][i]
    <3>1. CASE c = b
      <4>1. i # m
        BY <1>3, <1>14, <2>1, <3>1
      <4> QED BY <1>7, <1>8, <2>1, <3>1, <4>1
    <3>2. CASE c # b
      BY <1>7, <2>3, <3>2
    <3> QED BY <3>1, <3>2
  <2> QED BY <2>1, <2>2, <2>4
<1> QED BY <1>12, <1>13, <1>14 DEF new

\* Of a tired pitcher nothing is left.
Left(skill) == IF skill.tired THEN 0 ELSE skill.left

LEMMA RestBounds ==
  ASSUME NEW p \in Pitcher, NEW skill \in Skills
  PROVE  /\ RestSkill(p, skill) \in Skills
         /\ RestSkill(p, skill).left = Staff!Rested(p, Left(skill))
         /\ Left(RestSkill(p, skill)) = RestSkill(p, skill).left
         /\ RestSkill(p, skill).left <= MaxBatters[p]
<1>1. MaxBatters[p] \in Nat \ {0} /\ skill.left \in Nat /\ skill.tired \in BOOLEAN
  BY FastAssumption DEF Skills
<1>2. Left(skill) \in Nat
  BY <1>1 DEF Left
<1>3. PICK n \in Nat : n = Left(skill) + (MaxBatters[p] + 3) \div 4
  BY <1>1, <1>2
<1>4. PICK l \in Nat : l = (IF MaxBatters[p] <= n THEN MaxBatters[p] ELSE n) /\ l <= MaxBatters[p]
  BY <1>1
<1>5. Min({MaxBatters[p], n}) = l
  <2>1. {MaxBatters[p], n} \in SUBSET Nat /\ l \in {MaxBatters[p], n}
        /\ \A k \in {MaxBatters[p], n} : l <= k
    BY <1>1, <1>4
  <2> QED BY <2>1, LeastIs
<1>6. RestSkill(p, skill) = [left |-> l, tired |-> FALSE]
  BY <1>3, <1>5 DEF RestSkill, Left
<1>7. Staff!Rested(p, Left(skill)) = l
  <2>1. Staff!Rested(p, Left(skill)) = Staff!Min({MaxBatters[p], n})
    BY <1>3 DEF Staff!Rested, Staff!DailyRest
  <2> QED BY <1>5, <2>1 DEF Staff!Min, Min
<1> QED BY <1>4, <1>6, <1>7 DEF Skills, Left

\* A walk over all the lists.
LEMMA AllRested ==
  ASSUME NEW h, AllIn(h)
  PROVE  LET new == HashMap(h, RestSkill)
         IN  /\ AllIn(new)
             /\ \A p \in Pitcher : HashGetValue(new, p) = RestSkill(p, HashGetValue(h, p))
<1> DEFINE Pair(e) == [key |-> e.key, value |-> RestSkill(e.key, e.value)]
           items == [b \in Buckets |-> [i \in DOMAIN h.items[b] |-> Pair(h.items[b][i])]]
           new == HashMap(h, RestSkill)
<1>1. Table(h) /\ DOMAIN h.items = Buckets
  BY DEF AllIn, Table
<1>2. new = [capacity |-> HashCapacity, items |-> items]
  <2>1. new = [h EXCEPT !.items = items]
    BY <1>1 DEF HashMap
  <2>2. h = [capacity |-> HashCapacity, items |-> h.items]
    BY <1>1 DEF Table
  <2> HIDE DEF items, new
  <2> QED BY <2>1, <2>2
<1>3. \A e \in Entries : Pair(e) \in Entries /\ Pair(e).key = e.key
  BY RestBounds DEF Entries
<1> HIDE DEF new
<1>4. ASSUME NEW b \in Buckets
      PROVE  /\ items[b] \in Seq(Entries) /\ Len(items[b]) = Len(h.items[b])
             /\ \A i \in 1 .. Len(h.items[b]) : /\ items[b][i] = Pair(h.items[b][i])
                                                /\ items[b][i].key = h.items[b][i].key
  <2>1. h.items[b] \in Seq(Entries) /\ DOMAIN h.items[b] = 1 .. Len(h.items[b])
        /\ Len(h.items[b]) \in Nat
    BY <1>1 DEF Table
  <2>2. items[b] = [i \in 1 .. Len(h.items[b]) |-> Pair(h.items[b][i])]
    BY <2>1
  <2>3. \A i \in 1 .. Len(h.items[b]) : Pair(h.items[b][i]) \in Entries
                                         /\ Pair(h.items[b][i]).key = h.items[b][i].key
    BY <1>3, <2>1
  <2> HIDE DEF items, Pair
  <2> QED BY <2>1, <2>2, <2>3
<1>5. items \in [Buckets -> Seq(Entries)]
  BY <1>4
<1> HIDE DEF items
<1>6. new.items = items /\ Table(new)
  BY <1>2, <1>5 DEF Table
<1>7. SameKeys(h, new)
  BY <1>4, <1>6 DEF SameKeys
<1>8. AllIn(new)
  BY <1>1, <1>6, <1>7, SameAnswer DEF AllIn
<1>9. ASSUME NEW p \in Pitcher
      PROVE  HashGetValue(new, p) = RestSkill(p, HashGetValue(h, p))
  <2> DEFINE c == p % HashCapacity
             i == Min(Matches(h, p))
  <2>1. /\ i \in 1 .. Len(h.items[c]) /\ h.items[c][i].key = p
        /\ HashGetValue(h, p) = h.items[c][i].value
    BY <1>1, Found DEF AllIn
  <2>2. HashGetValue(new, p) = items[c][i].value
    BY <1>1, <1>6, <1>7, SameAnswer DEF AllIn
  <2>3. c \in Buckets
    BY <1>1, BucketOf
  <2> HIDE DEF c, i
  <2>4. items[c][i] = Pair(h.items[c][i])
    BY <1>4, <2>1, <2>3
  <2> QED BY <2>1, <2>2, <2>4
<1> QED BY <1>8, <1>9 DEF new

-----------------------------------------------------------------------------
(* Hash_add, or Hash_set_value, of one pitcher after the other. *)

One(s) == CHOOSE x \in s : TRUE
Fresh(p) == [left |-> MaxBatters[p], tired |-> FALSE]
Put(adds, x, h, val) ==
  IF adds THEN HashAddKey(h, x, Fresh(x)) ELSE HashSetValue(h, x, val[x])

\* The hash after each set of pitchers, of those with n members at most.
FoldTo(f, adds, base, val, S, n) ==
  f = [s \in {u \in SUBSET S : Cardinality(u) <= n} |->
         IF s = {} THEN base ELSE Put(adds, One(s), f[s \ {One(s)}], val)]

LEMMA OneLess ==
  ASSUME NEW S, IsFiniteSet(S), NEW s \in SUBSET S, s # {}
  PROVE  /\ One(s) \in s /\ s \ {One(s)} \in SUBSET S /\ Cardinality(s) \in Nat
         /\ Cardinality(s \ {One(s)}) = Cardinality(s) - 1 /\ Cardinality(s) # 0
<1>1. IsFiniteSet(s) /\ One(s) \in s
  BY FS_Subset DEF One
<1> QED BY <1>1, FS_RemoveElement, FS_CardinalityType, FS_EmptySet

LEMMA FoldExists ==
  ASSUME NEW adds, NEW base, NEW val, NEW S, IsFiniteSet(S), NEW n \in Nat
  PROVE  \E f : FoldTo(f, adds, base, val, S, n)
<1> SUFFICES ASSUME ~ \E f : FoldTo(f, adds, base, val, S, n) PROVE FALSE
  OBVIOUS
<1> DEFINE without == {k \in Nat : ~ \E f : FoldTo(f, adds, base, val, S, k)}
           D(k) == {u \in SUBSET S : Cardinality(u) <= k}
           Value(g, s) == IF s = {} THEN base ELSE Put(adds, One(s), g[s \ {One(s)}], val)
<1>1. PICK m \in without : \A k \in without : m <= k
  <2>1. without \in SUBSET Nat /\ n \in without
    OBVIOUS
  <2> HIDE DEF without
  <2> QED BY <2>1, LeastOf
<1>2. \A s \in SUBSET S : Cardinality(s) \in Nat
  BY FS_Subset, FS_CardinalityType
<1>3. m # 0
  <2> DEFINE f == [s \in D(0) |-> base]
  <2>1. \A s \in D(0) : s = {}
    <3> TAKE s \in D(0)
    <3>1. s # {} => Cardinality(s) # 0 /\ Cardinality(s) \in Nat
      BY OneLess
    <3> QED BY <3>1
  <2>2. f = [s \in D(0) |-> Value(f, s)]
    BY <2>1
  <2>3. FoldTo(f, adds, base, val, S, 0)
    BY <2>2 DEF FoldTo
  <2> QED BY <1>1, <2>3
<1>4. m - 1 \in Nat
  BY <1>1, <1>3
<1>5. PICK f : FoldTo(f, adds, base, val, S, m - 1)
  BY <1>1, <1>4
<1> DEFINE g == [s \in D(m) |-> Value(f, s)]
<1>6. \A s \in D(m - 1) : s \in D(m) /\ g[s] = f[s]
  <2>1. f = [s \in D(m - 1) |-> Value(f, s)]
    BY <1>5 DEF FoldTo
  <2>2. \A s \in D(m - 1) : s \in D(m)
    BY <1>2, <1>4
  <2>3. \A s \in D(m - 1) : f[s] = Value(f, s)
    BY <2>1
  <2> HIDE DEF Value, D
  <2> QED BY <2>2, <2>3
<1>7. ASSUME NEW s \in D(m) PROVE g[s] = Value(g, s)
  <2>1. CASE s = {}
    BY <2>1
  <2>2. CASE s # {}
    <3>1. s \ {One(s)} \in D(m - 1)
      BY <1>4, <2>2, OneLess
    <3>2. g[s \ {One(s)}] = f[s \ {One(s)}]
      BY <1>6, <3>1
    <3>3. g[s] = Value(f, s)
      OBVIOUS
    <3> HIDE DEF g
    <3> QED BY <2>2, <3>2, <3>3
  <2> QED BY <2>1, <2>2
<1>8. FoldTo(g, adds, base, val, S, m)
  <2>1. g = [s \in D(m) |-> g[s]]
    OBVIOUS
  <2> HIDE DEF g
  <2>2. g = [s \in D(m) |-> Value(g, s)]
    BY <1>7, <2>1
  <2> QED BY <2>2 DEF FoldTo
<1> QED BY <1>1, <1>8

\* A hash for each set of pitchers, the folds for the whole.
Folded(f, adds, base, val, S) ==
  f = [s \in SUBSET S |-> IF s = {} THEN base ELSE Put(adds, One(s), f[s \ {One(s)}], val)]

LEMMA FoldingExists ==
  ASSUME NEW adds, NEW base, NEW val, NEW S, IsFiniteSet(S)
  PROVE  \E f : Folded(f, adds, base, val, S)
<1>1. PICK f : FoldTo(f, adds, base, val, S, Cardinality(S))
  BY FoldExists, FS_CardinalityType
<1>2. {u \in SUBSET S : Cardinality(u) <= Cardinality(S)} = SUBSET S
  BY FS_Subset
<1> QED BY <1>1, <1>2 DEF FoldTo, Folded

LEMMA AddingAll ==
  \E f : Folded(f, TRUE, HashCreate(HashCapacity), <<>>, Pitcher) /\ Load = f[Pitcher]
<1> DEFINE f == CHOOSE g : Folded(g, TRUE, HashCreate(HashCapacity), <<>>, Pitcher)
<1>1. Folded(f, TRUE, HashCreate(HashCapacity), <<>>, Pitcher)
  BY FoldingExists, FastAssumption
<1>2. Load = f[Pitcher]
  BY DEF Load, FoldSet, MapThenFoldSet, Folded, Put, Fresh, One
<1> QED BY <1>1, <1>2

LEMMA SettingAll ==
  ASSUME NEW h, NEW skill, IsFiniteSet(DOMAIN skill)
  PROVE  \E f : /\ Folded(f, FALSE, h, skill, DOMAIN skill)
                /\ SetSkills(h, skill) = f[DOMAIN skill]
<1> DEFINE f == CHOOSE g : Folded(g, FALSE, h, skill, DOMAIN skill)
<1>1. Folded(f, FALSE, h, skill, DOMAIN skill)
  BY FoldingExists
<1>2. SetSkills(h, skill) = f[DOMAIN skill]
  BY DEF SetSkills, FoldSet, MapThenFoldSet, Folded, Put, One
<1> QED BY <1>1, <1>2

\* What a fold has done to the hash after the pitchers of s.
Filled(h, s) ==
  /\ Table(h)
  /\ \A p \in s : Has(h, p) /\ HashGetValue(h, p) = Fresh(p)
  /\ \A p \in Pitcher \ s : ~Has(h, p)

Updated(h, base, val, s) ==
  /\ AllIn(h)
  /\ \A p \in s : HashGetValue(h, p) = val[p]
  /\ \A p \in Pitcher \ s : HashGetValue(h, p) = HashGetValue(base, p)

\* A set of sets with a member has one of the fewest elements.
LEMMA SmallestSet ==
  ASSUME NEW S, IsFiniteSet(S), NEW B \in SUBSET SUBSET S, B # {}
  PROVE  \E s \in B : \A u \in B : Cardinality(s) <= Cardinality(u)
<1> DEFINE sizes == {Cardinality(u) : u \in B}
<1>1. sizes \in SUBSET Nat /\ sizes # {}
  BY FS_Subset, FS_CardinalityType
<1> HIDE DEF sizes
<1>2. PICK n \in sizes : \A k \in sizes : n <= k
  BY <1>1, LeastOf
<1> QED BY <1>2 DEF sizes

\* select_skills_league puts every pitcher into the hash, rested.
LEMMA LoadFills == Filled(Load, Pitcher)
<1> DEFINE base == HashCreate(HashCapacity)
<1>0. IsFiniteSet(Pitcher)
  BY FastAssumption
<1>1. PICK f : /\ Folded(f, TRUE, base, <<>>, Pitcher)
               /\ Load = f[Pitcher]
  BY AddingAll
<1>2. Filled(base, {})
  <2>1. HashCapacity \in Nat \ {0}
    BY FastAssumption
  <2>2. base = [capacity |-> HashCapacity, items |-> [b \in Buckets |-> <<>>]]
    BY <2>1 DEF HashCreate, Buckets
  <2>3. Table(base)
    BY <2>2 DEF Table
  <2>4. ASSUME NEW p \in Pitcher PROVE ~Has(base, p)
    <3>1. p % HashCapacity \in Buckets
      BY <2>3, BucketOf
    <3>2. Len(base.items[p % HashCapacity]) = 0
      BY <2>2, <3>1
    <3> QED BY <2>3, <3>2, HasEntry
  <2> QED BY <2>3, <2>4 DEF Filled
<1> HIDE DEF base
<1>3. \A s \in SUBSET Pitcher :
        f[s] = IF s = {} THEN base ELSE HashAddKey(f[s \ {One(s)}], One(s), Fresh(One(s)))
  BY <1>1 DEF Folded, Put
<1>4. \A p \in Pitcher : Fresh(p) \in Skills
  BY FastAssumption DEF Fresh, Skills
<1> DEFINE bad == {s \in SUBSET Pitcher : ~Filled(f[s], s)}
<1>5. bad = {}
  <2> SUFFICES ASSUME bad # {} PROVE FALSE
    OBVIOUS
  <2>1. PICK s \in bad : \A u \in bad : Cardinality(s) <= Cardinality(u)
    BY <1>0, SmallestSet
  <2>2. s # {} /\ s \in SUBSET Pitcher
    BY <1>2, <1>3, <2>1
  <2> DEFINE x == One(s)
             less == s \ {x}
  <2>3. /\ x \in s /\ less \in SUBSET Pitcher /\ Cardinality(s) \in Nat
        /\ Cardinality(less) = Cardinality(s) - 1
    BY <1>0, <2>2, OneLess
  <2>4. f[s] = HashAddKey(f[less], x, Fresh(x))
    BY <1>3, <2>2
  <2> HIDE DEF x, bad
  <2>5. Filled(f[less], less)
    <3>1. less \notin bad
      BY <2>1, <2>3
    <3> QED BY <2>3, <3>1 DEF bad
  <2>6. Table(f[less]) /\ ~Has(f[less], x) /\ x \in Pitcher /\ Fresh(x) \in Skills
    BY <1>4, <2>2, <2>3, <2>5 DEF Filled
  <2>7. /\ Table(f[s]) /\ Has(f[s], x) /\ HashGetValue(f[s], x) = Fresh(x)
        /\ \A q \in Pitcher : q # x =>
             /\ Has(f[s], q) <=> Has(f[less], q)
             /\ Has(f[less], q) => HashGetValue(f[s], q) = HashGetValue(f[less], q)
    <3> DEFINE g == f[less]
               new == f[s]
               v == Fresh(x)
    <3>1. Table(g) /\ ~Has(g, x) /\ x \in Pitcher /\ v \in Skills
      BY <2>6
    <3>2. new = HashAddKey(g, x, v)
      BY <2>4
    <3> HIDE DEF g, new, v
    <3>3. /\ Table(new) /\ Has(new, x) /\ HashGetValue(new, x) = v
          /\ \A q \in Pitcher : q # x =>
               /\ Has(new, q) <=> Has(g, q)
               /\ Has(g, q) => HashGetValue(new, q) = HashGetValue(g, q)
      BY <3>1, <3>2, Added
    <3> QED BY <3>3 DEF g, new, v
  <2>8. Filled(f[s], s)
    BY <2>2, <2>3, <2>5, <2>7 DEF Filled
  <2> QED BY <2>1, <2>8 DEF bad
<1> QED BY <1>1, <1>5

\* The skills of those who were used are replaced.
LEMMA SkillsSet ==
  ASSUME NEW h, AllIn(h), NEW used \in SUBSET Pitcher, NEW skill \in [used -> Skills]
  PROVE  Updated(SetSkills(h, skill), h, skill, used)
<1>0. IsFiniteSet(used)
  BY FastAssumption, FS_Subset
<1>1. PICK f : /\ Folded(f, FALSE, h, skill, used)
               /\ SetSkills(h, skill) = f[used]
  <2>1. DOMAIN skill = used
    OBVIOUS
  <2> QED BY <1>0, <2>1, SettingAll
<1>2. \A s \in SUBSET used :
        f[s] = IF s = {} THEN h ELSE HashSetValue(f[s \ {One(s)}], One(s), skill[One(s)])
  BY <1>1 DEF Folded, Put
<1> DEFINE bad == {s \in SUBSET used : ~Updated(f[s], h, skill, s)}
<1>3. bad = {}
  <2> SUFFICES ASSUME bad # {} PROVE FALSE
    OBVIOUS
  <2>1. PICK s \in bad : \A u \in bad : Cardinality(s) <= Cardinality(u)
    BY <1>0, SmallestSet
  <2>2. s # {} /\ s \in SUBSET used
    BY <1>2, <2>1 DEF Updated
  <2> DEFINE x == One(s)
             less == s \ {x}
  <2>3. /\ x \in s /\ less \in SUBSET used /\ Cardinality(s) \in Nat
        /\ Cardinality(less) = Cardinality(s) - 1
    BY <1>0, <2>2, OneLess
  <2>4. f[s] = HashSetValue(f[less], x, skill[x])
    BY <1>2, <2>2
  <2> HIDE DEF x, bad
  <2>5. Updated(f[less], h, skill, less)
    <3>1. less \notin bad
      BY <2>1, <2>3
    <3> QED BY <2>3, <3>1 DEF bad
  <2>6. AllIn(f[less]) /\ x \in Pitcher /\ skill[x] \in Skills
    BY <2>2, <2>3, <2>5 DEF Updated
  <2>7. /\ AllIn(f[s]) /\ HashGetValue(f[s], x) = skill[x]
        /\ \A q \in Pitcher : q # x => HashGetValue(f[s], q) = HashGetValue(f[less], q)
    <3> DEFINE g == f[less]
               new == f[s]
               v == skill[x]
    <3>1. AllIn(g) /\ x \in Pitcher /\ v \in Skills
      BY <2>6
    <3>2. new = HashSetValue(g, x, v)
      BY <2>4
    <3> HIDE DEF g, new, v
    <3>3. /\ AllIn(new) /\ HashGetValue(new, x) = v
          /\ \A q \in Pitcher : q # x => HashGetValue(new, q) = HashGetValue(g, q)
      BY <3>1, <3>2, ValueSet
    <3> QED BY <3>3 DEF g, new, v
  <2>8. Updated(f[s], h, skill, s)
    BY <2>2, <2>3, <2>5, <2>7 DEF Updated
  <2> QED BY <2>1, <2>8 DEF bad
<1> QED BY <1>1, <1>3

(* The staff of the league. *)

\* Whoever has not pitched today has what he had in the morning.
RestInv ==
  /\ fresh \in [Pitcher -> Nat] /\ \A p \in Pitcher : fresh[p] <= MaxBatters[p]
  /\ pc = "idle" => fresh = MaxBatters
  /\ pc # "idle" =>
       /\ AllIn(skill_hash)
       /\ \A p \in Pitcher : Left(HashGetValue(skill_hash, p)) <= fresh[p]

\* The answers of a hash are skills.
LEMMA Answers ==
  ASSUME NEW h, AllIn(h), NEW p \in Pitcher
  PROVE  HashGetValue(h, p) \in Skills
BY Found DEF AllIn

LEMMA RestStarts == Init => RestInv
BY FastAssumption DEF Init, RestInv

\* A game leaves nobody with more.
LEMMA TireKeeps ==
  ASSUME RestInv, pc # "idle", NEW used \in SUBSET Pitcher, Tire(used)
  PROVE  /\ AllIn(skill_hash')
         /\ \A p \in Pitcher : Left(HashGetValue(skill_hash', p)) <= fresh[p]
<1>1. PICK skill \in [used -> UNION {AfterUse(p, HashGetValue(skill_hash, p)) : p \in used}] :
        /\ \A p \in used : skill[p] \in AfterUse(p, HashGetValue(skill_hash, p))
        /\ skill_hash' = SetSkills(skill_hash, skill)
  BY DEF Tire
<1>2. AllIn(skill_hash)
      /\ \A p \in Pitcher : Left(HashGetValue(skill_hash, p)) <= fresh[p]
  BY DEF RestInv
<1>3. ASSUME NEW p \in used PROVE skill[p] \in Skills /\ Left(skill[p]) <= fresh[p]
  <2>1. PICK old \in Skills : old = HashGetValue(skill_hash, p)
    BY <1>2, Answers
  <2>2. /\ old.left \in Nat /\ old.tired \in BOOLEAN /\ Refill[p] \in Nat
        /\ fresh[p] \in Nat /\ Left(old) <= fresh[p]
    BY <1>2, <2>1, FastAssumption DEF Skills, RestInv
  <2>3. skill[p] \in AfterUse(p, old)
    BY <1>1, <2>1
  <2>4. PICK l \in Nat : \/ l <= old.left /\ skill[p] = [left |-> l, tired |-> old.tired]
                         \/ skill[p] = [left |-> l, tired |-> TRUE]
    BY <2>2, <2>3 DEF AfterUse
  <2>5. CASE skill[p] = [left |-> l, tired |-> TRUE]
    BY <2>2, <2>5 DEF Skills, Left
  <2>6. CASE l <= old.left /\ skill[p] = [left |-> l, tired |-> old.tired]
    <3>1. skill[p] \in Skills /\ skill[p].left = l /\ skill[p].tired = old.tired
      BY <2>2, <2>6 DEF Skills
    <3>2. Left(skill[p]) <= Left(old) /\ Left(skill[p]) \in Nat /\ Left(old) \in Nat
      BY <2>2, <2>6, <3>1 DEF Left
    <3> QED BY <2>2, <3>1, <3>2
  <2> QED BY <2>4, <2>5, <2>6
<1>4. skill \in [used -> Skills]
  BY <1>1, <1>3
<1>5. Updated(skill_hash', skill_hash, skill, used)
  BY <1>1, <1>2, <1>4, SkillsSet
<1> QED BY <1>2, <1>3, <1>5 DEF Updated

LEMMA RestStep == RestInv /\ [Next]_vars => RestInv'
<1> SUFFICES ASSUME RestInv, [Next]_vars PROVE RestInv'
  OBVIOUS
<1>1. CASE UNCHANGED <<program, fresh>>
  BY <1>1 DEF program, RestInv
<1>2. CASE Begin
  <2>1. pc = "idle" /\ pc' = "play" /\ skill_hash' = Load /\ fresh' = fresh
    BY <1>2 DEF Begin
  <2>2. Filled(skill_hash', Pitcher)
    BY <2>1, LoadFills
  <2>3. AllIn(skill_hash') /\ \A p \in Pitcher : HashGetValue(skill_hash', p) = Fresh(p)
    BY <2>2 DEF Filled, AllIn
  <2>4. \A p \in Pitcher : Left(Fresh(p)) <= fresh[p]
    BY <2>1, FastAssumption DEF Left, Fresh, RestInv
  <2> QED BY <2>1, <2>3, <2>4 DEF RestInv
<1>3. ASSUME NEW row \in todo, NEW used \in SUBSET StaffOf(row), Play(row, used)
      PROVE  RestInv'
  <2>1. pc # "idle" /\ pc' # "idle" /\ Tire(used) /\ fresh' = fresh
    BY <1>3 DEF Play, AfterGame
  <2>2. used \in SUBSET Pitcher
    BY DEF StaffOf
  <2> QED BY <2>1, <2>2, TireKeeps DEF RestInv
<1>4. CASE Evening
  <2>1. /\ pc # "idle" /\ pc' # "idle" /\ skill_hash' = HashMap(skill_hash, RestSkill)
        /\ fresh' = [p \in Pitcher |-> HashGetValue(skill_hash', p).left]
    BY <1>4 DEF Evening, RestPitchersSpeed
  <2>2. /\ AllIn(skill_hash')
        /\ \A p \in Pitcher :
             HashGetValue(skill_hash', p) = RestSkill(p, HashGetValue(skill_hash, p))
    BY <2>1, AllRested DEF RestInv
  <2>3. \A p \in Pitcher : /\ HashGetValue(skill_hash', p) \in Skills
                            /\ fresh'[p] <= MaxBatters[p]
                            /\ Left(HashGetValue(skill_hash', p)) = fresh'[p]
    BY <2>1, <2>2, Answers, RestBounds DEF RestInv
  <2>4. \A p \in Pitcher : fresh'[p] \in Nat
    BY <2>1, <2>3 DEF Skills
  <2>5. fresh' \in [Pitcher -> Nat]
    BY <2>1, <2>4
  <2>6. \A p \in Pitcher : Left(HashGetValue(skill_hash', p)) <= fresh'[p]
    BY <2>3, <2>4
  <2> QED BY <2>1, <2>2, <2>3, <2>5, <2>6 DEF RestInv
<1>5. CASE GiveUp \/ Crash \/ Commit \/ Wait
  BY <1>5 DEF GiveUp, Crash, Commit, Wait, RestInv
<1>6. CASE Planner \/ Child \/ ChildFails \/ Over \/ UNCHANGED vars
  BY <1>1, <1>6
  DEF Planner, Child, ChildStart, Read, EndOfFile, ChildFails, Over, vars
<1> QED BY <1>2, <1>3, <1>4, <1>5, <1>6 DEF Next, Program, Games

LEMMA RestKept == Spec => []RestInv
BY RestStarts, RestStep, PTL DEF Spec

\* For any pitchers, hash capacity, games and days: the entries of the skill
\* hash are used and rested the way a staff is, though select_skills_league,
\* set_player_skill and rest_pitchers_speed only ever see lists of a bucket.
THEOREM HashIsRested == Spec => RestsLikeStaff
<1>1. Init => Staff!RestInit
  BY DEF Init, Staff!RestInit
<1>2. RestInv /\ [Next]_vars => [Staff!RestNext]_fresh
  <2> SUFFICES ASSUME RestInv, [Next]_vars PROVE Staff!RestNext \/ fresh' = fresh
    OBVIOUS
  <2>1. CASE Evening
    <3> DEFINE f == [p \in Pitcher |-> Left(HashGetValue(skill_hash, p))]
    <3>1. /\ pc # "idle" /\ skill_hash' = HashMap(skill_hash, RestSkill)
          /\ fresh' = [p \in Pitcher |-> HashGetValue(skill_hash', p).left]
      BY <2>1 DEF Evening, RestPitchersSpeed
    <3>2. /\ AllIn(skill_hash)
          /\ \A p \in Pitcher :
               HashGetValue(skill_hash', p) = RestSkill(p, HashGetValue(skill_hash, p))
      BY <3>1, AllRested DEF RestInv
    <3>3. \A p \in Pitcher : HashGetValue(skill_hash', p).left = Staff!Rested(p, f[p])
      BY <3>2, Answers, RestBounds
    <3>4. \A p \in Pitcher : f[p] \in 0 .. fresh[p] /\ f[p] <= fresh[p]
      <4> TAKE p \in Pitcher
      <4>1. f[p] \in Nat
        BY <3>2, Answers DEF Left, Skills
      <4>2. f[p] <= fresh[p] /\ fresh[p] \in Nat
        BY <3>1 DEF RestInv
      <4> QED BY <4>1, <4>2
    <3>5. f \in [Pitcher -> UNION {0 .. fresh[p] : p \in Pitcher}]
      BY <3>4
    <3>6. fresh' = [p \in Pitcher |-> Staff!Rested(p, f[p])]
      BY <3>1, <3>3
    <3> HIDE DEF f
    <3>7. Staff!Day(f)
      BY <3>4, <3>6 DEF Staff!Day
    <3> QED BY <3>5, <3>7 DEF Staff!RestNext
  <2>2. CASE ~Evening
    BY <2>2 DEF Next, Planner, Program, Begin, Games, Play, Crash, Commit, Wait, GiveUp,
                Child, ChildStart, Read, EndOfFile, ChildFails, Over, vars
  <2> QED BY <2>1, <2>2
<1> QED BY <1>1, <1>2, RestKept, PTL DEF Spec, RestsLikeStaff, Staff!RestSpec
=============================================================================
