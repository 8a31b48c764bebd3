------------------------------- MODULE SimDay -------------------------------
(***************************************************************************)
(* sim_day.c: the process that plays a day's games one after another, the  *)
(* child process per game that runs game_log.pl at the other end of a      *)
(* pipe, and the database both of them write.                              *)
(*                                                                         *)
(* Season is how it was started.  With --season (simulate_season) it keeps *)
(* the pitchers in a skill hash for all the days.  Without, it plays one   *)
(* day (simulate_day and the rest of main), reads the pitchers from the    *)
(* database, and exits; the button of fbs-gtk starts the next day.         *)
(***************************************************************************)
EXTENDS Integers, Sequences, FiniteSets, FiniteSetsExt, SequencesExt

CONSTANTS
  Pitcher,
  MaxBatters,    \* what each pitcher can face when rested
  Refill,        \* batters until a tired pitcher tires once more
  Games,         \* games of a day (4)
  LastDay,       \* days of the schedule
  MaxLaunches,   \* how often the button is pressed
  PitchersOf,    \* the pitchers of the two teams of each game
  Season,
  FirstGame,     \* the game of the first active team, which fbs-gtk looks at
  ReaderFails    \* a child may die before it has saved its game

Game == 1 .. Games
Day == 1 .. LastDay

ASSUME DayAssumption ==
  /\ IsFiniteSet(Pitcher)
  /\ Games \in Nat \ {0} /\ LastDay \in Nat \ {0} /\ MaxLaunches \in Nat
  /\ MaxBatters \in [Pitcher -> Nat \ {0}] /\ Refill \in [Pitcher -> Nat \ {0}]
  /\ PitchersOf \in [Game -> SUBSET Pitcher]
  /\ \A g, h \in Game : g # h => PitchersOf[g] \cap PitchersOf[h] = {}
  /\ FirstGame \in Game
  /\ {Season, ReaderFails} \subseteq BOOLEAN

VARIABLES
  pc,            \* the program: "fork", "play", "close", "kill", "wait",
                 \* "settle"; "exit" when it has returned, "broken" when a
                 \* signal killed it
  day, game,
  rc,            \* what the game on now returned
  child,         \* the reader: "none", "ready", "reading", "saved", "dead"
  writers,       \* who holds the write end of the pipe
  pipe,          \* the games whose logs have gone into the pipe
  buffer,        \* the games in game_log_buffer, which nobody clears
  hash,          \* of each pitcher, in memory: batters_left, stamina < 0
  tired_pitchers,
  batters_left,  \* t_skill_pitcher
  record,        \* how often each game's result is in t_team and t_boxscore
  stats,         \* how often what was played of it is in the players' stats
  settled,       \* the days whose rest and rotation are committed
  launches,
  finished,      \* history: how often each game of each day was played out
  fresh          \* history: batters_left the morning of this day

program == <<pc, day, game, rc, launches>>
reader == <<child, writers, pipe>>
memory == <<hash, tired_pitchers, buffer>>
table == <<batters_left, settled>>
history == <<finished, fresh>>
books == <<record, stats>>
vars == <<program, reader, memory, table, books, history>>

\* What build_skill makes of the rows of t_skill_pitcher.
Loaded(left) == [p \in Pitcher |-> [left |-> left[p], tired |-> FALSE]]

Init ==
  /\ pc = "fork" /\ day = 1 /\ game = 1 /\ rc = 0 /\ launches = 1
  /\ child = "none" /\ writers = {} /\ pipe = {}
  /\ hash = Loaded(MaxBatters) /\ tired_pitchers = <<>> /\ buffer = {}
  /\ batters_left = MaxBatters /\ settled = {}
  /\ record = [d \in Day |-> [k \in Game |-> 0]]
  /\ stats = record /\ finished = record /\ fresh = MaxBatters

-----------------------------------------------------------------------------
(* The program: simulate_day. *)

\* pipe and fork: the child inherits both ends.
Fork ==
  /\ pc = "fork" /\ pc' = "play"
  /\ child' = "ready" /\ writers' = {"parent", "child"} /\ pipe' = {}
  /\ UNCHANGED <<day, game, rc, launches, memory, table, books, history>>

\* What a game leaves of a pitcher it used: tire_pitcher counts down to the
\* last batter, then starts again one step more tired.
AfterUse(p) ==
  {[left |-> l, tired |-> hash[p].tired] : l \in 1 .. (hash[p].left - 1)}
  \cup {[left |-> l, tired |-> TRUE] : l \in 1 .. Refill[p]}

\* update_pitcher_stamina
Entry(p, skill) == [id |-> p, left |-> IF skill.tired THEN 0 ELSE skill.left]

\* Slip: the newest entry goes in front.
AppendedSlip(list, entries) == entries \o list
Appended(list, entries) == list \o entries

\* Slip: the jump to exit flushes too.
FlushedSlip(ok) == buffer \cup {game}
\* A game that is given up jumps over flush_game_log_buffer, and its lines
\* stay in the buffer.
Flushed(ok) == IF ok THEN buffer \cup {game} ELSE {}
LeftBehind(ok) == IF ok THEN {} ELSE buffer \cup {game}

\* Slip: the jump to exit leaves rc alone.
ReturnedSlip(ok) == {0}
\* sim_game has no return statement: what it gives back is not what
\* sim_game_batch gave it.
Returned(ok) == IF Season THEN {IF ok THEN 0 ELSE 1} ELSE {0, 1}

\* sim_game_batch, or sim_game around it.  Whoever was used is in the list
\* when the game ends; when it is given up, those taken out before are.
Play(ok, used, listed) ==
  /\ pc = "play" /\ pc' = "close"
  /\ ok => child # "dead" /\ used # {} /\ listed = used
  /\ \E skill \in [used -> UNION {AfterUse(p) : p \in used}] :
       /\ \A p \in used : skill[p] \in AfterUse(p)
       /\ hash' = [p \in Pitcher |-> IF p \in used THEN skill[p] ELSE hash[p]]
       /\ tired_pitchers' =
            Appended(tired_pitchers,
                     SetToSeq({Entry(p, skill[p]) : p \in listed}))
  /\ pipe' = Flushed(ok) /\ buffer' = LeftBehind(ok)
  /\ rc' \in Returned(ok)
  /\ finished' = IF ok THEN [finished EXCEPT ![day][game] = @ + 1] ELSE finished
  /\ UNCHANGED <<day, game, launches, child, writers, table, books, fresh>>

\* A write into a pipe that nobody reads: SIGPIPE.
Broken ==
  /\ pc = "play" /\ child = "dead"
  /\ pc' = "broken"
  /\ writers' = writers \ {"parent"}
  /\ UNCHANGED <<day, game, rc, launches, child, pipe, memory, table,
                 books, history>>

\* close(fd[1])
Close ==
  /\ pc = "close"
  /\ pc' = IF rc = 0 THEN "wait" ELSE "kill"
  /\ writers' = writers \ {"parent"}
  /\ UNCHANGED <<day, game, rc, launches, child, pipe, memory, table,
                 books, history>>

\* kill(child_pid, SIGINT), and both callers return in turn.
Kill ==
  /\ pc = "kill" /\ pc' = "exit"
  /\ child' = IF child = "saved" THEN child ELSE "dead"
  /\ writers' = {}
  /\ UNCHANGED <<day, game, rc, launches, pipe, memory, table, books, history>>

\* wait(&status), and the status is not looked at.
Wait ==
  /\ pc = "wait" /\ child \in {"saved", "dead"}
  /\ IF game < Games THEN game' = game + 1 /\ pc' = "fork"
                     ELSE game' = 1 /\ pc' = "settle"
  /\ UNCHANGED <<day, rc, launches, reader, memory, table, books, history>>

-----------------------------------------------------------------------------
(* The evening: stamina, rest and rotation, in one transaction. *)

DivideCeiling(n, d) == (n + d - 1) \div d

\* Slip: rest without the limit.
RestedSlip(p, left) == left + DivideCeiling(MaxBatters[p], 4)
Rested(p, left) == Min({MaxBatters[p], left + DivideCeiling(MaxBatters[p], 4)})

EntriesOf(p, list) == {i \in DOMAIN list : list[i].id = p}
\* update_stamina: an update for each entry, in the order of the list, so that
\* the last one for a pitcher stays.
UpdateStamina(left, list) ==
  [p \in Pitcher |-> IF EntriesOf(p, list) = {} THEN left[p]
                     ELSE list[Max(EntriesOf(p, list))].left]
RestPitchers(left) == [p \in Pitcher |-> Rested(p, left[p])]

\* rest_pitchers_speed
RestPitchersSpeed ==
  [p \in Pitcher |->
     [left |-> Rested(p, IF hash[p].tired THEN 0 ELSE hash[p].left),
      tired |-> FALSE]]

\* Slip: rest before the day's work is booked.
EveningSlip(left, list) == UpdateStamina(RestPitchers(left), list)
\* The rest of main.
Evening(left, list) == RestPitchers(UpdateStamina(left, list))

\* The loop of simulate_season: the hash is rested, the table is not.
SettleSeason ==
  /\ pc = "settle" /\ Season
  /\ hash' = RestPitchersSpeed
  /\ fresh' = [p \in Pitcher |-> hash'[p].left]
  /\ batters_left' = UpdateStamina(batters_left, tired_pitchers)
  /\ settled' = settled \cup {day}
  /\ IF day < LastDay THEN day' = day + 1 /\ pc' = "fork"
                      ELSE day' = day /\ pc' = "exit"
  /\ UNCHANGED <<game, rc, launches, reader, tired_pitchers, buffer, books,
                 finished>>

SettleDay ==
  /\ pc = "settle" /\ ~Season
  /\ batters_left' = Evening(batters_left, tired_pitchers)
  /\ fresh' = batters_left'
  /\ settled' = settled \cup {day}
  /\ pc' = "exit"
  /\ UNCHANGED <<day, game, rc, launches, reader, memory, books, finished>>

\* The wins and losses of the first active team: its games in the database.
Decided == UNION {{d} \X (1 .. record[d][FirstGame]) : d \in Day}
\* Slip: the last day is not left behind.
NextDayNumberSlip == Cardinality(Decided)
\* sim_days of fbs-gtk: they tell the day.
NextDayNumber == 1 + Cardinality(Decided)

Launch ==
  /\ pc \in {"exit", "broken"} /\ ~Season /\ launches < MaxLaunches
  /\ NextDayNumber \in Day
  /\ pc' = "fork" /\ day' = NextDayNumber /\ game' = 1 /\ rc' = 0
  /\ launches' = launches + 1
  /\ child' = "none" /\ writers' = {} /\ pipe' = {}
  /\ hash' = Loaded(batters_left) /\ tired_pitchers' = <<>> /\ buffer' = {}
  /\ UNCHANGED <<table, books, history>>

-----------------------------------------------------------------------------
(* The child. *)

\* Slip: the child keeps the write end it inherited.
InheritedSlip(ends) == ends
\* close(fd[1]) before exec
Inherited(ends) == ends \ {"child"}

ChildStart ==
  /\ child = "ready" /\ child' = "reading"
  /\ writers' = Inherited(writers)
  /\ UNCHANGED <<program, pipe, memory, table, books, history>>

\* The end of the file is seen when nobody can write any more.  Without a
\* game the reader knows no team and dies on its first query.  With more
\* than one it saves the stats of all, and the result of the last.
EndOfFile ==
  /\ child = "reading" /\ writers = {}
  /\ IF pipe # {}
       THEN /\ child' = "saved"
            /\ record' = [record EXCEPT ![day][game] = @ + 1]
            /\ stats' = [stats EXCEPT ![day] =
                 [k \in Game |-> IF k \in pipe THEN @[k] + 1 ELSE @[k]]]
       ELSE child' = "dead" /\ UNCHANGED books
  /\ UNCHANGED <<program, writers, pipe, memory, table, history>>

ChildFails ==
  /\ ReaderFails /\ child \in {"ready", "reading"}
  /\ child' = "dead" /\ writers' = writers \ {"child"}
  /\ UNCHANGED <<program, pipe, memory, table, books, history>>

\* Nothing runs any more.
Over ==
  /\ pc \in {"exit", "broken"}
  /\ UNCHANGED vars

Program ==
  \/ Fork \/ Broken \/ Close \/ Kill \/ Wait
  \/ \E ok \in BOOLEAN, used \in SUBSET PitchersOf[game] :
       \E listed \in SUBSET used : Play(ok, used, listed)
  \/ SettleSeason \/ SettleDay
Child == ChildStart \/ EndOfFile

Next == Program \/ Child \/ ChildFails \/ Launch \/ Over

\* Both processes are scheduled; nobody has to press the button, and a
\* reader does not have to fail.
Spec == Init /\ [][Next]_vars /\ WF_vars(Program) /\ WF_vars(Child)

-----------------------------------------------------------------------------
(* Properties. *)

TypeOK ==
  /\ pc \in {"fork", "play", "close", "kill", "wait", "settle", "exit", "broken"}
  /\ day \in Day /\ game \in Game /\ rc \in {0, 1}
  /\ launches \in Nat
  /\ child \in {"none", "ready", "reading", "saved", "dead"}
  /\ writers \subseteq {"parent", "child"}
  /\ pipe \subseteq Game /\ buffer \subseteq Game
  /\ hash \in [Pitcher -> [left : Nat, tired : BOOLEAN]]
  /\ \A i \in DOMAIN tired_pitchers :
       tired_pitchers[i] \in [id : Pitcher, left : Nat]
  /\ \A p \in Pitcher : batters_left[p] \in 0 .. MaxBatters[p]
  /\ settled \subseteq Day
  /\ {record, stats, finished} \subseteq [Day -> [Game -> Nat]]

\* A game that was given up in the middle has no result in the database, and
\* one that was played out is not counted twice, whichever way the reader,
\* the end of the pipe and the signal race.
OnlyFinishedRecorded ==
  \A d \in Day, k \in Game : record[d][k] <= finished[d][k]

\* Stated by simulate_day, "0 for success or something else if there is a
\* failure": when it succeeds, and the day is settled, each game of the day
\* was played out and is in the database.
SettledDayIsRecorded ==
  \A d \in settled, k \in Game : finished[d][k] > 0 /\ record[d][k] > 0

\* Stated by sim_game, which returns what sim_game_batch does, "0 for success,
\* something else if there is an error", for simulate_day to stop the reader:
\* the players' stats are those of the games whose results count.
StatsFollowResults == stats = record

\* The rows of t_skill_pitcher never promise a pitcher more batters than the
\* hash has for him when a day begins: the list that is never emptied is
\* replayed in the order it was written, so that the last game wins.
TableLagsMemory ==
  Season /\ pc = "fork" /\ game = 1
    => \A p \in Pitcher : batters_left[p] <= hash[p].left

\* Whichever copy of the pitchers the games of a day are played from, and
\* whatever became of the day before, they are used and rested the way a
\* staff is: rest_pitchers and rest_pitchers_speed keep the same promise.
Staff == INSTANCE StaffRest
RestsLikeStaff == Staff!RestSpec

\* A day that has begun ends: the program never waits for a reader that
\* waits for the program.
DayEnds == pc = "fork" /\ game = 1 ~> pc \in {"settle", "exit", "broken"}

\* The button of fbs-gtk starts a new day as long as each day is in the
\* database with all of its games or none, whatever days were broken off: a day
\* is played once, though nothing but wins and losses tells that it was.
Whole(d) == \A j, k \in Game : record[d][j] = record[d][k]
NextDayIsNew ==
  [][Launch /\ (\A d \in Day : Whole(d)) => \A k \in Game : record[day'][k] = 0]_vars
=============================================================================
