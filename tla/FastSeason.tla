----------------------------- MODULE FastSeason -----------------------------
(***************************************************************************)
(* simulate_season_speed of sim_day.c, the season with --fast, on the      *)
(* schedule that generate_schedule left: one reader and one pipe for all   *)
(* the games, one transaction for all the days, and the pitchers in the    *)
(* skill hash only, since no list of tired pitchers is kept.               *)
(*                                                                         *)
(* The program keeps the read end of the pipe open.  A reader that is gone *)
(* therefore breaks no pipe: the games go on filling it until it is full.  *)
(***************************************************************************)
EXTENDS Schedule, Containers, FiniteSets, SequencesExt

CONSTANTS
  Pitcher,       \* player ids
  TeamOf,
  MaxBatters,    \* what each pitcher can face when rested
  Refill,        \* batters until a tired pitcher tires once more
  HashCapacity,  \* (100)
  LastDay,       \* the loop over the days (162)
  PipeGames,     \* games whose logs fit into the pipe
  ReaderFails    \* the reader may die

ASSUME FastAssumption ==
  /\ Pitcher \subseteq Nat /\ IsFiniteSet(Pitcher) /\ TeamOf \in [Pitcher -> Team]
  /\ MaxBatters \in [Pitcher -> Nat \ {0}] /\ Refill \in [Pitcher -> Nat \ {0}]
  /\ HashCapacity \in Nat \ {0} /\ PipeGames \in Nat \ {0}
  /\ LastDay \in 1 .. NumSeries * GAMES_PER_SERIES
  /\ ReaderFails \in BOOLEAN

VARIABLES
  pc,        \* the program: "idle", "play", "evening", "commit", "wait",
             \* "exit"; "broken" when a signal killed it
  day,
  todo,      \* the rows of the day that are still to be played
  rc,
  skill_hash,
  turns,     \* the days whose update_rotation is in the transaction
  rotation,  \* the days whose update_rotation is committed
  writers,   \* who holds the write end of the pipe
  pipe,      \* the games whose logs are in the pipe
  child,     \* the reader: "none", "ready", "reading", "saved", "dead"
  received,  \* what the reader has taken out of the pipe
  stats,     \* the games whose stats it saved
  record,    \* the game whose result it recorded
  played,    \* history: the games played out, in order
  fresh      \* history: batters_left in the hash the morning of this day

program == <<pc, day, todo, rc, skill_hash, turns, rotation>>
reader == <<child, received, stats, record>>
season == <<schedule, drawing>>
vars == <<season, program, reader, writers, pipe, played, fresh>>

\* select_skills_league
Load ==
  FoldSet(LAMBDA p, h : HashAddKey(h, p, [left |-> MaxBatters[p], tired |-> FALSE]),
          HashCreate(HashCapacity), Pitcher)

Init ==
  /\ ScheduleInit
  /\ pc = "idle" /\ day = 1 /\ todo = {} /\ rc = 0
  /\ skill_hash = HashCreate(HashCapacity) /\ turns = 0 /\ rotation = 0
  /\ writers = {} /\ pipe = <<>>
  /\ child = "none" /\ received = <<>> /\ stats = <<>> /\ record = NULL
  /\ played = <<>> /\ fresh = MaxBatters

-----------------------------------------------------------------------------
(* The program. *)

select_schedule(d) == {r \in t_schedule : r.day = d}

\* pipe and fork, after generate_schedule is over.
Begin ==
  /\ pc = "idle" /\ planner \in {"done", "failed"}
  /\ pc' = "play" /\ skill_hash' = Load /\ todo' = select_schedule(1)
  /\ child' = "ready" /\ writers' = {"parent", "child"}
  /\ UNCHANGED <<season, day, rc, turns, rotation, received, stats, record,
                 pipe, played, fresh>>

\* What a game leaves of a pitcher: tire_pitcher counts down to the last
\* batter, then starts again one step more tired.
AfterUse(p, skill) ==
  {[left |-> l, tired |-> skill.tired] : l \in 1 .. (skill.left - 1)}
  \cup {[left |-> l, tired |-> TRUE] : l \in 1 .. Refill[p]}

StaffOf(row) == {p \in Pitcher : TeamOf[p] \in {row.home, row.away}}

SetSkills(hash, skill) ==
  FoldSet(LAMBDA p, h : HashSetValue(h, p, skill[p]), hash, DOMAIN skill)

Tire(used) ==
  \E skill \in [used -> UNION {AfterUse(p, HashGetValue(skill_hash, p)) : p \in used}] :
    /\ \A p \in used : skill[p] \in AfterUse(p, HashGetValue(skill_hash, p))
    /\ skill_hash' = SetSkills(skill_hash, skill)

\* No ORDER BY: the rows of a day come in any order.
OneOf(row) == row \in todo

\* Slip: the next day begins when the first game of this one is over.
AfterGameSlip == "evening"
AfterGame == IF Cardinality(todo) = 1 THEN "evening" ELSE "play"

\* sim_game_batch, down to the write of flush_game_log_buffer, which waits
\* while the pipe is full.
Play(row, used) ==
  /\ pc = "play" /\ OneOf(row) /\ used \subseteq StaffOf(row)
  /\ Len(pipe) < PipeGames
  /\ Tire(used)
  /\ pipe' = Append(pipe, row) /\ played' = Append(played, row)
  /\ todo' = todo \ {row} /\ pc' = AfterGame
  /\ UNCHANGED <<season, day, rc, turns, rotation, reader, writers, fresh>>

\* A game is given up: return 1, and main returns.  The transaction is not
\* committed, the pipe is closed by the exit, and nobody is killed.
GiveUp ==
  /\ pc = "play" /\ pc' = "exit" /\ rc' = 1
  /\ writers' = writers \ {"parent"}
  /\ turns' = 0
  /\ UNCHANGED <<season, day, todo, skill_hash, rotation, reader, pipe, played, fresh>>

\* Without rows the pointers in games are what malloc left: the program
\* crashes, or plays teams that have no lineup (GiveUp).
Crash ==
  /\ pc = "play" /\ todo = {}
  /\ pc' = "broken" /\ writers' = writers \ {"parent"} /\ turns' = 0
  /\ UNCHANGED <<season, day, todo, rc, skill_hash, rotation, reader, pipe,
                 played, fresh>>

\* Slip: rest without the limit.
RestSkillSlip(p, skill) == [left |-> skill.left + (MaxBatters[p] + 3) \div 4,
                            tired |-> FALSE]
RestSkill(p, skill) ==
  LET left == IF skill.tired THEN 0 ELSE skill.left
  IN  [left |-> Min({MaxBatters[p], left + (MaxBatters[p] + 3) \div 4}),
       tired |-> FALSE]

RestPitchersSpeed == HashMap(skill_hash, RestSkill)

\* rest_pitchers_speed and update_rotation, and the loop.
Evening ==
  /\ pc = "evening"
  /\ skill_hash' = RestPitchersSpeed
  /\ fresh' = [p \in Pitcher |-> HashGetValue(skill_hash', p).left]
  /\ turns' = turns + 1
  /\ IF day < LastDay
       THEN pc' = "play" /\ day' = day + 1 /\ todo' = select_schedule(day + 1)
       ELSE pc' = "commit" /\ UNCHANGED <<day, todo>>
  /\ UNCHANGED <<season, rc, rotation, reader, writers, pipe, played>>

\* commit, whose result is not looked at, and close.
Commit ==
  /\ pc = "commit" /\ pc' = "wait"
  /\ rotation' = turns /\ turns' = 0
  /\ writers' = writers \ {"parent"}
  /\ UNCHANGED <<season, day, todo, rc, skill_hash, reader, pipe, played, fresh>>

\* wait(&status), and the status is not looked at.
Wait ==
  /\ pc = "wait" /\ child \in {"saved", "dead"}
  /\ pc' = "exit"
  /\ UNCHANGED <<season, day, todo, rc, skill_hash, turns, rotation, reader,
                 writers, pipe, played, fresh>>

-----------------------------------------------------------------------------
(* The reader. *)

\* Slip: the child keeps the write end it inherited.
InheritedSlip(ends) == ends
\* close(fd[1]) before exec
Inherited(ends) == ends \ {"child"}

ChildStart ==
  /\ child = "ready" /\ child' = "reading"
  /\ writers' = Inherited(writers)
  /\ UNCHANGED <<season, program, received, stats, record, pipe, played, fresh>>

\* Slip: a new game forgets those before.
ReceivedSlip(game) == <<game>>
\* The players and their stats outlive the game.
Received(game) == Append(received, game)

Read ==
  /\ child = "reading" /\ pipe # <<>>
  /\ received' = Received(Head(pipe)) /\ pipe' = Tail(pipe)
  /\ UNCHANGED <<season, program, child, stats, record, writers, played, fresh>>

\* record_results knows the teams and the score of the last game only.
ResultOf(games) == Last(games)

\* The end of the file: without a game the reader knows no team and dies.
EndOfFile ==
  /\ child = "reading" /\ pipe = <<>> /\ writers = {}
  /\ IF received # <<>>
       THEN child' = "saved" /\ stats' = received /\ record' = ResultOf(received)
       ELSE child' = "dead" /\ UNCHANGED <<stats, record>>
  /\ UNCHANGED <<season, program, received, writers, pipe, played, fresh>>

ChildFails ==
  /\ ReaderFails /\ child \in {"ready", "reading"}
  /\ child' = "dead" /\ writers' = writers \ {"child"}
  /\ UNCHANGED <<season, program, received, stats, record, pipe, played, fresh>>

-----------------------------------------------------------------------------

Planner ==
  /\ ScheduleNext
  /\ UNCHANGED <<program, reader, writers, pipe, played, fresh>>

\* The pipe is full and nobody will ever read it.
Stuck == pc = "play" /\ child = "dead" /\ Len(pipe) = PipeGames

\* Nothing runs any more.
Over ==
  /\ pc \in {"exit", "broken"} /\ child \in {"saved", "dead"}
  /\ UNCHANGED vars

Games == \E row \in todo : \E used \in SUBSET StaffOf(row) : Play(row, used)
Program == Begin \/ Games \/ Crash \/ Evening \/ Commit \/ Wait
Child == ChildStart \/ Read \/ EndOfFile

Next == Planner \/ Program \/ GiveUp \/ Child \/ ChildFails \/ Over

\* All three programs are scheduled; nothing has to fail.
Spec ==
  Init /\ [][Next]_vars /\ WF_vars(Planner) /\ WF_vars(Program) /\ WF_vars(Child)

-----------------------------------------------------------------------------
(* Properties. *)

\* A reader that saves at all saves what was played out, each game once and in
\* order, whether the season was completed or a game was given up on the way;
\* and it records the result of the last of them.
NothingLost ==
  child = "saved" => stats = played /\ record = Last(played)

\* When the program succeeds every game of the calendar was played, on its day
\* and once, and the rotation has turned once a day; when it does not, the
\* rotation has not turned at all.
SeasonOrNothing ==
  /\ pc = "exit" /\ rc = 0 =>
       /\ rotation = LastDay
       /\ ToSet(played) = {r \in t_schedule : r.day <= LastDay}
       /\ \A i, j \in DOMAIN played :
            i < j => played[i] # played[j] /\ played[i].day <= played[j].day
  /\ pc \in {"exit", "broken"} /\ (rc = 1 \/ pc = "broken") => rotation = 0

\* The pitchers in the buckets of the skill hash are used and rested the way a
\* staff is, though no list is kept and no table is written.
Staff == INSTANCE StaffRest
RestsLikeStaff == Staff!RestSpec

\* The season ends and so does its reader, unless the reader died early enough
\* for the pipe, of which the program holds both ends, to fill up.
SeasonEnds ==
  pc = "play" ~> (pc \in {"exit", "broken"} /\ child \in {"saved", "dead"}) \/ Stuck
=============================================================================
