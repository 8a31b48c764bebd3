------------------------------- MODULE League -------------------------------
(***************************************************************************)
(* A league from year to year: restart_league.pl, which retires everybody, *)
(* gives each team a new row, and has players created (create_player),     *)
(* drafted (run_draft) and put into lineups; and the people who own the    *)
(* teams, by select_team.pl and signup.pl on the web (MySQL) or by the     *)
(* set-up page of fbs-gtk (SQLite).                                        *)
(*                                                                         *)
(* The script has a step for each of its statements that somebody else can *)
(* see, or after which it may die; the rows it writes survive it.          *)
(***************************************************************************)
EXTENDS Draft, TLC

CONSTANTS
  Client,        \* people, and the rows of t_user once they have one
  Name,
  Pools,         \* what create_player may bring: how many at each position
  MaxRuns,       \* how often the script is started
  ScriptDies     \* it may

FirstYear == CHOOSE y \in Year : \A z \in Year : y <= z

ASSUME LeagueAssumption ==
  /\ Pools \subseteq [Position -> 0 .. MaxRank]
  /\ MaxRuns \in Nat /\ ScriptDies \in BOOLEAN
  /\ 0 \notin Client

\* Nine slots for nine positions, and no more teams than take part in a draft.
ASSUME LeagueSize ==
  /\ Slots = LastPosition /\ Slots > 0
  /\ Cardinality(TeamId) <= NumberOfTeams

VARIABLES
  script,        \* restart_league.pl: "off", its next step, "done", "dead"
  league_year,
  t_team,        \* its rows, in order of season_id
  results,       \* the season_ids it has still to replace, the first one first
  hand_over,     \* the row it has deactivated and not yet replaced, or 0
  runs,
  died,          \* history: it has died before
  t_user,        \* the rows of t_user: whose, and under which name
  client,        \* what each client is about: "new", "looked", "user"
  login,         \* the name he entered
  gtk,           \* fbs-gtk: "closed" without a database, "dialog" while the
                 \* dialog for a new one is up, "open"
  page,          \* the teams on his form, or those in the box of fbs-gtk
  told,          \* "already selected", or that he had made "no choice"
  freeThen       \* history: the teams that were free when his form was made

restart == <<script, league_year, t_team, results, hand_over, runs, died>>
people == <<t_user, client, login, gtk, page, told, freeThen>>
vars == <<db, tables, drafting, restart, people>>

Season == DOMAIN t_team
ActiveRows == {s \in Season : t_team[s].active}
TeamRow(t, y) == [team |-> t, year |-> y, owner |-> 0, active |-> TRUE]

\* order by team_id
InOrderOfId(S) ==
  {s \in [1 .. Cardinality(S) -> S] : \A i, j \in 1 .. Cardinality(S) : i < j => s[i] < s[j]}

\* The teams the database comes with.
TestLeague ==
  {[s \in DOMAIN ids |-> TeamRow(ids[s], FirstYear)] : ids \in InOrderOfId(TeamId)}

Init ==
  /\ db \in {"sqlite", "mysql"}
  /\ t_player = [x \in Player |-> Absent]
  /\ t_draft = {} /\ t_lineup = {} /\ t_rotation = {} /\ t_stat = {}
  /\ DraftStart
  /\ script = "off" /\ league_year = FirstYear /\ t_team \in TestLeague
  /\ results = {} /\ hand_over = 0 /\ runs = 0 /\ died = FALSE
  /\ t_user = {} /\ client = [c \in Client |-> "new"]
  /\ login \in [Client -> Name]
  /\ gtk = "closed"
  /\ page = [c \in Client |-> {}] /\ told = [c \in Client |-> "nothing"]
  /\ freeThen = [c \in Client |-> {}]

-----------------------------------------------------------------------------
(* restart_league.pl *)

\* The four DELETEs.
Clear ==
  /\ script \in {"off", "done", "dead"} /\ runs < MaxRuns
  /\ gtk = "dialog" => runs = 0
  /\ script' = "retire" /\ runs' = runs + 1
  /\ t_lineup' = {} /\ t_rotation' = {} /\ t_draft' = {}
  /\ draft' = "off"
  /\ UNCHANGED <<db, t_player, t_stat, teams, prefs, position, round, next,
                 overall, before, league_year, t_team, results, hand_over,
                 died, people>>

Retired(p) == IF p.status = "none" THEN p ELSE [status |-> "retired", team |-> 0]

Retire ==
  /\ script = "retire" /\ script' = "year"
  /\ t_player' = [x \in Player |-> Retired(t_player[x])]
  /\ UNCHANGED <<db, t_draft, t_lineup, t_rotation, t_stat, drafting,
                 league_year, t_team, results, hand_over, runs, died, people>>

\* The date, and the active rows.
NewYear ==
  /\ script = "year" /\ league_year + 1 \in Year
  /\ league_year' = league_year + 1
  /\ results' = ActiveRows
  /\ script' = "teams"
  /\ UNCHANGED <<db, tables, drafting, t_team, hand_over, runs, died, people>>

Deactivate(s) ==
  /\ script = "teams" /\ hand_over = 0 /\ \A r \in results : s <= r
  /\ t_team' = [t_team EXCEPT ![s].active = FALSE]
  /\ hand_over' = s /\ results' = results \ {s}
  /\ UNCHANGED <<db, tables, drafting, script, league_year, runs, died, people>>

\* Slip: the year of the old row.
InsertedSlip(row) == [row EXCEPT !.active = TRUE]
\* The new row has the defaults of the table: nobody owns it.
Inserted(row) == TeamRow(row.team, league_year)

InsertSeason ==
  /\ script = "teams" /\ hand_over # 0
  /\ t_team' = Append(t_team, Inserted(t_team[hand_over]))
  /\ hand_over' = 0
  /\ UNCHANGED <<db, tables, drafting, script, league_year, results, runs,
                 died, people>>

\* create_player, in a transaction of its own.
CreatePlayers ==
  /\ script = "teams" /\ hand_over = 0 /\ results = {}
  /\ \E pool \in Pools :
       t_player' = [x \in Player |->
         IF x.year = league_year /\ x.rank <= pool[x.position] THEN Free ELSE t_player[x]]
  /\ script' = "draft"
  /\ UNCHANGED <<db, t_draft, t_lineup, t_rotation, t_stat, drafting,
                 league_year, t_team, results, hand_over, runs, died, people>>

ActiveTeams == InOrderOfId({t_team[s].team : s \in ActiveRows})

RunDraft ==
  /\ script = "draft" /\ draft = "off"
  /\ \E ids \in ActiveTeams : DraftBegin(ids)
  /\ UNCHANGED <<db, tables, restart, people>>

Drafting ==
  /\ script = "draft" /\ DraftStep(league_year)
  /\ UNCHANGED <<db, restart, people>>

InitLineups ==
  /\ script = "draft" /\ draft = "done" /\ script' = "right"
  /\ t_lineup' = ClearLineups(t_lineup)
  /\ t_rotation' = ClearStarters(t_rotation)
  /\ UNCHANGED <<db, t_player, t_draft, t_stat, drafting,
                 league_year, t_team, results, hand_over, runs, died, people>>

InsertHand(step, hand, after) ==
  /\ script = step /\ script' = after
  /\ \E best \in BestOf(t_lineup) : t_lineup' = InsertLineups(t_lineup, hand, best)
  /\ UNCHANGED <<db, t_player, t_draft, t_rotation, t_stat, drafting,
                 league_year, t_team, results, hand_over, runs, died, people>>

Starters ==
  /\ script = "starters" /\ script' = "done"
  /\ t_lineup' = PutStarters(t_lineup, FirstStarters(t_rotation))
  /\ t_rotation' = SetRotation(t_rotation)
  /\ UNCHANGED <<db, t_player, t_draft, t_stat, drafting,
                 league_year, t_team, results, hand_over, runs, died, people>>

\* "or die": of a statement from the date on, of create_player, of run_draft.
Running == script \notin {"off", "done", "dead"}
Die ==
  /\ Running
  /\ (ScriptDies /\ script \notin {"retire", "draft"}) \/ draft = "failed"
  /\ script' = "dead" /\ died' = TRUE
  /\ results' = {} /\ hand_over' = 0
  /\ UNCHANGED <<db, tables, drafting, league_year, t_team, runs, people>>

Script ==
  \/ Clear \/ Retire \/ NewYear \/ (\E s \in results : Deactivate(s)) \/ InsertSeason \/ CreatePlayers
  \/ RunDraft \/ Drafting \/ InitLineups
  \/ InsertHand("right", "R", "left") \/ InsertHand("left", "L", "starters")
  \/ Starters \/ Die

-----------------------------------------------------------------------------
(* The web. *)

OwnedBy(rows, c) == {s \in DOMAIN rows : rows[s].owner = c}
FreeNow == {t_team[s].team : s \in {r \in ActiveRows : t_team[r].owner = 0}}
\* Slip: every active team is offered.
FreeTeamsSlip == {t_team[s].team : s \in ActiveRows}
\* active=1 and owner_id=0
FreeTeams == FreeNow

\* update t_team set owner_id where team_id and active
WithOwner(t, c) ==
  [s \in Season |-> IF t_team[s].active /\ t_team[s].team = t
                      THEN [t_team[s] EXCEPT !.owner = c] ELSE t_team[s]]

NameTaken(c) == \E u \in t_user : u.name = login[c]

\* signup.pl: validate reads t_user ...
LookUp(c) ==
  /\ db = "mysql" /\ client[c] = "new"
  /\ ~NameTaken(c)
  /\ client' = [client EXCEPT ![c] = "looked"]
  /\ UNCHANGED <<db, tables, drafting, restart, t_user, login, gtk, page, told, freeThen>>

\* ... and writes it.
SignUp(c) ==
  /\ db = "mysql" /\ client[c] = "looked"
  /\ client' = [client EXCEPT ![c] = "user"]
  /\ t_user' = t_user \cup {[id |-> c, name |-> login[c]]}
  /\ UNCHANGED <<db, tables, drafting, restart, login, gtk, page, told, freeThen>>

\* select_team.pl without a choice: the form, unless he has a team.
HasSelected(c) == OwnedBy(t_team, c) # {}

SelectForm(c) ==
  /\ db = "mysql" /\ client[c] = "user"
  /\ IF HasSelected(c)
       THEN /\ told' = [told EXCEPT ![c] = "already selected"]
            /\ page' = [page EXCEPT ![c] = {}]
            /\ freeThen' = [freeThen EXCEPT ![c] = {}]
       ELSE /\ page' = [page EXCEPT ![c] = FreeTeams]
            /\ freeThen' = [freeThen EXCEPT ![c] = FreeNow]
            /\ told' = [told EXCEPT ![c] = "nothing"]
  /\ UNCHANGED <<db, tables, drafting, restart, t_user, client, login, gtk>>

\* validate: the owner is written without another look, also into no row.
SelectTeam(c, t) ==
  /\ db = "mysql" /\ client[c] = "user" /\ t \in page[c]
  /\ t_team' = WithOwner(t, c)
  /\ page' = [page EXCEPT ![c] = {}]
  /\ freeThen' = [freeThen EXCEPT ![c] = {}]
  /\ UNCHANGED <<db, tables, drafting, script, league_year, results, hand_over,
                 runs, died, t_user, client, login, gtk, told>>

-----------------------------------------------------------------------------
(* fbs-gtk: one program, whose box of teams is the page of all. *)

\* new_user_team_update
Refreshed ==
  /\ page' = [c \in Client |-> FreeTeams]
  /\ freeThen' = [c \in Client |-> FreeNow]
  /\ UNCHANGED <<db, tables, drafting, restart, t_user, client, login, told>>

\* A file is opened: change_DB, and setup_page_update.  SQLite lets nobody in
\* while run_draft is in its transaction.
OpenFile ==
  /\ db = "sqlite" /\ gtk # "dialog" /\ script # "draft" /\ runs > 0
  /\ gtk' = "open" /\ Refreshed

\* show_new_file_dialog: a new database, on which the script is started; the
\* program waits for it, and whatever its status opens the database.
NewFile ==
  /\ db = "sqlite" /\ gtk = "closed" /\ runs = 0
  /\ gtk' = "dialog"
  /\ UNCHANGED <<db, tables, drafting, restart, t_user, client, login, page, told,
                 freeThen>>

NewFileDone ==
  /\ gtk = "dialog" /\ runs > 0 /\ ~Running
  /\ gtk' = "open" /\ Refreshed

\* create_user, with the team selected in the box, which is not brought up to
\* date; without one team_id is not initialised (0 stands for what no row has).
CreateUser(c, t) ==
  /\ db = "sqlite" /\ gtk = "open" /\ script # "draft" /\ client[c] = "new"
  /\ t_user' = t_user \cup {[id |-> c, name |-> login[c]]}
  /\ client' = [client EXCEPT ![c] = "user"]
  /\ t_team' = WithOwner(t, c)
  /\ told' = [told EXCEPT ![c] = IF t \in page[c] THEN @ ELSE "no choice"]
  /\ UNCHANGED <<db, tables, drafting, script, league_year, results, hand_over,
                 runs, died, login, gtk, page, freeThen>>

People ==
  \E c \in Client :
    \/ LookUp(c) \/ SignUp(c) \/ SelectForm(c)
    \/ \E t \in TeamId : SelectTeam(c, t)
    \/ \E t \in TeamId \cup {0} : CreateUser(c, t)

Next == Script \/ People \/ OpenFile \/ NewFile \/ NewFileDone
Spec == Init /\ [][Next]_vars

-----------------------------------------------------------------------------
(* Properties. *)

\* When the script succeeds each active team can be simulated at once: nine men
\* in nine slots and nine positions against either hand, one next starter, who
\* pitches and bats last, and starters whose slots are 1, 2, ... without a gap,
\* as update_rotation counts them.
ReadyToPlay ==
  script = "done" =>
    \A s \in ActiveRows :
      LET t == t_team[s].team
          starters == {r \in t_rotation : r.team = t /\ r.player.position = 1}
      IN  /\ \A h \in Hand : Complete(t_lineup, t_rotation, t, h)
          /\ Cardinality(NextStarters(t_rotation, t)) = 1
          /\ \A h \in Hand : /\ NextStarters(t_rotation, t) = InSlot(t_lineup, t, h, Slots)
                             /\ NextStarters(t_rotation, t) = AtPosition(t_lineup, t, h, 1)
          /\ {r.slot : r \in starters} = 1 .. Rounds[1]
          /\ \A x \in Bullpen(t_rotation, t), h \in Hand, n \in Slot :
               x \notin InSlot(t_lineup, t, h, n)

\* Whoever is on a roster was drafted for it this year, has his rows in lineup
\* and stats, and nobody else has: a draft that fails on SQLite, at whichever
\* pick, leaves none of it.
RosterIsDrafted ==
  /\ \A x \in Player : t_player[x].status = "roster" /\ script \notin {"retire"} =>
       /\ \E d \in t_draft : d.player = x /\ d.team = t_player[x].team
       /\ x.year = league_year
       /\ [player |-> x, team |-> t_player[x].team, year |-> league_year] \in t_stat
  /\ db = "sqlite" /\ draft = "failed" =>
       t_draft = {} /\ t_lineup = {} /\ t_rotation = {}

\* A script that has not died leaves each team one active row, of this year;
\* one that dies may lose a team (between Deactivate and InsertSeason), but
\* never leaves a team with two.
OneSeasonEach ==
  /\ \A r, s \in ActiveRows : t_team[r].team = t_team[s].team => r = s
  /\ ~died /\ ~Running =>
       /\ {t_team[s].team : s \in ActiveRows} = TeamId
       /\ \A s \in ActiveRows : t_team[s].year = league_year

\* A team is taken away from its owner only by somebody whose form, or whose
\* box in fbs-gtk, was made while the team was still free, or who had chosen
\* nothing.
TakenFromOldList ==
  [][\A s \in Season :
       LET now == t_team'[s].owner
       IN  t_team[s].owner \notin {0, now} /\ told'[now] # "no choice" =>
             t_team[s].team \in freeThen[now]]_vars

\* Stated by select_team.pl, "You have already selected a team.": who is told
\* so has a team; while no new season is being made, that is.
ToldOwnersOwn ==
  [][\A c \in Client :
       told[c] # "already selected" /\ told'[c] = "already selected" /\ ~Running =>
         \E s \in ActiveRows : t_team[s].owner = c]_vars
=============================================================================
