-------------------------------- MODULE Draft --------------------------------
(***************************************************************************)
(* run_draft.c: for each position in turn, so many rounds in which each    *)
(* team takes the head of its preference list; the player is taken out of  *)
(* everybody's list.  An empty list ends the program in the middle of its  *)
(* transaction, which SQLite takes back; the tables of MySQL are MyISAM    *)
(* and keep what was written.                                              *)
(***************************************************************************)
EXTENDS LineupTables, Containers

CONSTANTS
  TeamId,
  NumberOfTeams, \* that pick in each round, however many there are (8)
  LastPosition,  \* (9)
  Rounds,        \* of each position (6, 5, 2, ...)
  Year,
  MaxRank

Position == 0 .. LastPosition
Player == [year : Year, position : Position, rank : 1 .. MaxRank]

ASSUME DraftAssumption ==
  /\ TeamId \subseteq Nat \ {0} /\ IsFiniteSet(TeamId) /\ NumberOfTeams \in Nat \ {0}
  /\ LastPosition \in Nat /\ Rounds \in [Position -> Nat \ {0}]
  /\ Year \subseteq Nat /\ IsFiniteSet(Year) /\ MaxRank \in Nat

VARIABLES
  db,        \* "sqlite" or "mysql"
  t_player,  \* of each player: status ("none" before he is created), team
  t_draft, t_lineup, t_rotation,
  t_stat,    \* which player has rows for his stats with which team, which year
  draft,     \* run_draft: "off", "pick", "end", "done", "failed"
  teams,     \* the active teams it read
  prefs,     \* of each of them, for each position
  position, round, next,   \* i, k and j of main
  overall,   \* current_round_overall
  before     \* what a rollback restores

tables == <<t_player, t_draft, t_lineup, t_rotation, t_stat>>
drafting == <<draft, teams, prefs, position, round, next, overall, before>>

Draftees(p) == {x \in Player : t_player[x].status = "draftee" /\ x.position = p}

\* Slip: the worst first.
BestFirstSlip(S) ==
  {s \in [1 .. Cardinality(S) -> S] :
     \A i, j \in 1 .. Cardinality(S) : i < j => s[i].rank > s[j].rank}
\* ORDER BY overall desc, intelligence desc, player_id desc
BestFirst(S) ==
  {s \in [1 .. Cardinality(S) -> S] :
     \A i, j \in 1 .. Cardinality(S) : i < j => s[i].rank < s[j].rank}

DraftStart ==
  /\ draft = "off" /\ teams = <<>> /\ prefs = <<>>
  /\ position = 0 /\ round = 1 /\ next = 1 /\ overall = 1
  /\ before = tables

\* select_draft_prefs_for_league, and begin.
DraftBegin(ids) ==
  /\ \E order \in [Position -> UNION {BestFirst(Draftees(p)) : p \in Position}] :
       /\ \A p \in Position : order[p] \in BestFirst(Draftees(p))
       /\ prefs' = [j \in DOMAIN ids |-> order]
  /\ teams' = ids /\ draft' = "pick" /\ before' = tables
  /\ position' = 0 /\ round' = 1 /\ next' = 1 /\ overall' = 1

\* The list of the team whose turn it is; a team that is not there has none.
List == IF next <= Len(teams) THEN prefs[next][position] ELSE <<>>

\* Slip: the player stays in the list of the others.
RemovedSlip(x) ==
  [prefs EXCEPT ![next][position] = RemoveValue(@, x)]
\* remove_player
Removed(x) ==
  [j \in DOMAIN prefs |-> [prefs[j] EXCEPT ![position] = RemoveValue(@, x)]]

\* The three loops: team, round, position.
Advance ==
  IF next < NumberOfTeams
    THEN next' = next + 1 /\ UNCHANGED <<round, position, overall, draft>>
    ELSE /\ next' = 1 /\ overall' = overall + 1
         /\ IF round < Rounds[position]
              THEN round' = round + 1 /\ UNCHANGED <<position, draft>>
              ELSE /\ round' = 1
                   /\ IF position < LastPosition
                        THEN position' = position + 1 /\ UNCHANGED draft
                        ELSE draft' = "end" /\ UNCHANGED position

\* insert_draft_pick
DraftPick(x, team, year) ==
  /\ t_draft' = t_draft \cup {[team |-> team, player |-> x, round |-> overall,
                               pick |-> next + (round - 1) * NumberOfTeams]}
  /\ t_player' = [t_player EXCEPT ![x] = [status |-> "roster", team |-> team]]
  /\ t_lineup' = t_lineup \cup BenchRows(team, x)
  /\ t_stat' = t_stat \cup {[player |-> x, team |-> team, year |-> year]}
  /\ t_rotation' = t_rotation \cup
       IF position < 2
         THEN {[team |-> team, player |-> x, slot |-> position, next |-> FALSE]}
         ELSE {}

Pick(year) ==
  /\ draft = "pick" /\ List # <<>>
  /\ DraftPick(Head(List), teams[next], year)
  /\ prefs' = Removed(Head(List))
  /\ Advance
  /\ UNCHANGED <<teams, before>>

\* Slip: nothing is taken back.
GivenUpSlip == tables
GivenUp == IF db = "sqlite" THEN before ELSE tables

\* The list is empty, or there are fewer teams than NumberOfTeams and the
\* program crashes on one that is not there.
DraftFails ==
  /\ draft = "pick" /\ List = <<>>
  /\ draft' = "failed"
  /\ t_player' = GivenUp[1] /\ t_draft' = GivenUp[2] /\ t_lineup' = GivenUp[3]
  /\ t_rotation' = GivenUp[4] /\ t_stat' = GivenUp[5]
  /\ UNCHANGED <<teams, prefs, position, round, next, overall, before>>

\* Whoever is left is a free agent; commit.
DraftEnd ==
  /\ draft = "end" /\ draft' = "done"
  /\ t_player' = [x \in Player |-> IF t_player[x].status = "draftee"
                                     THEN [t_player[x] EXCEPT !.status = "fa"]
                                     ELSE t_player[x]]
  /\ UNCHANGED <<t_draft, t_lineup, t_rotation, t_stat,
                 teams, prefs, position, round, next, overall, before>>

DraftStep(year) == Pick(year) \/ DraftFails \/ DraftEnd

-----------------------------------------------------------------------------
(* The draft on its own, of any players. *)

Free == [status |-> "draftee", team |-> 0]
Absent == [status |-> "none", team |-> 0]

DraftInit ==
  /\ db \in {"sqlite", "mysql"}
  /\ t_player \in [Player -> {Free, Absent}]
  /\ \A x, y \in Player :
       t_player[x] = Free /\ t_player[y] = Free => x.year = y.year
  /\ t_draft = {} /\ t_lineup = {} /\ t_rotation = {} /\ t_stat = {}
  /\ DraftStart

DraftNext ==
  \/ /\ draft = "off" /\ \E ids \in Seq(TeamId) : DraftBegin(ids)
     /\ UNCHANGED <<db, tables>>
  \/ (\E y \in Year : DraftStep(y)) /\ UNCHANGED db

DraftSpec == DraftInit /\ [][DraftNext]_<<db, tables, drafting>>

-----------------------------------------------------------------------------
(* Properties. *)

\* No player is drafted twice, though the lists of all teams hold the same
\* players and every pick has to be taken out of each of them.
NobodyTwice ==
  \A a, b \in t_draft : a.player = b.player => a = b

\* Nobody is taken while somebody better at his position is left: along the
\* picks of a position the players get worse.
BestTaken ==
  \A a, b \in t_draft :
    a.player.position = b.player.position /\ a.pick < b.pick
      => a.player.rank < b.player.rank
=============================================================================
