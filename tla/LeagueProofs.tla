---------------------------- MODULE LeagueProofs ----------------------------
(***************************************************************************)
(* A league of any number of teams, over any years, with scripts that die  *)
(* at any step and drafts that run out of players: each team has one       *)
(* season, rosters are what was drafted, teams are ready to play when the  *)
(* script has succeeded, and they change hands only from lists that were   *)
(* true when they were made.                                               *)
(***************************************************************************)
EXTENDS League, DraftProofs

-----------------------------------------------------------------------------
(* The rows of t_team. *)

Years == Year \cup {FirstYear}
TeamRows == [team : TeamId, year : Years, owner : Client \cup {0}, active : BOOLEAN]

\* A team has one active row at most, and none while its new row is due; in a
\* script that has not died each team has one or is the one whose row is due,
\* and those that are replaced are of this year.
SeasonInv ==
  /\ league_year \in Years /\ t_team \in Seq(TeamRows)
  /\ results \subseteq ActiveRows /\ hand_over \in Season \cup {0}
  /\ script # "teams" => results = {} /\ hand_over = 0
  /\ \A r, s \in ActiveRows : t_team[r].team = t_team[s].team => r = s
  /\ hand_over # 0 => \A s \in ActiveRows : t_team[s].team # t_team[hand_over].team
  /\ ~died =>
       /\ script # "dead"
       /\ \A t \in TeamId : \/ \E s \in ActiveRows : t_team[s].team = t
                            \/ hand_over # 0 /\ t_team[hand_over].team = t
       /\ \A s \in ActiveRows \ results : t_team[s].year = league_year

LEMMA SeasonRows ==
  ASSUME SeasonInv
  PROVE  /\ Season = 1 .. Len(t_team) /\ Len(t_team) \in Nat
         /\ \A s \in Season : t_team[s] \in TeamRows
BY DEF SeasonInv, Season

LEMMA InOrderIsSeq ==
  ASSUME NEW S \in SUBSET TeamId, NEW ids \in InOrderOfId(S)
  PROVE  /\ ids \in Seq(TeamId) /\ ids \in [1 .. Len(ids) -> S] /\ Len(ids) = Cardinality(S)
         /\ \A i, j \in 1 .. Len(ids) : ids[i] = ids[j] => i = j
         /\ \A t \in S : \E i \in 1 .. Len(ids) : ids[i] = t
<1>1. IsFiniteSet(S) /\ Cardinality(S) \in Nat
  BY DraftAssumption, FS_Subset, FS_CardinalityType
<1> DEFINE n == Cardinality(S)
<1>2. /\ ids \in [1 .. n -> S]
      /\ \A i, j \in 1 .. n : i < j => ids[i] < ids[j]
  BY DEF InOrderOfId
<1>3. \A i, j \in 1 .. n : ids[i] = ids[j] => i = j
  <2>1. \A t \in S : t \in Int
    BY DraftAssumption
  <2>2. \A i, j \in 1 .. n : i = j \/ i < j \/ j < i
    BY <1>1
  <2> QED BY <1>2, <2>1, <2>2
<1>4. ids \in Injection(1 .. n, S)
  BY <1>2, <1>3 DEF Injection, IsInjective
<1>5. IsFiniteSet(1 .. n) /\ Cardinality(1 .. n) = n
  BY <1>1, FS_Interval
<1>6. ids \in Surjection(1 .. n, S)
  BY <1>1, <1>4, <1>5, FS_Injection
<1>7. \A t \in S : \E i \in 1 .. n : ids[i] = t
  BY <1>6 DEF Surjection
<1>8. ids \in Seq(TeamId) /\ Len(ids) = n
  <2>1. ids \in [1 .. n -> TeamId]
    BY <1>2
  <2> QED BY <1>1, <2>1
<1> QED BY <1>2, <1>3, <1>7, <1>8

LEMMA SeasonStarts == Init => SeasonInv
<1> SUFFICES ASSUME Init PROVE SeasonInv
  OBVIOUS
<1>1. PICK ids \in InOrderOfId(TeamId) : t_team = [s \in DOMAIN ids |-> TeamRow(ids[s], FirstYear)]
  BY DEF Init, TestLeague
<1>2. /\ ids \in Seq(TeamId) /\ ids \in [1 .. Len(ids) -> TeamId]
      /\ \A i, j \in 1 .. Len(ids) : ids[i] = ids[j] => i = j
      /\ \A t \in TeamId : \E i \in 1 .. Len(ids) : ids[i] = t
  BY <1>1, InOrderIsSeq
<1>3. \A t \in TeamId : TeamRow(t, FirstYear) \in TeamRows /\ TeamRow(t, FirstYear).team = t
                        /\ TeamRow(t, FirstYear).active /\ TeamRow(t, FirstYear).year = FirstYear
  BY DEF TeamRow, TeamRows, Years
<1> HIDE DEF TeamRow
<1>4. t_team \in [1 .. Len(ids) -> TeamRows] /\ Len(ids) \in Nat
  BY <1>1, <1>2, <1>3
<1>5. t_team \in Seq(TeamRows) /\ Season = 1 .. Len(ids)
  BY <1>4 DEF Season
<1>6. ActiveRows = 1 .. Len(ids) /\ \A s \in 1 .. Len(ids) : t_team[s].team = ids[s] /\ t_team[s].year = FirstYear
  BY <1>1, <1>2, <1>3, <1>5 DEF ActiveRows
<1>7. /\ script = "off" /\ league_year = FirstYear /\ results = {} /\ hand_over = 0
  BY DEF Init
<1> QED BY <1>2, <1>5, <1>6, <1>7 DEF SeasonInv, Years

\* What is written but to the team, the year and the state of a row.
SameRows ==
  /\ Season' = Season /\ t_team' \in Seq(TeamRows)
  /\ \A s \in Season : /\ t_team'[s].team = t_team[s].team /\ t_team'[s].year = t_team[s].year
                       /\ t_team'[s].active = t_team[s].active

LEMMA SameSeason ==
  ASSUME SeasonInv, SameRows,
         UNCHANGED <<league_year, results, hand_over, died, script>>
  PROVE  SeasonInv'
<1>1. ActiveRows' = ActiveRows /\ \A s \in ActiveRows : s \in Season
  BY DEF SameRows, ActiveRows
<1>2. hand_over # 0 => t_team'[hand_over].team = t_team[hand_over].team
  BY DEF SeasonInv, SameRows
<1> QED BY <1>1, <1>2 DEF SeasonInv, SameRows

LEMMA OwnerWritten ==
  ASSUME SeasonInv, NEW t, NEW c \in Client, t_team' = WithOwner(t, c)
  PROVE  SameRows
<1>1. /\ Season = 1 .. Len(t_team) /\ Len(t_team) \in Nat
      /\ \A s \in Season : t_team[s] \in TeamRows
  BY SeasonRows
<1>2. \A s \in Season : LET row == [t_team[s] EXCEPT !.owner = c]
                        IN  /\ row \in TeamRows /\ row.team = t_team[s].team
                            /\ row.year = t_team[s].year /\ row.active = t_team[s].active
  BY <1>1 DEF TeamRows
<1>3. Season' = Season
  BY DEF WithOwner, Season
<1>4. \A s \in Season : t_team'[s] = t_team[s] \/ t_team'[s] = [t_team[s] EXCEPT !.owner = c]
  BY DEF WithOwner
<1>5. t_team' \in [1 .. Len(t_team) -> TeamRows]
  BY <1>1, <1>2, <1>4 DEF WithOwner
<1>6. t_team' \in Seq(TeamRows)
  BY <1>1, <1>5
<1> QED BY <1>2, <1>3, <1>4, <1>6 DEF SameRows

LEMMA SeasonStep == SeasonInv /\ [Next]_vars => SeasonInv'
<1> SUFFICES ASSUME SeasonInv, [Next]_vars PROVE SeasonInv'
  OBVIOUS
<1>1. /\ Season = 1 .. Len(t_team) /\ Len(t_team) \in Nat
      /\ \A s \in Season : t_team[s] \in TeamRows
  BY SeasonRows
<1>2. CASE UNCHANGED <<league_year, t_team, results, hand_over, died, script>>
  BY <1>2 DEF SeasonInv, ActiveRows, Season
<1>3. CASE /\ script # "teams" /\ script' \notin {"teams", "dead"}
           /\ UNCHANGED <<league_year, t_team, results, hand_over, died>>
  BY <1>3 DEF SeasonInv, ActiveRows, Season
<1>4. CASE NewYear
  <2>1. /\ script' = "teams" /\ league_year' \in Year /\ results' = ActiveRows
        /\ UNCHANGED <<t_team, hand_over, died>> /\ hand_over = 0 /\ script # "teams"
    BY <1>4 DEF NewYear, SeasonInv
  <2>2. ActiveRows' = ActiveRows
    BY <2>1 DEF ActiveRows, Season
  <2> QED BY <2>1, <2>2 DEF SeasonInv, Season, Years
<1>5. ASSUME NEW s \in results, Deactivate(s) PROVE SeasonInv'
  <2>1. /\ script = "teams" /\ hand_over = 0 /\ s \in ActiveRows /\ s \in Season
        /\ t_team' = [t_team EXCEPT ![s].active = FALSE]
        /\ hand_over' = s /\ results' = results \ {s}
        /\ UNCHANGED <<script, league_year, died>>
    BY <1>5 DEF Deactivate, SeasonInv, ActiveRows
  <2> DEFINE old == [t_team[s] EXCEPT !.active = FALSE]
  <2>2. old \in TeamRows /\ old.team = t_team[s].team /\ old.active = FALSE
    BY <1>1, <2>1 DEF TeamRows
  <2>3. t_team' = [t_team EXCEPT ![s] = old]
    BY <2>1
  <2> HIDE DEF old
  <2>4. t_team' \in Seq(TeamRows) /\ Season' = Season
    <3>1. t_team' \in [1 .. Len(t_team) -> TeamRows]
      BY <1>1, <2>1, <2>2, <2>3 DEF Season
    <3> QED BY <1>1, <2>3, <3>1 DEF Season
  <2>5. \A r \in Season : /\ t_team'[r].team = t_team[r].team
                          /\ r # s => t_team'[r] = t_team[r]
    BY <1>1, <2>2, <2>3
  <2>6. ~t_team'[s].active
    BY <1>1, <2>1, <2>2, <2>3
  <2>7. ActiveRows' = ActiveRows \ {s}
    BY <2>4, <2>5, <2>6 DEF ActiveRows
  <2>8. 0 \notin Season
    BY <1>1
  <2>9. \A r \in ActiveRows : r \in Season
    BY DEF ActiveRows
  <2> HIDE DEF Season, ActiveRows
  <2>10. /\ results' \subseteq ActiveRows' /\ hand_over' \in Season'
         /\ \A r, q \in ActiveRows' : t_team'[r].team = t_team'[q].team => r = q
         /\ \A r \in ActiveRows' : t_team'[r].team # t_team'[hand_over'].team
    BY <2>1, <2>4, <2>5, <2>7, <2>9 DEF SeasonInv
  <2>11. ~died => /\ \A t \in TeamId : \/ \E r \in ActiveRows' : t_team'[r].team = t
                                       \/ t_team'[s].team = t
                  /\ \A r \in ActiveRows' \ results' : t_team'[r].year = league_year
    BY <2>1, <2>5, <2>7, <2>9 DEF SeasonInv
  <2> QED BY <2>1, <2>4, <2>8, <2>10, <2>11 DEF SeasonInv
<1>6. CASE InsertSeason
  <2> DEFINE new == Inserted(t_team[hand_over])
             last == Len(t_team) + 1
  <2>1. /\ script = "teams" /\ hand_over # 0 /\ hand_over \in Season
        /\ t_team' = Append(t_team, new)
        /\ hand_over' = 0 /\ UNCHANGED <<script, league_year, results, died>>
    BY <1>6 DEF InsertSeason, SeasonInv
  <2>2. /\ new \in TeamRows /\ new.team = t_team[hand_over].team /\ new.year = league_year
        /\ new.active
    BY <1>1, <2>1 DEF Inserted, TeamRow, TeamRows, SeasonInv
  <2> HIDE DEF new
  <2>3. /\ t_team' \in Seq(TeamRows) /\ Len(t_team') = last
        /\ t_team'[last] = new /\ \A s \in Season : t_team'[s] = t_team[s]
    BY <1>1, <2>1, <2>2 DEF SeasonInv
  <2>4. Season' = Season \cup {last} /\ last \notin Season
    BY <1>1, <2>3 DEF Season
  <2>5. ActiveRows' = ActiveRows \cup {last}
    BY <2>2, <2>3, <2>4 DEF ActiveRows
  <2>6. \A r \in ActiveRows : r \in Season
    BY DEF ActiveRows
  <2> HIDE DEF last, Season, ActiveRows
  <2>7. /\ t_team'[last].team = t_team[hand_over].team /\ t_team'[last].year = league_year
        /\ \A r \in ActiveRows : t_team'[r].team = t_team[r].team /\ t_team'[r].year = t_team[r].year
    BY <2>2, <2>3, <2>6
  <2>8. /\ \A r, q \in ActiveRows : t_team[r].team = t_team[q].team => r = q
        /\ \A r \in ActiveRows : t_team[r].team # t_team[hand_over].team
        /\ results \subseteq ActiveRows
    BY <2>1 DEF SeasonInv
  <2>9. \A r, q \in ActiveRows' : t_team'[r].team = t_team'[q].team => r = q
    BY <2>5, <2>7, <2>8
  <2>10. ASSUME ~died
         PROVE  /\ \A t \in TeamId : \E r \in ActiveRows' : t_team'[r].team = t
                /\ \A r \in ActiveRows' \ results' : t_team'[r].year = league_year
    <3>1. /\ \A t \in TeamId : \/ \E s \in ActiveRows : t_team[s].team = t
                              \/ t_team[hand_over].team = t
          /\ \A s \in ActiveRows \ results : t_team[s].year = league_year
      BY <2>10 DEF SeasonInv
    <3>2. \A t \in TeamId : \E r \in ActiveRows' : t_team'[r].team = t
      BY <2>5, <2>7, <3>1
    <3>3. \A r \in ActiveRows' \ results' : r = last \/ r \in ActiveRows \ results
      BY <2>1, <2>5
    <3> QED BY <2>7, <3>1, <3>2, <3>3
  <2> QED BY <2>1, <2>3, <2>5, <2>8, <2>9, <2>10 DEF SeasonInv
<1>7. CASE CreatePlayers
  BY <1>7 DEF CreatePlayers, SeasonInv, ActiveRows, Season
<1>8. CASE Die
  BY <1>8 DEF Die, SeasonInv, ActiveRows, Season
<1>9. CASE Clear \/ Retire \/ InitLineups \/ InsertHand("right", "R", "left")
           \/ InsertHand("left", "L", "starters") \/ Starters
  <2>1. /\ script # "teams" /\ script' \notin {"teams", "dead"}
        /\ UNCHANGED <<league_year, t_team, results, hand_over, died>>
    BY <1>9 DEF Clear, Retire, InitLineups, InsertHand, Starters
  <2> QED BY <1>3, <2>1
<1>10. CASE RunDraft \/ Drafting
  BY <1>2, <1>10 DEF RunDraft, Drafting, restart
<1>11. CASE Script
  BY <1>4, <1>5, <1>6, <1>7, <1>8, <1>9, <1>10, <1>11 DEF Script
<1>12. ASSUME NEW c \in Client, NEW t, SelectTeam(c, t) \/ CreateUser(c, t) PROVE SeasonInv'
  <2>1. /\ t_team' = WithOwner(t, c)
        /\ UNCHANGED <<league_year, results, hand_over, died, script>>
    BY <1>12 DEF SelectTeam, CreateUser
  <2> QED BY <2>1, OwnerWritten, SameSeason
<1>13. ASSUME NEW c \in Client, LookUp(c) \/ SignUp(c) \/ SelectForm(c) PROVE SeasonInv'
  <2>1. UNCHANGED restart
    BY <1>13 DEF LookUp, SignUp, SelectForm
  <2> QED BY <1>2, <2>1 DEF restart
<1>14. CASE OpenFile \/ NewFile \/ NewFileDone
  <2>1. UNCHANGED restart
    BY <1>14 DEF OpenFile, NewFile, NewFileDone, Refreshed
  <2> QED BY <1>2, <2>1 DEF restart
<1>15. CASE UNCHANGED vars
  BY <1>2, <1>15 DEF vars, restart
<1> QED BY <1>11, <1>12, <1>13, <1>14, <1>15 DEF Next, People

LEMMA SeasonKept == Spec => []SeasonInv
BY SeasonStarts, SeasonStep, PTL DEF Spec

\* However many teams and years there are and whenever the script dies, no team
\* ever has two active rows, and a script that has never died leaves each team
\* one of this year.
THEOREM OneSeasonForEach == Spec => []OneSeasonEach
<1>1. SeasonInv => OneSeasonEach
  <2> SUFFICES ASSUME SeasonInv PROVE OneSeasonEach
    OBVIOUS
  <2>1. \A s \in ActiveRows : t_team[s].team \in TeamId
    <3>1. \A s \in Season : t_team[s] \in TeamRows
      BY SeasonRows
    <3> QED BY <3>1 DEF ActiveRows, TeamRows
  <2>2. ASSUME ~died, ~Running
        PROVE  /\ {t_team[s].team : s \in ActiveRows} = TeamId
               /\ \A s \in ActiveRows : t_team[s].year = league_year
    <3>1. results = {} /\ hand_over = 0
      BY <2>2 DEF SeasonInv, Running
    <3> QED BY <2>1, <2>2, <3>1 DEF SeasonInv
  <2> QED BY <2>2 DEF OneSeasonEach, SeasonInv
<1> QED BY <1>1, SeasonKept, PTL

-----------------------------------------------------------------------------
(* The draft is run_draft's, as on its own: what surrounds it writes none  *)
(* of its rows but to delete them before the next one.                     *)

LEMMA ActiveTeamsRead ==
  ASSUME SeasonInv, NEW ids \in ActiveTeams
  PROVE  ids \in Seq(TeamId)
<1> DEFINE S == {t_team[s].team : s \in ActiveRows}
<1>1. Season = 1 .. Len(t_team) /\ \A s \in Season : t_team[s] \in TeamRows
  BY DEF SeasonInv, Season
<1>2. S \in SUBSET TeamId
  BY <1>1 DEF ActiveRows, TeamRows
<1>3. ids \in InOrderOfId(S)
  BY DEF ActiveTeams
<1> HIDE DEF S
<1> QED BY <1>2, <1>3, InOrderIsSeq

LEMMA LeagueDraftStarts == Init => DraftInv
BY DEF Init, DraftStart, DraftInv, NobodyTwice, BestTaken

LEMMA LeagueDraftStep == SeasonInv /\ DraftInv /\ [Next]_vars => DraftInv'
<1> SUFFICES ASSUME SeasonInv, DraftInv, [Next]_vars PROVE DraftInv'
  OBVIOUS
<1>1. CASE UNCHANGED <<t_draft, drafting>>
  BY <1>1 DEF drafting, DraftInv, PickInv, NobodyTwice, BestTaken
<1>2. CASE Clear
  BY <1>2 DEF Clear, DraftInv, NobodyTwice, BestTaken
<1>3. CASE RunDraft
  <2>1. PICK ids \in ActiveTeams : DraftBegin(ids)
    BY <1>3 DEF RunDraft
  <2>2. draft = "off" /\ UNCHANGED <<db, tables>>
    BY <1>3 DEF RunDraft
  <2> QED BY <2>1, <2>2, ActiveTeamsRead, BeginKeeps
<1>4. CASE Drafting
  <2>1. CASE Pick(league_year)
    BY <2>1, PickKeeps
  <2>2. CASE DraftFails
    BY <2>2, FailKeeps
  <2>3. CASE DraftEnd
    BY <2>3, EndKeeps
  <2> QED BY <1>4, <2>1, <2>2, <2>3 DEF Drafting, DraftStep
<1>5. CASE Script
  <2>1. CASE \/ Retire \/ NewYear \/ (\E s \in results : Deactivate(s)) \/ InsertSeason
             \/ CreatePlayers \/ InitLineups \/ InsertHand("right", "R", "left")
             \/ InsertHand("left", "L", "starters") \/ Starters \/ Die
    <3>1. UNCHANGED <<t_draft, drafting>>
      BY <2>1 DEF Retire, NewYear, Deactivate, InsertSeason, CreatePlayers, InitLineups,
                  InsertHand, Starters, Die, tables
    <3> QED BY <1>1, <3>1
  <2> QED BY <1>2, <1>3, <1>4, <1>5, <2>1 DEF Script
<1>6. CASE People \/ OpenFile \/ NewFile \/ NewFileDone
  <2>1. UNCHANGED <<t_draft, drafting>>
    BY <1>6 DEF People, LookUp, SignUp, SelectForm, SelectTeam, CreateUser, OpenFile,
                NewFile, NewFileDone, Refreshed, tables
  <2> QED BY <1>1, <2>1
<1>7. CASE UNCHANGED vars
  BY <1>1, <1>7 DEF vars, tables
<1> QED BY <1>5, <1>6, <1>7 DEF Next

LEMMA LeagueDraftKept == Spec => [](SeasonInv /\ DraftInv)
<1>1. Init => SeasonInv /\ DraftInv
  BY SeasonStarts, LeagueDraftStarts
<1>2. SeasonInv /\ DraftInv /\ [Next]_vars => (SeasonInv /\ DraftInv)'
  BY SeasonStep, LeagueDraftStep
<1> QED BY <1>1, <1>2, PTL DEF Spec

\* In every draft of a league's life nobody is drafted twice.
THEOREM LeagueDraftsNobodyTwice == Spec => []NobodyTwice
<1>1. DraftInv => NobodyTwice
  BY DEF DraftInv
<1> QED BY <1>1, LeagueDraftKept, PTL

\* In every draft of a league's life the best of a position are taken first.
THEOREM LeagueTakesBest == Spec => []BestTaken
<1>1. DraftInv => BestTaken
  BY DEF DraftInv
<1> QED BY <1>1, LeagueDraftKept, PTL

-----------------------------------------------------------------------------
(* Players and their rows. *)

PlayerRows ==
  [status : {"none", "draftee", "roster", "fa", "retired"}, team : TeamId \cup {0}]

\* Whoever can be drafted is of this year; whoever is on a roster has his rows.
OfThisYear(players) ==
  \A x \in Player : players[x].status = "draftee" => x.year = league_year
OnRoster(players) == {x \in Player : players[x].status = "roster"}
HasRows(x) ==
  /\ \E d \in t_draft : d.player = x /\ d.team = t_player[x].team
  /\ x.year = league_year
  /\ [player |-> x, team |-> t_player[x].team, year |-> league_year] \in t_stat

Empty(rows) == rows[2] = {} /\ rows[3] = {} /\ rows[4] = {}

\* While run_draft is at work: what it could restore, and whom it can draft.
DraftingInv ==
  /\ before[1] \in [Player -> PlayerRows]
  /\ OnRoster(before[1]) = {} /\ OfThisYear(before[1]) /\ Empty(before)
  /\ \A j \in DOMAIN prefs, p \in Position :
       \A i \in 1 .. Len(prefs[j][p]) : prefs[j][p][i].year = league_year

RosterInv ==
  /\ t_player \in [Player -> PlayerRows]
  /\ draft \in {"off", "pick", "end", "done", "failed"}
  /\ draft \in {"pick", "end"} => script = "draft"
  /\ draft = "failed" => script \in {"draft", "dead"}
  /\ script \in {"right", "left", "starters", "done"} => draft = "done"
  /\ script \in {"off", "retire", "year", "teams"} => draft = "off"
  /\ draft = "off" => Empty(tables)
  /\ draft = "off" /\ script # "retire" => OnRoster(t_player) = {}
  /\ OfThisYear(t_player)
  /\ script \in {"year", "teams"} =>
       \A x \in Player : t_player[x].status \in {"none", "retired"}
  /\ script # "retire" => \A x \in OnRoster(t_player) : HasRows(x)
  /\ draft = "pick" => DraftingInv
  /\ db = "sqlite" /\ draft = "failed" => Empty(tables)

LEMMA RosterStarts == Init => RosterInv
<1> SUFFICES ASSUME Init PROVE RosterInv
  OBVIOUS
<1>1. /\ t_player = [x \in Player |-> Absent] /\ script = "off" /\ draft = "off"
      /\ t_draft = {} /\ t_lineup = {} /\ t_rotation = {}
  BY DEF Init, DraftStart
<1>2. Absent \in PlayerRows /\ Absent.status = "none"
  BY DEF Absent, PlayerRows
<1>3. t_player \in [Player -> PlayerRows] /\ \A x \in Player : t_player[x].status = "none"
  BY <1>1, <1>2
<1>4. Empty(tables)
  BY <1>1 DEF Empty, tables
<1> QED BY <1>1, <1>3, <1>4 DEF RosterInv, OnRoster, OfThisYear

\* A pick puts the head of the lists, a draftee of this year, on a roster, and
\* with him all his rows.
LEMMA PickRoster ==
  ASSUME SeasonInv, DraftInv, RosterInv, Pick(league_year), UNCHANGED <<db, script, league_year>>
  PROVE  RosterInv'
<1> DEFINE list == prefs[next][position]
           x == Head(list)
           team == teams[next]
           row == [status |-> "roster", team |-> team]
<1>1. /\ draft = "pick" /\ PickInv /\ List # <<>>
      /\ DraftPick(Head(List), team, league_year)
      /\ prefs' = Removed(Head(List)) /\ Advance
      /\ before' = before /\ DraftingInv
  BY DEF Pick, DraftInv, RosterInv
<1>2. /\ next \in DOMAIN prefs /\ next \in 1 .. Len(teams) /\ List = list
  <2>1. Len(teams) \in Nat /\ next \in Nat \ {0} /\ next <= Len(teams) /\ List = list
    BY <1>1, DraftAssumption DEF PickInv, List
  <2> QED BY <1>1, <2>1 DEF PickInv
<1>3. /\ position \in Position /\ list # <<>> /\ list \in Seq(Player) /\ Len(list) \in Nat \ {0}
      /\ x = list[1] /\ x \in Player /\ x.year = league_year
  <2>1. position \in Position /\ Ranked(list, position) /\ list # <<>>
    BY <1>1, <1>2 DEF PickInv
  <2>2. list \in Seq(Player)
    BY <2>1 DEF Ranked
  <2>3. Len(list) \in Nat \ {0} /\ x = list[1] /\ x \in Player
    BY <2>1, <2>2
  <2>4. list[1].year = league_year
    BY <1>1, <1>2, <2>1, <2>3 DEF DraftingInv
  <2> QED BY <2>1, <2>2, <2>3, <2>4
<1>4. row \in PlayerRows
  BY <1>1, <1>2 DEF PickInv, PlayerRows
<1> HIDE DEF x, list, row
<1>5. /\ t_player' = [t_player EXCEPT ![x] = row]
      /\ \E d \in t_draft' : d.player = x /\ d.team = team
      /\ t_draft \subseteq t_draft'
      /\ t_stat' = t_stat \cup {[player |-> x, team |-> team, year |-> league_year]}
  <2>1. Head(List) = x
    BY <1>2 DEF x
  <2> DEFINE entry == [team |-> team, player |-> x, round |-> overall,
                       pick |-> next + (round - 1) * NumberOfTeams]
  <2>2. t_draft' = t_draft \cup {entry} /\ t_player' = [t_player EXCEPT ![x] = row]
        /\ t_stat' = t_stat \cup {[player |-> x, team |-> team, year |-> league_year]}
    BY <1>1, <2>1 DEF DraftPick, row
  <2>3. entry.player = x /\ entry.team = team
    OBVIOUS
  <2> HIDE DEF entry
  <2> QED BY <2>2, <2>3
<1>6. t_player' \in [Player -> PlayerRows]
  BY <1>3, <1>4, <1>5 DEF RosterInv
<1>7. \A y \in Player : IF y = x THEN t_player'[y].status = "roster" /\ t_player'[y].team = team
                                 ELSE t_player'[y] = t_player[y]
  BY <1>3, <1>5 DEF RosterInv, row
<1>8. OfThisYear(t_player)'
  BY <1>7 DEF OfThisYear, RosterInv
<1>9. \A y \in OnRoster(t_player') : HasRows(y)'
  <2>1. script # "retire"
    BY <1>1 DEF RosterInv
  <2>2. ASSUME NEW y \in Player, y # x, t_player'[y].status = "roster" PROVE HasRows(y)'
    <3>1. HasRows(y) /\ t_player'[y] = t_player[y]
      BY <1>7, <2>1, <2>2 DEF RosterInv, OnRoster
    <3> QED BY <1>5, <3>1 DEF HasRows
  <2>3. ASSUME NEW y \in Player, y = x PROVE HasRows(y)'
    <3>1. t_player'[y].team = team /\ y.year = league_year'
      BY <1>3, <1>7, <2>3
    <3> QED BY <1>5, <2>3, <3>1 DEF HasRows
  <2>4. \A y \in Player : t_player'[y].status = "roster" => HasRows(y)'
    BY <2>2, <2>3
  <2> QED BY <2>4 DEF OnRoster
<1>10. draft' \in {"pick", "end"}
  BY <1>1 DEF Advance
<1>11. DraftingInv'
  <2>1. \A j \in DOMAIN prefs : prefs[j] = prefs[next] /\ DOMAIN prefs[j] = Position
    BY <1>1, <1>2 DEF PickInv
  <2> DEFINE rest == RemoveValue(list, x)
  <2>2. /\ DOMAIN prefs' = DOMAIN prefs
        /\ \A j \in DOMAIN prefs : prefs'[j] = [prefs[j] EXCEPT ![position] = rest]
    <3>1. Head(List) = x
      BY <1>2 DEF x
    <3> QED BY <1>1, <2>1, <3>1 DEF Removed, list
  <2>3. Len(rest) = Len(list) - 1 /\ \A i \in 1 .. Len(list) - 1 : rest[i] = list[i + 1]
    BY <1>3, RemoveHead DEF x
  <2>4. \A i \in 1 .. Len(list) : list[i].year = league_year
    BY <1>1, <1>2, <1>3 DEF DraftingInv, list
  <2>5. \A i \in 1 .. Len(rest) : rest[i].year = league_year
    BY <1>3, <2>3, <2>4
  <2> HIDE DEF rest
  <2>6. ASSUME NEW j \in DOMAIN prefs', NEW p \in Position, NEW i \in 1 .. Len(prefs'[j][p])
        PROVE  prefs'[j][p][i].year = league_year
    <3>1. CASE p = position
      BY <1>3, <2>1, <2>2, <2>5, <2>6, <3>1
    <3>2. CASE p # position
      <4>1. prefs'[j][p] = prefs[j][p]
        BY <1>3, <2>1, <2>2, <2>6, <3>2
      <4> QED BY <1>1, <2>2, <2>6, <4>1 DEF DraftingInv
    <3> QED BY <3>1, <3>2
  <2> QED BY <1>1, <2>6 DEF DraftingInv, OfThisYear, OnRoster, Empty
<1> QED BY <1>1, <1>6, <1>8, <1>9, <1>10, <1>11 DEF RosterInv

\* A draft that fails leaves on SQLite what was there before it.
LEMMA FailRoster ==
  ASSUME DraftInv, RosterInv, DraftFails, UNCHANGED <<db, script, league_year>>
  PROVE  RosterInv'
<1>1. draft = "pick" /\ draft' = "failed" /\ DraftingInv /\ script = "draft"
  BY DEF DraftFails, RosterInv
<1>2. CASE db = "sqlite"
  <2>1. /\ t_player' = before[1] /\ t_draft' = before[2] /\ t_lineup' = before[3]
        /\ t_rotation' = before[4]
    BY <1>2 DEF DraftFails, GivenUp
  <2>2. Empty(tables)'
    BY <1>1, <2>1 DEF DraftingInv, Empty, tables
  <2>3. t_player' \in [Player -> PlayerRows] /\ OnRoster(t_player)' = {} /\ OfThisYear(t_player)'
    BY <1>1, <2>1 DEF DraftingInv, OnRoster, OfThisYear
  <2> QED BY <1>1, <2>2, <2>3 DEF RosterInv
<1>3. CASE db # "sqlite"
  <2>1. UNCHANGED <<t_player, t_draft, t_lineup, t_rotation, t_stat>>
    BY <1>3 DEF DraftFails, GivenUp, tables
  <2>2. \A x \in OnRoster(t_player') : HasRows(x)'
    BY <1>1, <2>1 DEF RosterInv, HasRows, OnRoster
  <2> QED BY <1>1, <1>3, <2>1, <2>2 DEF RosterInv, OfThisYear, OnRoster
<1> QED BY <1>2, <1>3

LEMMA EndRoster ==
  ASSUME RosterInv, DraftEnd, UNCHANGED <<db, script, league_year>>
  PROVE  RosterInv'
<1>1. /\ draft = "end" /\ draft' = "done" /\ script = "draft"
      /\ t_player' = [x \in Player |-> IF t_player[x].status = "draftee"
                                         THEN [t_player[x] EXCEPT !.status = "fa"]
                                         ELSE t_player[x]]
      /\ UNCHANGED <<t_draft, t_stat>>
  BY DEF DraftEnd, RosterInv
<1>2. \A r \in PlayerRows : LET fa == [r EXCEPT !.status = "fa"]
                            IN  fa \in PlayerRows /\ fa.status = "fa"
  BY DEF PlayerRows
<1>3. \A x \in Player : t_player[x] \in PlayerRows
  BY DEF RosterInv
<1>4. t_player' \in [Player -> PlayerRows]
  BY <1>1, <1>2, <1>3
<1>5. \A x \in Player : /\ t_player'[x].status # "draftee"
                        /\ t_player'[x].status = "roster" => t_player'[x] = t_player[x]
  BY <1>1, <1>2, <1>3
<1>6. ASSUME NEW x \in OnRoster(t_player') PROVE HasRows(x)'
  <2>1. x \in Player /\ t_player'[x] = t_player[x] /\ t_player[x].status = "roster"
    BY <1>5 DEF OnRoster
  <2>2. HasRows(x)
    BY <1>1, <2>1 DEF RosterInv, OnRoster
  <2> QED BY <1>1, <2>1, <2>2 DEF HasRows
<1>7. OfThisYear(t_player)'
  BY <1>5 DEF OfThisYear
<1> QED BY <1>1, <1>4, <1>6, <1>7 DEF RosterInv

\* A draft begins with nobody on a roster.
LEMMA BeginRoster ==
  ASSUME RosterInv, script = "draft", draft = "off", NEW ids \in Seq(TeamId), DraftBegin(ids),
         UNCHANGED <<db, tables, script, league_year>>
  PROVE  RosterInv'
<1>1. PICK order \in [Position -> UNION {BestFirst(Draftees(p)) : p \in Position}] :
        /\ \A p \in Position : order[p] \in BestFirst(Draftees(p))
        /\ prefs' = [j \in DOMAIN ids |-> order]
  BY DEF DraftBegin
<1>2. ASSUME NEW p \in Position, NEW i \in 1 .. Len(order[p]) PROVE order[p][i].year = league_year
  <2>1. order[p] \in [1 .. Cardinality(Draftees(p)) -> Draftees(p)]
    BY <1>1 DEF BestFirst
  <2>2. order[p] \in Seq(Player) /\ DOMAIN order[p] = 1 .. Len(order[p])
    BY <1>1, BestFirstRanked DEF Ranked
  <2>3. order[p][i] \in Draftees(p)
    BY <2>1, <2>2
  <2> QED BY <2>3 DEF Draftees, RosterInv, OfThisYear
<1>3. before' = tables /\ draft' = "pick"
  BY DEF DraftBegin
<1>4. DraftingInv'
  <2>1. before'[1] = t_player /\ Empty(before') /\ OnRoster(t_player) = {}
    BY <1>3 DEF RosterInv, tables
  <2>2. \A j \in DOMAIN prefs', p \in Position :
          \A i \in 1 .. Len(prefs'[j][p]) : prefs'[j][p][i].year = league_year'
    BY <1>1, <1>2
  <2> QED BY <2>1, <2>2 DEF DraftingInv, RosterInv, OfThisYear, OnRoster
<1> QED BY <1>3, <1>4 DEF RosterInv, tables, HasRows, OnRoster, OfThisYear

\* What leaves the players and the draft's rows alone.
LEMMA SameRoster ==
  ASSUME RosterInv, UNCHANGED <<t_player, t_draft, t_lineup, t_rotation, t_stat, drafting>>,
         UNCHANGED <<db, league_year>>,
         \/ script' = script
         \/ script \in {"right", "left", "starters"} /\ script' \in {"left", "starters", "done"}
         \/ script \notin {"off", "retire", "done", "dead"} /\ script' = "dead" /\ draft \notin {"pick", "end"}
  PROVE  RosterInv'
BY DEF RosterInv, drafting, OnRoster, OfThisYear, HasRows, Empty, tables, DraftingInv

\* init_lineups writes lineups and slots only.
LEMMA LineupsRoster ==
  ASSUME RosterInv, draft = "done", UNCHANGED <<t_player, t_draft, t_stat, drafting>>,
         UNCHANGED <<db, league_year>>, script \in {"draft", "right", "left", "starters"},
         script' \in {"right", "left", "starters", "done"}
  PROVE  RosterInv'
BY DEF RosterInv, drafting, OnRoster, OfThisYear, HasRows

LEMMA RosterStep == SeasonInv /\ DraftInv /\ RosterInv /\ [Next]_vars => RosterInv'
<1> SUFFICES ASSUME SeasonInv, DraftInv, RosterInv, [Next]_vars PROVE RosterInv'
  OBVIOUS
<1>1. CASE Clear
  <2>1. /\ script' = "retire" /\ draft' = "off" /\ UNCHANGED <<t_player, t_stat, league_year>>
        /\ t_draft' = {} /\ t_lineup' = {} /\ t_rotation' = {}
    BY <1>1 DEF Clear
  <2>2. Empty(tables)'
    BY <2>1 DEF Empty, tables
  <2> QED BY <2>1, <2>2 DEF RosterInv, OfThisYear
<1>2. CASE Retire
  <2>1. /\ script = "retire" /\ script' = "year" /\ draft = "off"
        /\ t_player' = [x \in Player |-> Retired(t_player[x])]
        /\ UNCHANGED <<t_draft, t_lineup, t_rotation, t_stat, drafting>>
    BY <1>2 DEF Retire, RosterInv
  <2>2. \A r \in PlayerRows : /\ Retired(r) \in PlayerRows
                              /\ Retired(r).status \in {"none", "retired"}
    BY DEF Retired, PlayerRows
  <2>3. /\ t_player' \in [Player -> PlayerRows]
        /\ \A x \in Player : t_player'[x].status \in {"none", "retired"}
    BY <2>1, <2>2 DEF RosterInv
  <2>4. Empty(tables)' /\ draft' = "off"
    BY <2>1 DEF RosterInv, Empty, tables, drafting
  <2> QED BY <2>1, <2>3, <2>4 DEF RosterInv, OnRoster, OfThisYear
<1>3. CASE NewYear
  <2>1. /\ script = "year" /\ script' = "teams" /\ UNCHANGED <<tables, drafting>> /\ draft = "off"
        /\ UNCHANGED <<t_player, t_draft, t_lineup, t_rotation, t_stat>>
    BY <1>3 DEF NewYear, RosterInv, tables
  <2>2. \A x \in Player : t_player[x].status \in {"none", "retired"}
    BY <2>1 DEF RosterInv
  <2>3. OfThisYear(t_player)' /\ OnRoster(t_player)' = {}
    BY <2>1, <2>2 DEF OfThisYear, OnRoster
  <2>4. Empty(tables)' /\ draft' = "off"
    BY <2>1 DEF RosterInv, drafting
  <2> QED BY <2>1, <2>2, <2>3, <2>4 DEF RosterInv
<1>4. CASE CreatePlayers
  <2>1. /\ script = "teams" /\ script' = "draft" /\ draft = "off" /\ league_year' = league_year
        /\ UNCHANGED <<t_draft, t_lineup, t_rotation, t_stat, drafting>>
    BY <1>4 DEF CreatePlayers, RosterInv
  <2>2. PICK pool \in Pools :
          t_player' = [x \in Player |->
            IF x.year = league_year /\ x.rank <= pool[x.position] THEN Free ELSE t_player[x]]
    BY <1>4 DEF CreatePlayers
  <2>3. Free \in PlayerRows /\ Free.status = "draftee"
    BY DEF Free, PlayerRows
  <2>4. \A x \in Player : t_player[x].status \in {"none", "retired"}
    BY <2>1 DEF RosterInv
  <2>5. /\ t_player' \in [Player -> PlayerRows]
        /\ OfThisYear(t_player)' /\ OnRoster(t_player)' = {}
    BY <2>1, <2>2, <2>3, <2>4 DEF RosterInv, OfThisYear, OnRoster
  <2>6. Empty(tables)' /\ draft' = "off"
    BY <2>1 DEF RosterInv, Empty, tables, drafting
  <2> QED BY <2>1, <2>5, <2>6 DEF RosterInv
<1>5. CASE RunDraft
  <2>1. PICK ids \in ActiveTeams : DraftBegin(ids)
    BY <1>5 DEF RunDraft
  <2>2. /\ script = "draft" /\ draft = "off"
        /\ UNCHANGED <<db, tables, script, league_year>>
    BY <1>5 DEF RunDraft, restart
  <2> QED BY <2>1, <2>2, ActiveTeamsRead, BeginRoster
<1>6. CASE Drafting
  <2>1. UNCHANGED <<db, script, league_year>>
    BY <1>6 DEF Drafting, restart
  <2> QED BY <1>6, <2>1, PickRoster, FailRoster, EndRoster DEF Drafting, DraftStep
<1>7. CASE \/ InitLineups \/ InsertHand("right", "R", "left")
           \/ InsertHand("left", "L", "starters") \/ Starters
  <2>1. /\ UNCHANGED <<t_player, t_draft, t_stat, drafting, db, league_year>> /\ draft = "done"
        /\ script \in {"draft", "right", "left", "starters"}
        /\ script' \in {"right", "left", "starters", "done"}
    BY <1>7 DEF InitLineups, InsertHand, Starters, RosterInv
  <2> QED BY <2>1, LineupsRoster
<1>8. CASE (\E s \in results : Deactivate(s)) \/ InsertSeason \/ Die
  <2>1. /\ UNCHANGED <<t_player, t_draft, t_lineup, t_rotation, t_stat, drafting, db, league_year>>
        /\ \/ script' = script
           \/ script \notin {"off", "retire", "done", "dead"} /\ script' = "dead"
              /\ draft \notin {"pick", "end"}
    BY <1>8 DEF Deactivate, InsertSeason, Die, Running, tables, RosterInv
  <2> QED BY <2>1, SameRoster
<1>9. CASE People \/ OpenFile \/ NewFile \/ NewFileDone \/ UNCHANGED vars
  <2>1. UNCHANGED <<t_player, t_draft, t_lineup, t_rotation, t_stat, drafting, db, league_year,
                    script>>
    BY <1>9 DEF People, LookUp, SignUp, SelectForm, SelectTeam, CreateUser, OpenFile,
                NewFile, NewFileDone, Refreshed, tables, vars, restart
  <2> QED BY <2>1, SameRoster
<1> QED BY <1>1, <1>2, <1>3, <1>4, <1>5, <1>6, <1>7, <1>8, <1>9 DEF Next, Script

\* In every year, for any teams, rounds and players: whoever is on a roster was
\* drafted for it this year and has his rows, and a draft that fails on SQLite
\* leaves none of it.
THEOREM RostersAreDrafted == Spec => []RosterIsDrafted
<1>1. Init => RosterInv
  BY RosterStarts
<1>2. SeasonInv /\ DraftInv /\ RosterInv /\ [Next]_vars => RosterInv'
  BY RosterStep
<1>3. RosterInv => RosterIsDrafted
  BY DEF RosterInv, RosterIsDrafted, OnRoster, HasRows, Empty, tables
<1> QED BY <1>1, <1>2, <1>3, LeagueDraftKept, PTL DEF Spec

-----------------------------------------------------------------------------
(* What a draft and init_lineups have written, half-way through.           *)

Drafted(t, p) ==
  {d.player : d \in {e \in t_draft : e.team = t /\ e.player.position = p}}

LineupRows == [team : TeamId, player : Player, hand : Hand, order : 0 .. Slots,
               position : 0 .. Slots]
RotationRows == [team : TeamId, player : Player, slot : Nat, next : BOOLEAN]

\* What ReadyToPlay says of one team.
TeamReady(t) ==
  LET starters == {r \in t_rotation : r.team = t /\ r.player.position = 1}
  IN  /\ \A h \in Hand : Complete(t_lineup, t_rotation, t, h)
      /\ Cardinality(NextStarters(t_rotation, t)) = 1
      /\ \A h \in Hand : /\ NextStarters(t_rotation, t) = InSlot(t_lineup, t, h, Slots)
                         /\ NextStarters(t_rotation, t) = AtPosition(t_lineup, t, h, 1)
      /\ {r.slot : r \in starters} = 1 .. Rounds[1]
      /\ \A x \in Bullpen(t_rotation, t), h \in Hand, n \in Slot :
           x \notin InSlot(t_lineup, t, h, n)

\* The rows of lineup and rotation are those of the players that were drafted.
TableInv ==
  /\ \A d \in t_draft : d.player \in Player /\ d.player.year = league_year /\ d.team \in TeamId
  /\ t_lineup \subseteq LineupRows /\ t_rotation \subseteq RotationRows
  /\ \A r \in t_lineup : \E d \in t_draft : d.player = r.player /\ d.team = r.team
  /\ \A d \in t_draft, h \in Hand :
       \E r \in t_lineup : r.player = d.player /\ r.team = d.team /\ r.hand = h
  /\ \A r \in t_rotation : /\ \E d \in t_draft : d.player = r.player /\ d.team = r.team
                           /\ r.player.position < 2
  /\ \A d \in t_draft : d.player.position < 2 =>
       \E r \in t_rotation : r.player = d.player /\ r.team = d.team
  /\ \A q, r \in t_rotation : q.player = r.player => q = r

\* The teams that draft are the active ones, each of which picks.
DraftingTeams ==
  /\ teams \in Seq(TeamId) /\ Len(teams) <= NumberOfTeams
  /\ \A i, j \in 1 .. Len(teams) : teams[i] = teams[j] => i = j
  /\ \A s \in ActiveRows : \E j \in 1 .. Len(teams) : teams[j] = t_team[s].team

\* How many of a position the j-th team has, in the middle of the three loops
\* and after them.
Due(j, p) ==
  IF draft # "pick" \/ p < position THEN Rounds[p]
  ELSE IF p > position THEN 0
  ELSE IF j < next THEN round ELSE round - 1

CountInv ==
  /\ \A j \in 1 .. Len(teams), p \in Position :
       Cardinality(Drafted(teams[j], p)) = Due(j, p)
  /\ draft = "pick" => round <= Rounds[position]

\* Nobody bats against a hand, or one at least of each position in the field,
\* in the slot before it.
Cleared(h) ==
  \A r \in t_lineup : r.hand = h => r.order = 0 /\ r.position = 0
Placed(h) ==
  /\ \A r \in t_lineup : r.hand = h =>
       \/ r.order = 0 /\ r.position = 0
       \/ /\ r.player.position > 1
          /\ r.order = r.player.position - 1 /\ r.position = r.player.position
  /\ \A d \in t_draft : d.player.position > 1 =>
       \E r \in t_lineup : /\ r.team = d.team /\ r.player.position = d.player.position
                           /\ r.hand = h
                           /\ r.order = d.player.position - 1 /\ r.position = d.player.position

ReadyInv ==
  /\ draft \in {"pick", "end", "done"} => TableInv /\ DraftingTeams /\ CountInv
  /\ script \in {"right", "left", "starters"} => \A r \in t_rotation : ~r.next
  /\ script = "right" => Cleared("R") /\ Cleared("L")
  /\ script = "left" => Placed("R") /\ Cleared("L")
  /\ script = "starters" => Placed("R") /\ Placed("L")
  /\ ReadyToPlay

LEMMA Squads ==
  ASSUME TableInv, NEW t, NEW p
  PROVE  Drafted(t, p) \in SUBSET Player /\ IsFiniteSet(Drafted(t, p))
<1>1. Drafted(t, p) \in SUBSET Player
  BY DEF Drafted, TableInv
<1> QED BY <1>1, FinitePlayers, FS_Subset

\* A draft begins with nobody drafted, and the teams of which each has an
\* active row.
LEMMA BeginReady ==
  ASSUME SeasonInv, DraftInv, RosterInv, draft = "off", NEW ids \in ActiveTeams, DraftBegin(ids),
         UNCHANGED <<db, tables, restart>>
  PROVE  TableInv' /\ DraftingTeams' /\ CountInv'
<1>1. /\ teams' = ids /\ draft' = "pick" /\ position' = 0 /\ round' = 1 /\ next' = 1
      /\ t_draft' = {} /\ t_lineup' = {} /\ t_rotation' = {} /\ t_team' = t_team
  BY DEF DraftBegin, RosterInv, Empty, tables, restart
<1>2. TableInv'
  BY <1>1 DEF TableInv
<1>3. DraftingTeams'
  <2> DEFINE S == {t_team[s].team : s \in ActiveRows}
  <2>1. S \in SUBSET TeamId
    BY SeasonRows DEF ActiveRows, TeamRows
  <2>2. ids \in InOrderOfId(S)
    BY DEF ActiveTeams
  <2> HIDE DEF S
  <2>3. /\ ids \in Seq(TeamId) /\ Len(ids) = Cardinality(S)
        /\ \A i, j \in 1 .. Len(ids) : ids[i] = ids[j] => i = j
        /\ \A t \in S : \E i \in 1 .. Len(ids) : ids[i] = t
    BY <2>1, <2>2, InOrderIsSeq
  <2>4. Len(ids) <= NumberOfTeams
    <3>1. Cardinality(S) <= Cardinality(TeamId) /\ Cardinality(S) \in Nat /\ Cardinality(TeamId) \in Nat
      BY <2>1, DraftAssumption, FS_Subset, FS_CardinalityType
    <3> QED BY <2>3, <3>1, DraftAssumption, LeagueSize
  <2>5. ActiveRows' = ActiveRows
    BY <1>1 DEF ActiveRows, Season
  <2>6. \A s \in ActiveRows : \E j \in 1 .. Len(ids) : ids[j] = t_team[s].team
    BY <2>3 DEF S
  <2> QED BY <1>1, <2>3, <2>4, <2>5, <2>6 DEF DraftingTeams
<1>4. CountInv'
  <2>1. 0 \in Position /\ \A p \in Position : p \in Int /\ p >= 0
    BY DraftAssumption DEF Position
  <2>2. ASSUME NEW t, NEW p PROVE Cardinality(Drafted(t, p)') = 0
    <3>1. Drafted(t, p)' = {}
      BY <1>1 DEF Drafted
    <3> QED BY <3>1, FS_EmptySet
  <2>3. ASSUME NEW j \in 1 .. Len(teams'), NEW p \in Position PROVE Due(j, p)' = 0
    BY <1>1, <2>1 DEF Due
  <2>4. ASSUME NEW j \in 1 .. Len(teams'), NEW p \in Position
        PROVE  Cardinality(Drafted(teams[j], p)') = Due(j, p)'
    BY <2>2, <2>3
  <2>5. round' <= Rounds[position']
    BY <1>1, <2>1, DraftAssumption
  <2> QED BY <2>4, <2>5 DEF CountInv
<1> QED BY <1>2, <1>3, <1>4

\* Who is picked, and by whom.
LEMMA PickHead ==
  ASSUME DraftInv, RosterInv, Pick(league_year)
  PROVE  /\ next \in 1 .. Len(teams) /\ position \in Position
         /\ Head(List) \in Player /\ Head(List).position = position
         /\ Head(List).year = league_year
         /\ \A d \in t_draft : d.player # Head(List)
<1> DEFINE list == prefs[next][position]
<1>1. draft = "pick" /\ List # <<>> /\ PickInv /\ DraftingInv
  BY DEF Pick, DraftInv, RosterInv
<1>2. next \in DOMAIN prefs /\ next \in 1 .. Len(teams) /\ List = list
  <2>1. Len(teams) \in Nat /\ next \in Nat \ {0} /\ next <= Len(teams) /\ List = list
    BY <1>1, DraftAssumption DEF PickInv, List
  <2> QED BY <1>1, <2>1 DEF PickInv
<1>3. position \in Position /\ Ranked(list, position) /\ list # <<>>
  BY <1>1, <1>2 DEF PickInv
<1>4. list \in Seq(Player) /\ 1 \in 1 .. Len(list) /\ Head(list) = list[1] /\ list[1] \in Player
  <2>1. list \in Seq(Player)
    BY <1>3 DEF Ranked
  <2> HIDE DEF list
  <2> QED BY <1>3, <2>1
<1>5. list[1].position = position /\ list[1].year = league_year
  BY <1>1, <1>2, <1>3, <1>4 DEF Ranked, DraftingInv
<1>6. ASSUME NEW d \in t_draft, d.player = list[1] PROVE FALSE
  <2>1. d.player.position = position
    BY <1>5, <1>6
  <2>2. d.player.rank < prefs[next][d.player.position][1].rank
    BY <1>1, <1>2, <1>4, <2>1 DEF PickInv
  <2>3. list[1].rank < list[1].rank /\ list[1].rank \in Int
    BY <1>4, <1>6, <2>1, <2>2 DEF Player
  <2> QED BY <2>3
<1> QED BY <1>2, <1>3, <1>4, <1>5, <1>6

\* A pick writes the rows of one more player.
LEMMA PickTables ==
  ASSUME DraftInv, RosterInv, TableInv, DraftingTeams, Pick(league_year), UNCHANGED league_year
  PROVE  TableInv'
<1> DEFINE x == Head(List)
           team == teams[next]
           entry == [team |-> team, player |-> x, round |-> overall,
                     pick |-> next + (round - 1) * NumberOfTeams]
           turn == [team |-> team, player |-> x, slot |-> position, next |-> FALSE]
<1>1. /\ x \in Player /\ x.position = position /\ x.year = league_year /\ position \in Position
      /\ \A d \in t_draft : d.player # x
      /\ team \in TeamId
  BY PickHead DEF DraftingTeams
<1>2. /\ t_draft' = t_draft \cup {entry} /\ t_lineup' = t_lineup \cup BenchRows(team, x)
      /\ t_rotation' = t_rotation \cup (IF position < 2 THEN {turn} ELSE {})
  BY DEF Pick, DraftPick
<1>3. entry.player = x /\ entry.team = team
  OBVIOUS
<1>4. turn.player = x /\ turn.team = team /\ (position < 2 => turn \in RotationRows)
  BY <1>1, DraftAssumption DEF RotationRows, Position
<1>5. /\ BenchRows(team, x) \subseteq LineupRows
      /\ \A r \in BenchRows(team, x) : r.player = x /\ r.team = team
      /\ \A h \in Hand : \E r \in BenchRows(team, x) : r.player = x /\ r.team = team /\ r.hand = h
  <2>1. 0 \in 0 .. Slots
    BY DraftAssumption, LeagueSize
  <2> DEFINE bench(h) == [team |-> team, player |-> x, hand |-> h, order |-> 0, position |-> 0]
  <2>2. BenchRows(team, x) = {bench(h) : h \in Hand}
    BY DEF BenchRows
  <2>3. \A h \in Hand : /\ bench(h) \in LineupRows
                        /\ bench(h).player = x /\ bench(h).team = team /\ bench(h).hand = h
    BY <1>1, <2>1 DEF LineupRows
  <2> HIDE DEF bench
  <2> QED BY <2>2, <2>3
<1> HIDE DEF x, team, entry, turn
<1>6. \A d \in t_draft' : d.player \in Player /\ d.player.year = league_year' /\ d.team \in TeamId
  BY <1>1, <1>2, <1>3 DEF TableInv
<1>7. t_lineup' \subseteq LineupRows /\ t_rotation' \subseteq RotationRows
  BY <1>2, <1>4, <1>5 DEF TableInv
<1>8. \A r \in t_lineup' : \E d \in t_draft' : d.player = r.player /\ d.team = r.team
  BY <1>2, <1>3, <1>5 DEF TableInv
<1>9. \A d \in t_draft', h \in Hand :
        \E r \in t_lineup' : r.player = d.player /\ r.team = d.team /\ r.hand = h
  BY <1>2, <1>3, <1>5 DEF TableInv
<1>10. \A r \in t_rotation' : /\ \E d \in t_draft' : d.player = r.player /\ d.team = r.team
                              /\ r.player.position < 2
  BY <1>1, <1>2, <1>3, <1>4 DEF TableInv
<1>11. \A d \in t_draft' : d.player.position < 2 =>
         \E r \in t_rotation' : r.player = d.player /\ r.team = d.team
  BY <1>1, <1>2, <1>3, <1>4 DEF TableInv
<1>12. \A q, r \in t_rotation' : q.player = r.player => q = r
  <2>1. \A r \in t_rotation : r.player # x
    BY <1>1 DEF TableInv
  <2> QED BY <1>2, <1>4, <2>1 DEF TableInv
<1> QED BY <1>6, <1>7, <1>8, <1>9, <1>10, <1>11, <1>12 DEF TableInv

\* ... and counts as one more of his team and position: after the pick, the
\* loops stand where that is what is due.
LEMMA PickCounts ==
  ASSUME DraftInv, RosterInv, TableInv, DraftingTeams, CountInv, Pick(league_year)
  PROVE  CountInv'
<1> DEFINE x == Head(List)
           team == teams[next]
           entry == [team |-> team, player |-> x, round |-> overall,
                     pick |-> next + (round - 1) * NumberOfTeams]
           N == NumberOfTeams
<1>1. /\ x \in Player /\ x.position = position
      /\ next \in 1 .. Len(teams) /\ position \in Position
      /\ \A d \in t_draft : d.player # x
  BY PickHead
<1>2. t_draft' = t_draft \cup {entry} /\ Advance /\ teams' = teams /\ draft = "pick"
  BY DEF Pick, DraftPick
<1>3. entry.player = x /\ entry.team = team
  OBVIOUS
<1> HIDE DEF entry, x
<1>4. /\ N \in Nat \ {0} /\ round \in Nat \ {0} /\ Len(teams) \in Nat /\ Len(teams) <= N
      /\ LastPosition \in Nat /\ position \in 0 .. LastPosition
      /\ round <= Rounds[position] /\ \A p \in Position : p \in Int /\ Rounds[p] \in Nat \ {0}
  BY <1>1, <1>2, DraftAssumption DEF DraftInv, PickInv, DraftingTeams, CountInv, Position
<1>5. ASSUME NEW j \in 1 .. Len(teams), NEW p \in Position
      PROVE  Cardinality(Drafted(teams[j], p)') =
               IF j = next /\ p = position THEN Due(j, p) + 1 ELSE Due(j, p)
  <2>1. Drafted(teams[j], p)' = {d.player : d \in {e \in t_draft' : e.team = teams[j] /\ e.player.position = p}}
    BY <1>2 DEF Drafted
  <2>2. Cardinality(Drafted(teams[j], p)) = Due(j, p) /\ IsFiniteSet(Drafted(teams[j], p))
    BY Squads DEF CountInv
  <2>3. CASE j = next /\ p = position
    <3>1. Drafted(teams[j], p)' = Drafted(teams[j], p) \cup {x}
      BY <1>1, <1>2, <1>3, <2>1, <2>3 DEF Drafted
    <3>2. x \notin Drafted(teams[j], p)
      BY <1>1 DEF Drafted
    <3> QED BY <2>2, <2>3, <3>1, <3>2, FS_AddElement
  <2>4. CASE ~(j = next /\ p = position)
    <3>1. ~(entry.team = teams[j] /\ entry.player.position = p)
      BY <1>1, <1>3, <2>4 DEF DraftingTeams
    <3>2. Drafted(teams[j], p)' = Drafted(teams[j], p)
      BY <1>2, <2>1, <3>1 DEF Drafted
    <3> QED BY <2>2, <2>4, <3>2
  <2> QED BY <2>3, <2>4
<1>6. ASSUME NEW j \in 1 .. Len(teams), NEW p \in Position
      PROVE  Due(j, p)' = IF j = next /\ p = position THEN Due(j, p) + 1 ELSE Due(j, p)
  <2>0. j \in Int /\ next \in Int /\ round \in Int /\ p \in Int /\ position \in Int
    BY <1>1, <1>4
  <2>1. CASE next < N
    <3>1. next' = next + 1 /\ round' = round /\ position' = position /\ draft' = "pick"
      BY <1>2, <2>1 DEF Advance
    <3>2. CASE p = position
      BY <1>2, <2>0, <3>1, <3>2 DEF Due
    <3>3. CASE p # position
      BY <1>2, <2>0, <3>1, <3>3 DEF Due
    <3> QED BY <3>2, <3>3
  <2>2. CASE ~(next < N) /\ round < Rounds[position]
    <3>1. next' = 1 /\ next = N /\ round' = round + 1 /\ position' = position /\ draft' = "pick"
      BY <1>1, <1>2, <1>4, <2>2 DEF Advance
    <3> QED BY <1>1, <1>2, <1>4, <3>1 DEF Due
  <2>3. CASE ~(next < N) /\ ~(round < Rounds[position]) /\ position < LastPosition
    <3>1. /\ next' = 1 /\ next = N /\ round' = 1 /\ round = Rounds[position]
          /\ position' = position + 1 /\ draft' = "pick"
      BY <1>1, <1>2, <1>4, <2>3 DEF Advance
    <3> QED BY <1>1, <1>2, <1>4, <3>1 DEF Due
  <2>4. CASE ~(next < N) /\ ~(round < Rounds[position]) /\ ~(position < LastPosition)
    <3>1. next = N /\ round = Rounds[position] /\ draft' = "end" /\ position = LastPosition
      BY <1>1, <1>2, <1>4, <2>4 DEF Advance
    <3>2. p <= position
      BY <1>4, <3>1 DEF Position
    <3>3. Due(j, p)' = Rounds[p]
      BY <3>1 DEF Due
    <3>4. CASE p = position
      BY <1>1, <1>2, <1>4, <3>1, <3>3, <3>4 DEF Due
    <3>5. CASE p # position
      BY <1>1, <1>2, <1>4, <3>1, <3>2, <3>3, <3>5 DEF Due
    <3> QED BY <3>4, <3>5
  <2> QED BY <2>1, <2>2, <2>3, <2>4
<1>7. draft' = "pick" => round' <= Rounds[position']
  <2>1. position < LastPosition => position + 1 \in Position
    BY <1>4 DEF Position
  <2> SUFFICES ASSUME draft' = "pick" PROVE round' <= Rounds[position']
    OBVIOUS
  <2>2. \/ round' = round /\ position' = position
        \/ round < Rounds[position] /\ round' = round + 1 /\ position' = position
        \/ round' = 1 /\ position < LastPosition /\ position' = position + 1
    BY <1>2, <1>4 DEF Advance
  <2>3. position \in Position
    BY <1>1
  <2> QED BY <1>4, <2>1, <2>2, <2>3
<1>8. \A j \in 1 .. Len(teams), p \in Position : Cardinality(Drafted(teams[j], p)') = Due(j, p)'
  BY <1>5, <1>6
<1> QED BY <1>2, <1>7, <1>8 DEF CountInv

-----------------------------------------------------------------------------
(* What init_lineups makes of the rows. *)

LEMMA NextRow ==
  ASSUME NEW r \in RotationRows, NEW b \in BOOLEAN
  PROVE  LET new == [r EXCEPT !.next = b]
         IN  /\ new \in RotationRows /\ new.next = b
             /\ new.player = r.player /\ new.team = r.team
BY DEF RotationRows

\* An UPDATE that leaves each row its player, team and hand.
LEMMA RowsKept ==
  ASSUME TableInv, NEW F \in [t_lineup -> LineupRows], NEW G \in [t_rotation -> RotationRows],
         \A r \in t_lineup : /\ F[r].player = r.player /\ F[r].team = r.team
                             /\ F[r].hand = r.hand,
         \A r \in t_rotation : G[r].player = r.player /\ G[r].team = r.team,
         t_lineup' = {F[r] : r \in t_lineup}, t_rotation' = {G[r] : r \in t_rotation},
         UNCHANGED <<t_draft, league_year>>
  PROVE  TableInv'
<1>1. t_lineup' \subseteq LineupRows /\ t_rotation' \subseteq RotationRows
  OBVIOUS
<1>2. \A r \in t_lineup' : \E d \in t_draft' : d.player = r.player /\ d.team = r.team
  BY DEF TableInv
<1>3. ASSUME NEW d \in t_draft', NEW h \in Hand
      PROVE  \E r \in t_lineup' : r.player = d.player /\ r.team = d.team /\ r.hand = h
  <2>1. PICK r \in t_lineup : r.player = d.player /\ r.team = d.team /\ r.hand = h
    BY DEF TableInv
  <2> QED BY <2>1
<1>4. \A r \in t_rotation' : /\ \E d \in t_draft' : d.player = r.player /\ d.team = r.team
                             /\ r.player.position < 2
  BY DEF TableInv
<1>5. \A d \in t_draft' : d.player.position < 2 =>
        \E r \in t_rotation' : r.player = d.player /\ r.team = d.team
  BY DEF TableInv
<1>6. \A q, r \in t_rotation' : q.player = r.player => q = r
  BY DEF TableInv
<1> QED BY <1>1, <1>2, <1>3, <1>4, <1>5, <1>6 DEF TableInv

\* The first two updates of init_lineups.
LEMMA InitReady ==
  ASSUME TableInv, InitLineups
  PROVE  /\ TableInv' /\ Cleared("R")' /\ Cleared("L")'
         /\ \A r \in t_rotation' : ~r.next
<1> DEFINE F == [r \in t_lineup |-> [r EXCEPT !.order = 0, !.position = 0]]
           G == [r \in t_rotation |-> [r EXCEPT !.next = FALSE]]
<1>1. /\ t_lineup' = {F[r] : r \in t_lineup} /\ t_rotation' = {G[r] : r \in t_rotation}
      /\ UNCHANGED <<t_draft, league_year>>
  BY DEF InitLineups, ClearLineups, PutRows, ClearStarters
<1>2. t_lineup \subseteq LineupRows /\ t_rotation \subseteq RotationRows
  BY DEF TableInv
<1>3. /\ F \in [t_lineup -> LineupRows]
      /\ \A r \in t_lineup : /\ F[r].order = 0 /\ F[r].position = 0
                             /\ F[r].player = r.player /\ F[r].team = r.team /\ F[r].hand = r.hand
  <2>1. 0 \in 0 .. Slots
    BY DraftAssumption, LeagueSize
  <2>2. \A r \in LineupRows :
          LET new == [r EXCEPT !.order = 0, !.position = 0]
          IN  /\ new \in LineupRows /\ new.order = 0 /\ new.position = 0
              /\ new.player = r.player /\ new.team = r.team /\ new.hand = r.hand
    BY <2>1 DEF LineupRows
  <2> QED BY <1>2, <2>2
<1>4. /\ G \in [t_rotation -> RotationRows]
      /\ \A r \in t_rotation : /\ G[r].next = FALSE /\ G[r].player = r.player
                               /\ G[r].team = r.team
  BY <1>2, NextRow
<1> HIDE DEF F, G
<1>5. TableInv'
  BY <1>1, <1>3, <1>4, RowsKept
<1>6. Cleared("R")' /\ Cleared("L")'
  BY <1>1, <1>3 DEF Cleared
<1>7. \A r \in t_rotation' : ~r.next
  BY <1>1, <1>4
<1> QED BY <1>5, <1>6, <1>7

\* insert_lineups: the best of each position of a team, all of a position when
\* they are equal, against one hand; the other hand's rows are left alone.
LEMMA HandReady ==
  ASSUME TableInv, NEW h \in Hand, NEW g \in Hand, g # h, Cleared(h),
         NEW best \in BestOf(t_lineup), t_lineup' = InsertLineups(t_lineup, h, best),
         UNCHANGED <<t_rotation, t_draft, league_year>>
  PROVE  /\ TableInv' /\ Placed(h)'
         /\ Cleared(g) => Cleared(g)'
         /\ Placed(g) => Placed(g)'
<1> DEFINE Put(r) == [r EXCEPT !.order = r.player.position - 1, !.position = r.player.position]
           F == [r \in t_lineup |-> IF r.hand = h /\ r.player \in best THEN Put(r) ELSE r]
           G == [r \in t_rotation |-> r]
           Hitters == {r \in t_lineup : r.player.position > 1}
<1>1. t_lineup' = {F[r] : r \in t_lineup}
  BY DEF InsertLineups
<1>2. t_lineup \subseteq LineupRows /\ t_rotation \subseteq RotationRows
  BY DEF TableInv
<1>3. /\ \A x \in best : \E r \in Hitters : r.player = x
      /\ \A r \in Hitters : \E q \in Hitters : /\ q.team = r.team /\ q.player \in best
                                               /\ q.player.position = r.player.position
  BY DEF BestOf
<1>4. ASSUME NEW r \in t_lineup, r.player \in best
      PROVE  /\ Put(r) \in LineupRows /\ Put(r).player = r.player /\ Put(r).team = r.team
             /\ Put(r).hand = r.hand /\ Put(r).order = r.player.position - 1
             /\ Put(r).position = r.player.position /\ r.player.position > 1
  <2>1. r.player.position > 1
    BY <1>3, <1>4
  <2>2. r.player \in Player
    BY <1>2 DEF LineupRows
  <2>3. r.player.position \in 0 .. LastPosition
    BY <2>2 DEF Player, Position
  <2>4. r.player.position \in 0 .. Slots /\ r.player.position - 1 \in 0 .. Slots
    BY <2>1, <2>3, DraftAssumption, LeagueSize
  <2> HIDE DEF Put, F, G, Hitters
  <2>5. r \in LineupRows
    BY <1>2
  <2>6. PICK n \in 0 .. Slots, o \in 0 .. Slots : n = r.player.position /\ o = n - 1
    BY <2>4
  <2>7. Put(r) = [r EXCEPT !.order = o, !.position = n]
    BY <2>6 DEF Put
  <2>8. /\ Put(r) \in LineupRows /\ Put(r).player = r.player /\ Put(r).team = r.team
        /\ Put(r).hand = r.hand /\ Put(r).order = o /\ Put(r).position = n
    BY <2>5, <2>7 DEF LineupRows
  <2> QED BY <2>1, <2>6, <2>8
<1> HIDE DEF Put
<1>5. /\ F \in [t_lineup -> LineupRows]
      /\ \A r \in t_lineup : /\ F[r].player = r.player /\ F[r].team = r.team /\ F[r].hand = r.hand
                             /\ r.hand # h => F[r] = r
                             /\ r.player \notin best => F[r] = r
                             /\ r.hand = h /\ r.player \in best =>
                                  /\ F[r].order = r.player.position - 1
                                  /\ F[r].position = r.player.position /\ r.player.position > 1
  BY <1>2, <1>4
<1>6. G \in [t_rotation -> RotationRows] /\ t_rotation' = {G[r] : r \in t_rotation}
      /\ \A r \in t_rotation : G[r].player = r.player /\ G[r].team = r.team
  BY <1>2
<1> HIDE DEF F, G, Hitters
<1>7. TableInv'
  BY <1>1, <1>5, <1>6, RowsKept
<1>8. Cleared(g) => Cleared(g)'
  BY <1>1, <1>5 DEF Cleared
<1>9. Placed(g) => Placed(g)'
  <2> SUFFICES ASSUME Placed(g) PROVE Placed(g)'
    OBVIOUS
  <2>1. \A r \in t_lineup' : r.hand = g => r \in t_lineup
    BY <1>1, <1>5
  <2>2. \A r \in t_lineup : r.hand = g => r \in t_lineup'
    <3>1. \A r \in t_lineup : r.hand = g => F[r] = r
      BY <1>5
    <3> QED BY <1>1, <3>1
  <2> QED BY <2>1, <2>2 DEF Placed
<1>10. Placed(h)'
  <2>1. \A r \in t_lineup' : r.hand = h =>
          \/ r.order = 0 /\ r.position = 0
          \/ /\ r.player.position > 1
             /\ r.order = r.player.position - 1 /\ r.position = r.player.position
    BY <1>1, <1>5 DEF Cleared
  <2>2. ASSUME NEW d \in t_draft, d.player.position > 1
        PROVE  \E r \in t_lineup' : /\ r.team = d.team /\ r.player.position = d.player.position
                                    /\ r.hand = h
                                    /\ r.order = d.player.position - 1
                                    /\ r.position = d.player.position
    <3>1. PICK q \in Hitters : /\ q.team = d.team /\ q.player \in best
                               /\ q.player.position = d.player.position
      <4>1. PICK r \in t_lineup : r.player = d.player /\ r.team = d.team
        BY DEF TableInv
      <4>2. r \in Hitters
        BY <2>2, <4>1 DEF Hitters
      <4> QED BY <1>3, <4>1, <4>2
    <3>2. q \in t_lineup
      BY DEF Hitters
    <3>3. PICK e \in t_draft : e.player = q.player /\ e.team = q.team
      BY <3>2 DEF TableInv
    <3>4. PICK r \in t_lineup : r.player = e.player /\ r.team = e.team /\ r.hand = h
      BY DEF TableInv
    <3>5. F[r] \in t_lineup' /\ r.player \in best
      BY <1>1, <3>1, <3>3, <3>4
    <3> QED BY <1>5, <3>1, <3>3, <3>4, <3>5
  <2> QED BY <2>1, <2>2 DEF Placed
<1> QED BY <1>7, <1>8, <1>9, <1>10

TeamStarters(t) == {r \in t_rotation : r.team = t /\ r.player.position = 1}

\* A team has as many starters as it drafted, no two of the same rank.
LEMMA StartersCounted ==
  ASSUME TableInv, CountInv, draft = "done", NEW j \in 1 .. Len(teams)
  PROVE  LET S == TeamStarters(teams[j])
         IN  /\ IsFiniteSet(S) /\ Cardinality(S) = Rounds[1]
             /\ \A r \in S : r.player.rank \in Int
             /\ \A q, r \in S : q.player.rank = r.player.rank => q = r
<1> DEFINE t == teams[j]
           S == TeamStarters(t)
           f == [r \in S |-> r.player]
<1>1. 1 \in Position
  BY DraftAssumption, LeagueSize DEF Position
<1>2. IsFiniteSet(Drafted(t, 1)) /\ Cardinality(Drafted(t, 1)) = Rounds[1]
  BY <1>1, Squads DEF CountInv, Due
<1>3. f \in [S -> Drafted(t, 1)]
  BY DEF TableInv, TeamStarters, Drafted
<1>4. \A x \in Drafted(t, 1) : \E r \in S : f[r] = x
  <2> TAKE x \in Drafted(t, 1)
  <2>1. PICK d \in t_draft : d.team = t /\ d.player.position = 1 /\ d.player = x
    BY DEF Drafted
  <2>2. PICK r \in t_rotation : r.player = d.player /\ r.team = d.team
    BY <2>1 DEF TableInv
  <2>3. r \in S
    BY <2>1, <2>2 DEF TeamStarters
  <2> QED BY <2>1, <2>2, <2>3
<1>5. \A q, r \in S : f[q] = f[r] => q = r
  BY DEF TableInv, TeamStarters
<1>6. f \in Bijection(S, Drafted(t, 1))
  BY <1>3, <1>4, <1>5 DEF Bijection, Injection, IsInjective, Surjection
<1>7. f \in Injection(S, Drafted(t, 1))
  BY <1>6 DEF Bijection
<1>8. IsFiniteSet(S) /\ Cardinality(S) = Rounds[1]
  <2>1. IsFiniteSet(S)
    BY <1>2, <1>7, FS_Injection
  <2>2. f \in Surjection(S, Drafted(t, 1))
    BY <1>6 DEF Bijection
  <2> QED BY <1>2, <1>7, <2>1, <2>2, FS_Injection
<1>9. ASSUME NEW r \in S
      PROVE  /\ r.player = [year |-> league_year, position |-> 1, rank |-> r.player.rank]
             /\ r.player.rank \in Int
  <2>1. r.player \in Player /\ r.player.year = league_year /\ r.player.position = 1
    BY DEF TeamStarters, TableInv
  <2> QED BY <2>1 DEF Player
<1>10. \A q, r \in S : q.player.rank = r.player.rank => q = r
  <2> SUFFICES ASSUME NEW q \in S, NEW r \in S, q.player.rank = r.player.rank PROVE q = r
    OBVIOUS
  <2>1. q.player = r.player
    BY <1>9
  <2> QED BY <1>5, <2>1
<1> QED BY <1>8, <1>9, <1>10

\* Their turns are 1, 2, ... without a gap.
LEMMA TurnsOfTeam ==
  ASSUME TableInv, CountInv, draft = "done", NEW j \in 1 .. Len(teams)
  PROVE  LET S == TeamStarters(teams[j])
         IN  /\ \A r \in S : Turn(t_rotation, r) \in 1 .. Rounds[1]
             /\ \A n \in 1 .. Rounds[1] : \E r \in S : Turn(t_rotation, r) = n
             /\ \A q, r \in S : Turn(t_rotation, q) = Turn(t_rotation, r) => q = r
<1> DEFINE S == TeamStarters(teams[j])
           Ahead(r) == {q \in S : q.player.rank <= r.player.rank}
           f == [r \in S |-> Cardinality(Ahead(r))]
           n == Rounds[1]
<1>1. /\ IsFiniteSet(S) /\ Cardinality(S) = n
      /\ \A r \in S : r.player.rank \in Int
      /\ \A q, r \in S : q.player.rank = r.player.rank => q = r
  BY StartersCounted
<1>2. n \in Nat
  BY <1>1, FS_CardinalityType
<1>3. \A r \in S : Turn(t_rotation, r) = Cardinality(Ahead(r))
  <2> TAKE r \in S
  <2>1. {q \in t_rotation : /\ q.team = r.team /\ q.player.position = 1
                            /\ q.player.rank <= r.player.rank} = Ahead(r)
    BY DEF TeamStarters
  <2> QED BY <2>1 DEF Turn
<1> HIDE DEF S, n
<1>4. ASSUME NEW r \in S
      PROVE  IsFiniteSet(Ahead(r)) /\ Cardinality(Ahead(r)) \in 1 .. n
  <2>1. Ahead(r) \in SUBSET S /\ r \in Ahead(r)
    BY <1>1
  <2> HIDE DEF Ahead
  <2>2. IsFiniteSet(Ahead(r)) /\ Cardinality(Ahead(r)) <= n
    BY <1>1, <2>1, FS_Subset
  <2>3. Cardinality(Ahead(r)) \in Nat /\ Cardinality(Ahead(r)) # 0
    BY <2>1, <2>2, FS_CardinalityType, FS_EmptySet
  <2> QED BY <1>2, <2>2, <2>3
<1>5. ASSUME NEW q \in S, NEW r \in S, q.player.rank < r.player.rank
      PROVE  f[q] # f[r]
  <2>1. Ahead(q) \in SUBSET Ahead(r) /\ r \notin Ahead(q) /\ r \in Ahead(r)
    BY <1>1, <1>5
  <2> HIDE DEF Ahead
  <2>2. IsFiniteSet(Ahead(r)) /\ Ahead(q) # Ahead(r)
    BY <1>4, <2>1
  <2> QED BY <2>1, <2>2, FS_Subset
<1>6. \A q, r \in S : f[q] = f[r] => q = r
  <2>1. \A q, r \in S : q # r => q.player.rank < r.player.rank \/ r.player.rank < q.player.rank
    BY <1>1
  <2> HIDE DEF f
  <2> QED BY <1>5, <2>1
<1>7. f \in [S -> 1 .. n]
  BY <1>4
<1>8. f \in Injection(S, 1 .. n)
  BY <1>6, <1>7 DEF Injection, IsInjective
<1>9. IsFiniteSet(1 .. n) /\ Cardinality(1 .. n) = n
  BY <1>2, FS_Interval
<1>10. f \in Surjection(S, 1 .. n)
  BY <1>1, <1>8, <1>9, FS_Injection
<1>11. \A m \in 1 .. n : \E r \in S : f[r] = m
  BY <1>10 DEF Surjection
<1>12. \A r \in S : f[r] = Turn(t_rotation, r)
  BY <1>3
<1> HIDE DEF f
<1>13. /\ \A r \in S : Turn(t_rotation, r) \in 1 .. n
       /\ \A m \in 1 .. n : \E r \in S : Turn(t_rotation, r) = m
       /\ \A q, r \in S : Turn(t_rotation, q) = Turn(t_rotation, r) => q = r
  BY <1>6, <1>7, <1>11, <1>12
<1> QED BY <1>13 DEF S, n

LEMMA RotationFinite == TableInv => IsFiniteSet(t_rotation)
<1> SUFFICES ASSUME TableInv PROVE IsFiniteSet(t_rotation)
  OBVIOUS
<1> DEFINE f == [r \in t_rotation |-> r.player]
<1>1. f \in [t_rotation -> Player]
  BY DEF TableInv, RotationRows
<1>2. \A q, r \in t_rotation : f[q] = f[r] => q = r
  BY DEF TableInv
<1>3. f \in Injection(t_rotation, Player)
  BY <1>1, <1>2 DEF Injection, IsInjective
<1> QED BY <1>3, FinitePlayers, FS_Injection

\* The rest of init_lineups, for a team.
LEMMA StartersReady ==
  ASSUME NobodyTwice, TableInv, CountInv, draft = "done", Placed("R"), Placed("L"),
         \A r \in t_rotation : ~r.next,
         t_lineup' = PutStarters(t_lineup, FirstStarters(t_rotation)),
         t_rotation' = SetRotation(t_rotation), UNCHANGED <<t_draft, teams, league_year>>
  PROVE  /\ TableInv'
         /\ \A j \in 1 .. Len(teams) : TeamReady(teams[j])'
<1> DEFINE P == [r \in t_lineup |-> IF r.player \in FirstStarters(t_rotation)
                                      THEN [r EXCEPT !.order = Slots, !.position = 1] ELSE r]
           G == [r \in t_rotation |->
                   IF r.player.position = 1
                     THEN [r EXCEPT !.slot = Turn(t_rotation, r), !.next = Turn(t_rotation, r) = 1]
                     ELSE r]
           FS == FirstStarters(t_rotation)
<1>1. t_lineup' = {P[r] : r \in t_lineup} /\ t_rotation' = {G[r] : r \in t_rotation}
  BY DEF PutStarters, PutRows, SetRotation
<1>2. t_lineup \subseteq LineupRows /\ t_rotation \subseteq RotationRows /\ Slots \in Nat \ {0}
  BY DraftAssumption, LeagueSize DEF TableInv
<1>3. /\ P \in [t_lineup -> LineupRows]
      /\ \A r \in t_lineup : /\ P[r].player = r.player /\ P[r].team = r.team /\ P[r].hand = r.hand
                             /\ r.player \in FS => P[r].order = Slots /\ P[r].position = 1
                             /\ r.player \notin FS => P[r] = r
  <2>1. Slots \in 0 .. Slots /\ 1 \in 0 .. Slots
    BY <1>2
  <2>2. \A r \in LineupRows :
          LET new == [r EXCEPT !.order = Slots, !.position = 1]
          IN  /\ new \in LineupRows /\ new.order = Slots /\ new.position = 1
              /\ new.player = r.player /\ new.team = r.team /\ new.hand = r.hand
    BY <2>1 DEF LineupRows
  <2> HIDE DEF FS
  <2> QED BY <1>2, <2>2 DEF FS
<1>4. ASSUME NEW r \in t_rotation
      PROVE  /\ G[r] \in RotationRows /\ G[r].player = r.player /\ G[r].team = r.team
             /\ r.player.position = 1 => /\ G[r].slot = Turn(t_rotation, r)
                                         /\ G[r].next <=> Turn(t_rotation, r) = 1
             /\ r.player.position # 1 => ~G[r].next
  <2>1. r \in RotationRows
    BY <1>2
  <2>2. CASE r.player.position = 1
    <3> DEFINE n == Turn(t_rotation, r)
    <3>1. n \in Nat
      <4>1. {q \in t_rotation : /\ q.team = r.team /\ q.player.position = 1
                                /\ q.player.rank <= r.player.rank} \in SUBSET t_rotation
        OBVIOUS
      <4> QED BY RotationFinite, <4>1, FS_Subset, FS_CardinalityType DEF Turn
    <3>2. (n = 1) \in BOOLEAN
      OBVIOUS
    <3>3. G[r] = [r EXCEPT !.slot = n, !.next = n = 1]
      BY <2>2
    <3> HIDE DEF n, G
    <3>4. PICK b \in BOOLEAN : b <=> n = 1
      OBVIOUS
    <3>5. G[r] = [r EXCEPT !.slot = n, !.next = b]
      BY <3>2, <3>3, <3>4
    <3>6. /\ G[r] \in RotationRows /\ G[r].slot = n /\ G[r].next = b
          /\ G[r].player = r.player /\ G[r].team = r.team
      BY <2>1, <3>1, <3>5 DEF RotationRows
    <3> QED BY <2>2, <3>4, <3>6 DEF n
  <2>3. CASE r.player.position # 1
    BY <2>1, <2>3
  <2> QED BY <2>2, <2>3
<1>5. G \in [t_rotation -> RotationRows]
  BY <1>4
<1> HIDE DEF P, G, FS
<1>6. TableInv'
  BY <1>1, <1>3, <1>4, <1>5, RowsKept
<1>7. teams' = teams
  OBVIOUS
<1>8. ASSUME NEW j \in 1 .. Len(teams)
      PROVE  TeamReady(teams[j])'
  <2> DEFINE t == teams[j]
             S == TeamStarters(t)
  <2>1. /\ \A r \in S : Turn(t_rotation, r) \in 1 .. Rounds[1]
        /\ \A n \in 1 .. Rounds[1] : \E r \in S : Turn(t_rotation, r) = n
        /\ \A q, r \in S : Turn(t_rotation, q) = Turn(t_rotation, r) => q = r
    BY TurnsOfTeam
  <2>2. 1 \in Position /\ 1 \in 1 .. Rounds[1]
    BY DraftAssumption, LeagueSize DEF Position
  <2>3. PICK first \in S : Turn(t_rotation, first) = 1
    BY <2>1, <2>2
  <2> DEFINE star == first.player
  <2>4. /\ first \in t_rotation /\ first.team = t /\ star.position = 1
        /\ \A r \in t_rotation : r.team = t /\ r.player.position = 1 => r \in S
        /\ \A r \in S : r \in t_rotation /\ r.team = t /\ r.player.position = 1
    BY DEF TeamStarters
  <2> HIDE DEF S
  \* Who is next.
  <2>5. ASSUME NEW r \in t_rotation, r.team = t PROVE G[r].next <=> r = first
    BY <1>4, <2>1, <2>3, <2>4, <2>5
  <2>6. NextStarters(t_rotation', t) = {star}
    BY <1>1, <1>4, <2>4, <2>5 DEF NextStarters
  <2>7. FS = {r.player : r \in {q \in t_rotation' : q.next}}
    BY <1>1 DEF FS, FirstStarters, SetRotation
  <2>8. star \in FS
    BY <1>1, <1>4, <2>4, <2>5, <2>7
  <2>9. ASSUME NEW x \in FS PROVE \E r \in t_rotation : r.player = x /\ r.player.position = 1 /\ G[r].next
    BY <1>1, <1>4, <2>7
  <2>10. ASSUME NEW x \in FS, NEW r \in t_lineup, r.player = x, r.team = t PROVE x = star
    <3>1. PICK q \in t_rotation : q.player = x /\ G[q].next
      BY <2>9
    <3>2. PICK d \in t_draft : d.player = x /\ d.team = q.team
      BY <3>1 DEF TableInv
    <3>3. PICK e \in t_draft : e.player = x /\ e.team = t
      BY <2>10 DEF TableInv
    <3>4. q.team = t
      BY <3>2, <3>3 DEF NobodyTwice
    <3> QED BY <2>5, <3>1, <3>4
  \* He has his rows, and pitches and bats last.
  <2>11. \A h \in Hand : \E r \in t_lineup : r.player = star /\ r.team = t /\ r.hand = h
    <3>1. PICK d \in t_draft : d.player = star /\ d.team = t
      BY <2>4 DEF TableInv
    <3> QED BY <3>1 DEF TableInv
  <2>12. ASSUME NEW r \in t_lineup, r.team = t
         PROVE  \/ r.player = star /\ P[r].order = Slots /\ P[r].position = 1
                \/ r.player # star /\ P[r] = r /\ r.order = 0
                \/ /\ r.player # star /\ P[r] = r /\ r.player.position \in 2 .. Slots
                   /\ r.order = r.player.position - 1 /\ r.position = r.player.position
    <3>1. CASE r.player = star
      BY <1>3, <2>8, <3>1
    <3>2. CASE r.player # star
      <4>1. P[r] = r
        BY <1>3, <2>10, <2>12, <3>2
      <4>2. r.hand \in {"R", "L"} /\ r.player \in Player
        BY <1>2 DEF LineupRows, Hand
      <4>3. r.player.position \in 0 .. Slots
        BY <4>2, LeagueSize DEF Player, Position
      <4>4. \/ r.order = 0
            \/ /\ r.player.position > 1
               /\ r.order = r.player.position - 1 /\ r.position = r.player.position
        BY <4>2 DEF Placed
      <4> QED BY <1>2, <3>2, <4>1, <4>3, <4>4
    <3> QED BY <3>1, <3>2
  <2>13. ASSUME NEW h \in Hand
         PROVE  InSlot(t_lineup', t, h, Slots) = {star} /\ AtPosition(t_lineup', t, h, 1) = {star}
    <3>1. \A r \in t_lineup : r.team = t /\ P[r].order = Slots => r.player = star
      BY <1>2, <2>12
    <3>2. \A r \in t_lineup : r.team = t /\ P[r].order > 0 /\ P[r].position = 1 => r.player = star
      BY <1>2, <2>12
    <3>3. PICK r \in t_lineup : r.player = star /\ r.team = t /\ r.hand = h
      BY <2>11
    <3>4. P[r] \in t_lineup' /\ P[r].order = Slots /\ P[r].position = 1
      BY <1>1, <2>12, <3>3
    <3>5. InSlot(t_lineup', t, h, Slots) = {star}
      BY <1>1, <1>3, <3>1, <3>3, <3>4 DEF InSlot
    <3>6. Slots > 0
      BY <1>2
    <3>7. AtPosition(t_lineup', t, h, 1) = {star}
      BY <1>1, <1>3, <3>2, <3>3, <3>4, <3>6 DEF AtPosition
    <3> QED BY <3>5, <3>7
  \* The others are in the slots before theirs.
  <2>14. ASSUME NEW h \in Hand, NEW p \in 2 .. Slots
         PROVE  InSlot(t_lineup', t, h, p - 1) # {} /\ AtPosition(t_lineup', t, h, p) # {}
    <3>1. p \in Position /\ p # 1 /\ p > 1 /\ p - 1 > 0
      BY <1>2, LeagueSize DEF Position
    <3>2. Cardinality(Drafted(t, p)) = Rounds[p] /\ Rounds[p] \in Nat \ {0}
      BY <3>1, DraftAssumption DEF CountInv, Due
    <3>3. PICK d \in t_draft : d.team = t /\ d.player.position = p
      <4>1. Drafted(t, p) # {}
        BY <3>2, FS_EmptySet
      <4> QED BY <4>1 DEF Drafted
    <3>4. PICK r \in t_lineup : /\ r.team = t /\ r.player.position = p /\ r.hand = h
                                /\ r.order = p - 1 /\ r.position = p
      BY <3>1, <3>3 DEF Placed, Hand
    <3>5. r.player # star /\ P[r] = r
      BY <2>4, <2>12, <3>1, <3>4
    <3>6. r \in t_lineup'
      BY <1>1, <3>5
    <3> QED BY <3>1, <3>4, <3>6 DEF InSlot, AtPosition
  <2>15. ASSUME NEW h \in Hand PROVE Complete(t_lineup', t_rotation', t, h)
    <3> SUFFICES ASSUME NEW n \in Slot
                 PROVE  /\ InSlot(t_lineup', t, h, n) # {}
                        /\ AtPosition(t_lineup', t, h, n) # {}
      BY DEF Complete
    <3>1. n \in 1 .. Slots
      BY DEF Slot
    <3>2. InSlot(t_lineup', t, h, n) # {}
      <4>1. CASE n = Slots
        BY <2>13, <4>1
      <4>2. CASE n # Slots
        <5>1. n + 1 \in 2 .. Slots /\ (n + 1) - 1 = n
          BY <1>2, <3>1, <4>2
        <5> QED BY <2>14, <5>1
      <4> QED BY <4>1, <4>2
    <3>3. AtPosition(t_lineup', t, h, n) # {}
      <4>1. CASE n = 1
        BY <2>13, <4>1
      <4>2. CASE n # 1
        <5>1. n \in 2 .. Slots
          BY <1>2, <3>1, <4>2
        <5> QED BY <2>14, <5>1
      <4> QED BY <4>1, <4>2
    <3> QED BY <3>2, <3>3
  \* The starters' slots, and the bullpen.
  <2>16. {r.slot : r \in {q \in t_rotation' : q.team = t /\ q.player.position = 1}} = 1 .. Rounds[1]
    <3>1. {q \in t_rotation' : q.team = t /\ q.player.position = 1} = {G[r] : r \in S}
      BY <1>1, <1>4, <2>4
    <3>2. \A r \in S : G[r].slot = Turn(t_rotation, r)
      BY <1>4, <2>4
    <3> QED BY <2>1, <3>1, <3>2
  <2>17. ASSUME NEW x \in Bullpen(t_rotation', t), NEW h \in Hand, NEW n \in Slot,
                x \in InSlot(t_lineup', t, h, n)
         PROVE  FALSE
    <3>1. PICK q \in t_rotation : q.team = t /\ q.player = x /\ ~G[q].next
      BY <1>1, <1>4, <2>17 DEF Bullpen
    <3>2. PICK r \in t_lineup : r.team = t /\ r.player = x /\ P[r].order = n
      BY <1>1, <1>3, <2>17 DEF InSlot
    <3>3. n \in 1 .. Slots
      BY DEF Slot
    <3>4. q.player.position < 2
      BY DEF TableInv
    <3>5. x # star
      <4>1. x = star => q = first
        BY <2>4, <3>1 DEF TableInv
      <4> QED BY <2>4, <2>5, <3>1, <4>1
    <3> QED BY <1>2, <2>12, <3>1, <3>2, <3>3, <3>4, <3>5
  <2>18. Cardinality(NextStarters(t_rotation', t)) = 1
    BY <2>6, FS_Singleton
  <2> HIDE DEF star
  <2> QED BY <1>7, <2>6, <2>13, <2>15, <2>16, <2>17, <2>18 DEF TeamReady
<1> QED BY <1>6, <1>8

-----------------------------------------------------------------------------
(* The whole league. *)

LEMMA ReadyStarts == Init => ReadyInv
BY DEF Init, DraftStart, ReadyInv, ReadyToPlay

\* What leaves the draft, the lineups and the rotation alone, and of the teams
\* changes the owners only.
LEMMA SameReady ==
  ASSUME SeasonInv, ReadyInv, SameRows,
         UNCHANGED <<script, league_year, t_draft, t_lineup, t_rotation, drafting>>
  PROVE  ReadyInv'
<1>1. ActiveRows' = ActiveRows /\ \A s \in ActiveRows : s \in Season
  BY DEF SameRows, ActiveRows
<1>2. \A s \in ActiveRows : t_team'[s].team = t_team[s].team
  BY <1>1 DEF SameRows
<1>3. DraftingTeams => DraftingTeams'
  BY <1>1, <1>2 DEF DraftingTeams, drafting
<1>4. (TableInv => TableInv') /\ (CountInv => CountInv')
  BY DEF TableInv, CountInv, Due, Drafted, drafting
<1>5. \A h \in Hand : (Cleared(h) => Cleared(h)') /\ (Placed(h) => Placed(h)')
  BY DEF Cleared, Placed
<1>6. ReadyToPlay'
  BY <1>1, <1>2 DEF ReadyInv, ReadyToPlay
<1> QED BY <1>3, <1>4, <1>5, <1>6 DEF ReadyInv, drafting, Hand

LEMMA OwnRows == SeasonInv /\ t_team' = t_team => SameRows
BY DEF SeasonInv, SameRows, Season

LEMMA ReadyStep ==
  SeasonInv /\ DraftInv /\ RosterInv /\ ReadyInv /\ [Next]_vars => ReadyInv'
<1> SUFFICES ASSUME SeasonInv, DraftInv, RosterInv, ReadyInv, [Next]_vars PROVE ReadyInv'
  OBVIOUS
\* Steps after which nothing is promised.
<1>1. CASE draft' \in {"off", "failed"} /\ script' \notin {"right", "left", "starters", "done"}
  BY <1>1 DEF ReadyInv, ReadyToPlay
<1>2. CASE \/ Clear \/ Retire \/ NewYear \/ (\E s \in results : Deactivate(s)) \/ InsertSeason
           \/ CreatePlayers
  <2>1. draft' = "off" /\ script' \in {"retire", "year", "teams", "draft"}
    BY <1>2 DEF Clear, Retire, NewYear, Deactivate, InsertSeason, CreatePlayers, drafting, RosterInv
  <2> QED BY <1>1, <2>1
<1>3. CASE Die
  <2>1. /\ script' = "dead" /\ t_team' = t_team
        /\ UNCHANGED <<t_draft, t_lineup, t_rotation, drafting, league_year>>
    BY <1>3 DEF Die, tables
  <2>2. DraftingTeams => DraftingTeams'
    BY <2>1 DEF DraftingTeams, drafting, ActiveRows, Season
  <2>3. (TableInv => TableInv') /\ (CountInv => CountInv')
    BY <2>1 DEF TableInv, CountInv, Due, Drafted, drafting
  <2> QED BY <2>1, <2>2, <2>3 DEF ReadyInv, ReadyToPlay, drafting
<1>4. CASE RunDraft
  <2>1. PICK ids \in ActiveTeams : DraftBegin(ids)
    BY <1>4 DEF RunDraft
  <2>2. draft = "off" /\ UNCHANGED <<db, tables, restart>> /\ script' = "draft"
    BY <1>4 DEF RunDraft, restart
  <2>3. TableInv' /\ DraftingTeams' /\ CountInv'
    BY <2>1, <2>2, BeginReady
  <2> QED BY <2>2, <2>3 DEF ReadyInv, ReadyToPlay
<1>5. CASE Drafting
  <2>1. script' = "draft" /\ t_team' = t_team /\ league_year' = league_year
    BY <1>5 DEF Drafting, restart
  <2>2. CASE Pick(league_year)
    <3>1. TableInv /\ DraftingTeams /\ CountInv /\ teams' = teams
      BY <2>2 DEF ReadyInv, Pick
    <3>2. TableInv' /\ CountInv'
      BY <2>1, <2>2, <3>1, PickTables, PickCounts
    <3>3. DraftingTeams'
      BY <2>1, <3>1 DEF DraftingTeams, ActiveRows, Season
    <3> QED BY <2>1, <3>2, <3>3 DEF ReadyInv, ReadyToPlay
  <2>3. CASE DraftFails
    BY <1>1, <2>1, <2>3 DEF DraftFails
  <2>4. CASE DraftEnd
    <3>1. /\ draft = "end" /\ draft' = "done" /\ TableInv /\ DraftingTeams /\ CountInv
          /\ UNCHANGED <<t_draft, t_lineup, t_rotation, teams>>
      BY <2>4 DEF ReadyInv, DraftEnd
    <3>2. TableInv'
      BY <2>1, <3>1 DEF TableInv
    <3>3. DraftingTeams'
      BY <2>1, <3>1 DEF DraftingTeams, ActiveRows, Season
    <3>4. CountInv'
      BY <3>1 DEF CountInv, Due, Drafted
    <3> QED BY <2>1, <3>2, <3>3, <3>4 DEF ReadyInv, ReadyToPlay
  <2> QED BY <1>5, <2>2, <2>3, <2>4 DEF Drafting, DraftStep
<1>6. ASSUME InitLineups \/ InsertHand("right", "R", "left") \/ InsertHand("left", "L", "starters")
             \/ Starters
      PROVE  /\ draft = "done" /\ draft' = "done" /\ TableInv /\ DraftingTeams /\ CountInv
             /\ UNCHANGED <<t_draft, teams, t_team, league_year>>
             /\ DraftingTeams' /\ CountInv'
  <2>1. /\ draft = "done" /\ UNCHANGED <<t_draft, drafting, t_team, league_year>>
    BY <1>6 DEF InitLineups, InsertHand, Starters, RosterInv
  <2>2. TableInv /\ DraftingTeams /\ CountInv
    BY <2>1 DEF ReadyInv
  <2>3. DraftingTeams'
    BY <2>1, <2>2 DEF DraftingTeams, drafting, ActiveRows, Season
  <2>4. CountInv'
    BY <2>1, <2>2 DEF CountInv, Due, Drafted, drafting
  <2> QED BY <2>1, <2>2, <2>3, <2>4 DEF drafting
<1>7. CASE InitLineups
  <2>1. script' = "right"
    BY <1>7 DEF InitLineups
  <2> QED BY <1>6, <1>7, <2>1, InitReady DEF ReadyInv, ReadyToPlay
<1>8. CASE InsertHand("right", "R", "left")
  <2>1. /\ script = "right" /\ script' = "left" /\ UNCHANGED <<t_rotation, t_draft, league_year>>
    BY <1>8 DEF InsertHand
  <2>2. PICK best \in BestOf(t_lineup) : t_lineup' = InsertLineups(t_lineup, "R", best)
    BY <1>8 DEF InsertHand
  <2>3. TableInv /\ Cleared("R") /\ Cleared("L") /\ \A r \in t_rotation : ~r.next
    BY <1>6, <1>8, <2>1 DEF ReadyInv
  <2>4. "R" \in Hand /\ "L" \in Hand /\ "L" # "R"
    BY DEF Hand
  <2>5. TableInv' /\ Placed("R")' /\ Cleared("L")'
    BY <2>1, <2>2, <2>3, <2>4, HandReady
  <2> QED BY <1>6, <1>8, <2>1, <2>3, <2>5 DEF ReadyInv, ReadyToPlay
<1>9. CASE InsertHand("left", "L", "starters")
  <2>1. /\ script = "left" /\ script' = "starters" /\ UNCHANGED <<t_rotation, t_draft, league_year>>
    BY <1>9 DEF InsertHand
  <2>2. PICK best \in BestOf(t_lineup) : t_lineup' = InsertLineups(t_lineup, "L", best)
    BY <1>9 DEF InsertHand
  <2>3. TableInv /\ Placed("R") /\ Cleared("L") /\ \A r \in t_rotation : ~r.next
    BY <1>6, <1>9, <2>1 DEF ReadyInv
  <2>4. "R" \in Hand /\ "L" \in Hand /\ "L" # "R"
    BY DEF Hand
  <2>5. TableInv' /\ Placed("L")' /\ Placed("R")'
    BY <2>1, <2>2, <2>3, <2>4, HandReady
  <2> QED BY <1>6, <1>9, <2>1, <2>3, <2>5 DEF ReadyInv, ReadyToPlay
<1>10. CASE Starters
  <2>1. /\ script = "starters" /\ script' = "done"
        /\ t_lineup' = PutStarters(t_lineup, FirstStarters(t_rotation))
        /\ t_rotation' = SetRotation(t_rotation)
    BY <1>10 DEF Starters
  <2>2. Placed("R") /\ Placed("L") /\ \A r \in t_rotation : ~r.next
    BY <2>1 DEF ReadyInv
  <2>3. NobodyTwice
    BY DEF DraftInv
  <2>4. TableInv' /\ \A j \in 1 .. Len(teams) : TeamReady(teams[j])'
    BY <1>6, <1>10, <2>1, <2>2, <2>3, StartersReady
  <2>5. ReadyToPlay'
    <3>1. ActiveRows' = ActiveRows /\ t_team' = t_team /\ teams' = teams /\ DraftingTeams
      BY <1>6, <1>10 DEF ActiveRows, Season
    <3>2. ASSUME NEW s \in ActiveRows PROVE TeamReady(t_team[s].team)'
      <4>1. PICK j \in 1 .. Len(teams) : teams[j] = t_team[s].team
        BY <3>1 DEF DraftingTeams
      <4>2. TeamReady(teams[j])'
        BY <2>4
      <4> QED BY <3>1, <4>1, <4>2
    <3> QED BY <3>1, <3>2 DEF ReadyToPlay, TeamReady
  <2> QED BY <1>6, <1>10, <2>1, <2>4, <2>5 DEF ReadyInv
<1>11. CASE Script
  BY <1>2, <1>3, <1>4, <1>5, <1>7, <1>8, <1>9, <1>10, <1>11 DEF Script
<1>12. ASSUME NEW c \in Client, NEW t, SelectTeam(c, t) \/ CreateUser(c, t) PROVE ReadyInv'
  <2>1. t_team' = WithOwner(t, c) /\ UNCHANGED <<tables, drafting, league_year, script>>
    BY <1>12 DEF SelectTeam, CreateUser
  <2> QED BY <2>1, OwnerWritten, SameReady DEF tables
<1>13. CASE (\E c \in Client : LookUp(c) \/ SignUp(c) \/ SelectForm(c))
            \/ OpenFile \/ NewFile \/ NewFileDone \/ UNCHANGED vars
  <2>1. UNCHANGED <<tables, drafting, restart>>
    BY <1>13 DEF LookUp, SignUp, SelectForm, OpenFile, NewFile, NewFileDone, Refreshed, vars
  <2> QED BY <2>1, OwnRows, SameReady DEF tables, restart
<1> QED BY <1>11, <1>12, <1>13 DEF Next, People

\* In every year, for any teams, rounds and players: when the script has
\* succeeded each active team can be simulated at once.
THEOREM LeagueIsReady == Spec => []ReadyToPlay
<1>1. Init => SeasonInv /\ DraftInv /\ RosterInv /\ ReadyInv
  BY SeasonStarts, LeagueDraftStarts, RosterStarts, ReadyStarts
<1>2. SeasonInv /\ DraftInv /\ RosterInv /\ ReadyInv /\ [Next]_vars =>
        (SeasonInv /\ DraftInv /\ RosterInv /\ ReadyInv)'
  BY SeasonStep, LeagueDraftStep, RosterStep, ReadyStep
<1>3. ReadyInv => ReadyToPlay
  BY DEF ReadyInv
<1> QED BY <1>1, <1>2, <1>3, PTL DEF Spec

-----------------------------------------------------------------------------
(* Teams are chosen from lists that were true when they were made. *)

PageInv ==
  /\ DOMAIN page = Client /\ DOMAIN freeThen = Client /\ DOMAIN told = Client
  /\ \A c \in Client : page[c] = freeThen[c]

LEMMA AppendKeeps ==
  ASSUME NEW S, NEW rows \in Seq(S), NEW row \in S, NEW i \in 1 .. Len(rows)
  PROVE  Append(rows, row)[i] = rows[i]
OBVIOUS

LEMMA PageStep == PageInv /\ [Next]_vars => PageInv'
<1> SUFFICES ASSUME PageInv, [Next]_vars PROVE PageInv'
  OBVIOUS
<1>1. CASE UNCHANGED <<page, told, freeThen>>
  BY <1>1 DEF PageInv
<1>2. CASE Script
  <2>1. UNCHANGED people
    BY <1>2 DEF Script, Clear, Retire, NewYear, Deactivate, InsertSeason, CreatePlayers, RunDraft,
                Drafting, InitLineups, InsertHand, Starters, Die
  <2> QED BY <1>1, <2>1 DEF people
<1>3. ASSUME NEW c \in Client, LookUp(c) \/ SignUp(c) PROVE PageInv'
  BY <1>1, <1>3 DEF LookUp, SignUp
<1>4. ASSUME NEW c \in Client, SelectForm(c) PROVE PageInv'
  <2>1. CASE HasSelected(c)
    BY <1>4, <2>1 DEF SelectForm, PageInv
  <2>2. CASE ~HasSelected(c)
    <3>1. /\ page' = [page EXCEPT ![c] = FreeNow] /\ freeThen' = [freeThen EXCEPT ![c] = FreeNow]
          /\ told' = [told EXCEPT ![c] = "nothing"]
      BY <1>4, <2>2 DEF SelectForm, FreeTeams
    <3> QED BY <3>1 DEF PageInv
  <2> QED BY <2>1, <2>2
<1>5. ASSUME NEW c \in Client, NEW t, SelectTeam(c, t) \/ CreateUser(c, t) PROVE PageInv'
  BY <1>5 DEF SelectTeam, CreateUser, PageInv
<1>6. CASE OpenFile \/ NewFile \/ NewFileDone
  <2>1. CASE Refreshed
    BY <2>1 DEF Refreshed, FreeTeams, PageInv
  <2> QED BY <1>1, <1>6, <2>1 DEF OpenFile, NewFile, NewFileDone
<1>7. CASE UNCHANGED vars
  BY <1>1, <1>7 DEF vars, people
<1> QED BY <1>2, <1>3, <1>4, <1>5, <1>6, <1>7 DEF Next, People

\* For any teams and people: whoever takes a team from its owner chose it on a
\* form, or in a box, that was made while the team was free, unless he chose
\* none at all.
THEOREM TeamsAreTakenFromOldLists == Spec => TakenFromOldList
<1>1. Init => PageInv
  BY DEF Init, PageInv
<1>2. PageInv /\ SeasonInv /\ [Next]_vars =>
        [\A s \in Season :
           LET now == t_team'[s].owner
           IN  t_team[s].owner \notin {0, now} /\ told'[now] # "no choice" =>
                 t_team[s].team \in freeThen[now]]_vars
  <2> SUFFICES ASSUME PageInv, SeasonInv, Next, NEW s \in Season, t_team[s].owner # t_team'[s].owner,
                      told'[t_team'[s].owner] # "no choice"
               PROVE  t_team[s].team \in freeThen[t_team'[s].owner]
    OBVIOUS
  <2>1. Season = 1 .. Len(t_team) /\ Len(t_team) \in Nat
        /\ \A r \in Season : t_team[r] \in TeamRows
    BY SeasonRows
  <2>2. t_team' # t_team
    OBVIOUS
  <2>3. ~Script
    <3>1. CASE \E r \in results : Deactivate(r)
      <4>1. PICK r \in results : t_team' = [t_team EXCEPT ![r].active = FALSE]
        BY <3>1 DEF Deactivate
      <4>2. \A row \in TeamRows : [row EXCEPT !.active = FALSE].owner = row.owner
        BY DEF TeamRows
      <4>3. t_team' = [t_team EXCEPT ![r] = [t_team[r] EXCEPT !.active = FALSE]]
        BY <4>1
      <4>4. s \in DOMAIN t_team
        BY DEF Season
      <4>5. t_team'[s] = t_team[s] \/ t_team'[s] = [t_team[s] EXCEPT !.active = FALSE]
        BY <4>3, <4>4
      <4> QED BY <2>1, <4>2, <4>5
    <3>2. CASE InsertSeason
      <4>1. t_team' = Append(t_team, Inserted(t_team[hand_over]))
        BY <3>2 DEF InsertSeason
      <4>2. t_team'[s] = t_team[s]
        <5>1. t_team \in Seq(TeamRows)
          BY DEF SeasonInv
        <5> DEFINE new == Inserted(t_team[hand_over])
        <5>2. hand_over \in Season /\ league_year \in Years
          BY <3>2 DEF InsertSeason, SeasonInv
        <5>3. new \in TeamRows
          BY <2>1, <5>2 DEF Inserted, TeamRow, TeamRows
        <5> HIDE DEF new
        <5>4. t_team' = Append(t_team, new)
          BY <4>1 DEF new
        <5>5. s \in 1 .. Len(t_team)
          BY <2>1
        <5> QED BY <5>1, <5>3, <5>4, <5>5, AppendKeeps
      <4> QED BY <4>2
    <3>3. CASE \/ Clear \/ Retire \/ NewYear \/ CreatePlayers \/ RunDraft \/ Drafting \/ InitLineups
               \/ InsertHand("right", "R", "left") \/ InsertHand("left", "L", "starters")
               \/ Starters \/ Die
      <4>1. t_team' = t_team
        BY <3>3 DEF Clear, Retire, NewYear, CreatePlayers, RunDraft, Drafting, InitLineups,
                    InsertHand, Starters, Die, restart
      <4> QED BY <2>2, <4>1
    <3> QED BY <3>1, <3>2, <3>3 DEF Script
  <2>4. ASSUME OpenFile \/ NewFile \/ NewFileDone PROVE FALSE
    BY <2>2, <2>4 DEF OpenFile, NewFile, NewFileDone, Refreshed, restart
  <2>5. ASSUME NEW c \in Client, LookUp(c) \/ SignUp(c) \/ SelectForm(c) PROVE FALSE
    BY <2>2, <2>5 DEF LookUp, SignUp, SelectForm, restart
  <2>6. PICK c \in Client, t \in TeamId \cup {0} : SelectTeam(c, t) \/ CreateUser(c, t)
    BY <2>3, <2>4, <2>5 DEF Next, People
  <2>7. t_team' = WithOwner(t, c)
    BY <2>6 DEF SelectTeam, CreateUser
  <2>8. t_team[s].team = t /\ t_team'[s].owner = c
    <3>1. \A row \in TeamRows : [row EXCEPT !.owner = c].owner = c
      BY DEF TeamRows
    <3>2. t_team'[s] = IF t_team[s].active /\ t_team[s].team = t
                         THEN [t_team[s] EXCEPT !.owner = c] ELSE t_team[s]
      BY <2>7 DEF WithOwner
    <3> QED BY <2>1, <3>1, <3>2
  <2>9. t \in page[c]
    <3>1. CASE SelectTeam(c, t)
      BY <3>1 DEF SelectTeam
    <3>2. CASE CreateUser(c, t)
      <4>1. t \notin page[c] => told'[c] = "no choice"
        BY <3>2 DEF CreateUser, PageInv
      <4> QED BY <2>8, <4>1
    <3> QED BY <2>6, <3>1, <3>2
  <2> QED BY <2>8, <2>9 DEF PageInv
<1> QED BY <1>1, <1>2, PageStep, SeasonKept, PTL DEF Spec, TakenFromOldList
=============================================================================
