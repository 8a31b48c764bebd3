---------------------------- MODULE LineupTables ----------------------------
(***************************************************************************)
(* The rows of t_lineup and t_rotation, and what init_lineups of           *)
(* restart_league.pl makes of them.  A player has a position he was        *)
(* created for (0 relief, 1 starter, more in the field) and a rank, his    *)
(* place in order of overall.  A lineup row tells for each hand of the     *)
(* pitcher faced where he bats and what he plays, 0 and 0 on the bench.    *)
(***************************************************************************)
EXTENDS Integers, FiniteSets

CONSTANT Slots      \* of the batting order, and positions (9)

Slot == 1 .. Slots
Hand == {"R", "L"}

Row(lineup, p, hand) == CHOOSE r \in lineup : r.player = p /\ r.hand = hand

\* INSERT_LINEUP
BenchRows(team, p) ==
  {[team |-> team, player |-> p, hand |-> h, order |-> 0, position |-> 0] : h \in Hand}

\* The update of some rows of t_lineup.
PutRows(lineup, Where(_), order, position) ==
  {IF Where(r) THEN [r EXCEPT !.order = order, !.position = position] ELSE r :
     r \in lineup}

\* The first two updates of init_lineups.
ClearLineups(lineup) == PutRows(lineup, LAMBDA r : TRUE, 0, 0)
ClearStarters(rotation) == {[r EXCEPT !.next = FALSE] : r \in rotation}

\* insert_lineups: the best hitters of a hand, each in the slot before his
\* position.
InsertLineups(lineup, hand, best) ==
  {IF r.hand = hand /\ r.player \in best
     THEN [r EXCEPT !.order = r.player.position - 1, !.position = r.player.position]
     ELSE r : r \in lineup}

\* Who may come out best: of each team and position one at least, all when
\* their formulas are equal.
BestOf(lineup) ==
  LET Hitters == {r \in lineup : r.player.position > 1}
      Job(r) == <<r.team, r.player.position>>
  IN  {best \in SUBSET {r.player : r \in Hitters} :
         \A r \in Hitters : \E q \in Hitters : Job(q) = Job(r) /\ q.player \in best}

\* The place of a starter among those of his team, in order of overall.
Turn(rotation, r) ==
  Cardinality({q \in rotation : /\ q.team = r.team /\ q.player.position = 1
                                /\ q.player.rank <= r.player.rank})

\* Slip: everybody counts, the relievers too.
SetRotationSlip(rotation) ==
  {[r EXCEPT !.slot = Cardinality({q \in rotation : q.team = r.team
                                   /\ q.player.rank <= r.player.rank}),
             !.next = r.player.position = 1 /\ r.player.rank = 1] : r \in rotation}
\* The rest of init_lineups: the starters in turn, the first of whom is next.
SetRotation(rotation) ==
  {IF r.player.position = 1
     THEN [r EXCEPT !.slot = Turn(rotation, r), !.next = Turn(rotation, r) = 1]
     ELSE r : r \in rotation}
FirstStarters(rotation) ==
  {r.player : r \in {q \in SetRotation(rotation) : q.next}}
PutStarters(lineup, starters) ==
  PutRows(lineup, LAMBDA r : r.player \in starters, Slots, 1)

-----------------------------------------------------------------------------
(* What sim_game_batch makes of the rows. *)

\* fill_lineup and fill_rotation: later rows win, and the pitcher of the
\* lineup replaces the one the rotation has.
InSlot(lineup, team, hand, s) ==
  {r.player : r \in {q \in lineup : q.team = team /\ q.hand = hand /\ q.order = s}}
AtPosition(lineup, team, hand, n) ==
  {r.player : r \in {q \in lineup : /\ q.team = team /\ q.hand = hand
                                    /\ q.order > 0 /\ q.position = n}}
NextStarters(rotation, team) ==
  {r.player : r \in {q \in rotation : q.team = team /\ q.next}}
Bullpen(rotation, team) ==
  {r.player : r \in {q \in rotation : q.team = team /\ ~q.next}}

\* verify_lineups of one team
Complete(lineup, rotation, team, hand) ==
  \A n \in Slot :
    /\ InSlot(lineup, team, hand, n) # {}
    /\ AtPosition(lineup, team, hand, n) # {} \/ (n = 1 /\ NextStarters(rotation, team) # {})
=============================================================================
