------------------------------- MODULE Lineups -------------------------------
(***************************************************************************)
(* One team's lineups and rotation on MySQL, whose tables know no          *)
(* transactions: update_rotation of baseball_data.c, which sim_day runs    *)
(* each evening, statement after statement, and lineup.pl, which checks    *)
(* the form an owner sends and then updates row after row.  The form may   *)
(* be of any age, and he may have changed anything on it.                  *)
(*                                                                         *)
(* The roster page of fbs-gtk shows the same rows and changes none.        *)
(***************************************************************************)
EXTENDS LineupTables

CONSTANTS
  Team,
  Squad,         \* the players: their position and rank
  Turns          \* starters of a rotation (5)

Listed == {p \in Squad : p.position > 0}      \* on the form
Pitchers == {p \in Squad : p.position < 2}
Starters == {p \in Squad : p.position = 1}

ASSUME SquadAssumption ==
  /\ Slots \in Nat \ {0} /\ Turns \in Nat \ {0}
  /\ Squad \subseteq [position : 0 .. Slots, rank : Nat]
  /\ \A n \in 2 .. Slots : \E p \in Squad : p.position = n
  /\ IsFiniteSet(Squad) /\ Cardinality(Starters) = Turns   \* as drafted

VARIABLES
  t_lineup, t_rotation,
  evening,       \* update_rotation: "off", or its next statement
  due,           \* the teams' starters it has read and not yet replaced
  turning,       \* the slot of the starter whose team is on now
  new_starter,
  sending,       \* what lineup.pl has still to write, by player and hand
  intact,        \* history: the pitcher of this hand's last form bats last,
                 \* and it was written without update_rotation in between
  follows,       \* history: no form for this hand since the last evening, or
                 \* in it
  disturbed      \* history: of the form that is written now, that it was not
                 \* written without update_rotation in between

rotating == <<evening, due, turning, new_starter>>
history == <<intact, follows, disturbed>>
vars == <<t_lineup, t_rotation, rotating, sending, history>>

Nothing == [p \in {} |-> {}]
Writing == DOMAIN sending # {}
WritingOf(h) == \E p \in Squad : <<p, h>> \in DOMAIN sending

\* insert_draft_pick and init_lineups.
Drafted == UNION {BenchRows(Team, p) : p \in Squad}
DraftedPitchers ==
  {[team |-> Team, player |-> p, slot |-> p.position, next |-> FALSE] : p \in Pitchers}

Init ==
  /\ \E right \in BestOf(Drafted), left \in BestOf(Drafted) :
       t_lineup = PutStarters(InsertLineups(InsertLineups(Drafted, "R", right), "L", left),
                              FirstStarters(DraftedPitchers))
  /\ t_rotation = SetRotation(DraftedPitchers)
  /\ evening = "off" /\ due = {} /\ turning = 0 /\ new_starter = {}
  /\ sending = Nothing
  /\ intact = [h \in Hand |-> FALSE]
  /\ follows = [h \in Hand |-> TRUE]
  /\ disturbed = FALSE

-----------------------------------------------------------------------------
(* update_rotation *)

\* SELECT_CURRENT_STARTERS
Evening ==
  /\ evening = "off"
  /\ due' = {r.slot : r \in {q \in t_rotation : q.next}}
  /\ evening' = "next"
  /\ disturbed' = Writing
  /\ follows' = [h \in Hand |-> ~WritingOf(h)]
  /\ UNCHANGED <<t_lineup, t_rotation, turning, new_starter, sending, intact>>

\* Slip: one starter too few takes turns.
SuccessorSlip(slot) == (slot % (Turns - 1)) + 1
\* (position % 5) + 1
Successor(slot) == (slot % Turns) + 1

EveningOver ==
  /\ evening = "next" /\ due = {} /\ evening' = "off"
  /\ UNCHANGED <<t_lineup, t_rotation, due, turning, new_starter, sending, history>>

\* Slip: the old starter is not reset.
WithoutNextSlip(rotation) == rotation
\* The two statements of RESET_NEXT_STARTER.  Nobody else reads or writes
\* t_rotation, so that its statements go with the step before them.
WithoutNext(rotation) == {[r EXCEPT !.next = FALSE] : r \in rotation}

ResetRotation(slot) ==
  /\ evening = "next" /\ slot \in due
  /\ evening' = "reset lineup"
  /\ due' = due \ {slot} /\ turning' = slot
  /\ t_rotation' = WithoutNext(t_rotation)
  /\ UNCHANGED <<t_lineup, new_starter, sending, history>>

\* Slip: only the pitcher's position is taken from him.
WithoutPitcherSlip(lineup) ==
  {IF r.position = 1 THEN [r EXCEPT !.position = 0] ELSE r : r \in lineup}
WithoutPitcher(lineup) == PutRows(lineup, LAMBDA r : r.position = 1, 0, 0)

ResetLineup ==
  /\ evening = "reset lineup" /\ evening' = "set rotation"
  /\ t_lineup' = WithoutPitcher(t_lineup)
  /\ UNCHANGED <<t_rotation, due, turning, new_starter, sending, history>>

\* The two statements of UPDATE_ROTATION.
WithNext(rotation, slot) ==
  {IF r.slot = slot THEN [r EXCEPT !.next = TRUE] ELSE r : r \in rotation}

\* SELECT_NEW_STARTER, and the first of them.
SetNext ==
  /\ evening = "set rotation" /\ evening' = "set lineup"
  /\ \E r \in t_rotation : r.slot = Successor(turning) /\ new_starter' = {r.player}
  /\ t_rotation' = WithNext(t_rotation, Successor(turning))
  /\ UNCHANGED <<t_lineup, due, turning, sending, history>>

SetLineup ==
  /\ evening = "set lineup" /\ evening' = "next"
  /\ t_lineup' = PutStarters(t_lineup, new_starter)
  /\ UNCHANGED <<t_rotation, due, turning, new_starter, sending, history>>

UpdateRotation ==
  \/ Evening \/ (\E slot \in due : ResetRotation(slot)) \/ ResetLineup
  \/ SetNext \/ SetLineup \/ EveningOver

-----------------------------------------------------------------------------
(* lineup.pl *)

\* Slip: a hitter may be left without a position.
AcceptedSlip(form) ==
  /\ \A n \in Slot : Cardinality({p \in Listed : form[p].order = n}) = 1
\* validate: each slot and each position once, and whoever bats plays.
Accepted(form) ==
  /\ \A n \in Slot : /\ Cardinality({p \in Listed : form[p].order = n}) = 1
                     /\ Cardinality({p \in Listed : form[p].position = n}) = 1
  /\ \A p \in Listed : form[p].order # 0 => form[p].position # 0

\* What the form offers: any slot, and the position a player was created for.
Form ==
  {f \in [Listed -> [order : 0 .. Slots, position : 0 .. Slots]] :
     \A p \in Listed : f[p].position \in {0, p.position}}
\* validate returns before its updates unless the form is accepted.
AcceptedForm == {form \in Form : Accepted(form)}

PitcherLast(form) ==
  \A p \in Listed : form[p].position = 1 => form[p].order = Slots

Submit(h, form) ==
  /\ ~Writing
  /\ sending' = [row \in Listed \X {h} |-> form[row[1]]]
  /\ disturbed' = (evening # "off")
  /\ intact' = [intact EXCEPT ![h] = PitcherLast(form) /\ evening = "off"]
  /\ follows' = [follows EXCEPT ![h] = FALSE]
  /\ UNCHANGED <<t_lineup, t_rotation, rotating>>

\* The updates, in the order of the keys of a Perl hash.
WriteRow(p, h) ==
  /\ <<p, h>> \in DOMAIN sending
  /\ t_lineup' = PutRows(t_lineup, LAMBDA r : r.player = p /\ r.hand = h,
                         sending[<<p, h>>].order, sending[<<p, h>>].position)
  /\ sending' = [row \in DOMAIN sending \ {<<p, h>>} |-> sending[row]]
  /\ intact' = [intact EXCEPT ![h] = @ /\ ~disturbed /\ evening = "off"]
  /\ disturbed' = (disturbed /\ DOMAIN sending # {<<p, h>>})
  /\ UNCHANGED <<t_rotation, rotating, follows>>

LineupPage ==
  \/ \E h \in Hand, form \in AcceptedForm : Submit(h, form)
  \/ \E p \in Listed, h \in Hand : WriteRow(p, h)

Next == UpdateRotation \/ LineupPage
Spec == Init /\ [][Next]_vars

-----------------------------------------------------------------------------
(* Properties. *)

AtRest == evening = "off" /\ ~Writing

\* Whatever owners do, between two evenings exactly one of the starters is
\* next: update_rotation, which finds its team by him, never loses it.
OneNextStarter ==
  evening = "off" => Cardinality(NextStarters(t_rotation, Team)) = 1

\* Whatever owners do, the starters take turns in the order of their slots.
\* While nobody is next, it is still the turn of the one who was.
NextSlots == {r.slot : r \in {q \in t_rotation : q.next}}
OnTurn == IF NextSlots = {} THEN turning ELSE CHOOSE n \in NextSlots : TRUE
Taking == INSTANCE Rotation WITH turn <- OnTurn
RotationTurns == Taking!RotationSpec

\* Once the owner has sent a lineup with the pitcher in the last slot, and it
\* was not written while update_rotation was at work, a game finds one man for
\* each slot and each position, against either hand, on every day.
OneManEach ==
  AtRest => \A h \in Hand : intact[h] =>
    \A n \in Slot : /\ Cardinality(InSlot(t_lineup, Team, h, n)) = 1
                    /\ Cardinality(AtPosition(t_lineup, Team, h, n)) = 1

\* Whatever was done to a lineup, after the next evening its pitcher is the
\* next starter of the rotation, and nobody else of the rotation is in it: the
\* man on the mound is not in the pen as well.
PitcherFollowsRotation ==
  AtRest => \A h \in Hand : follows[h] =>
    /\ AtPosition(t_lineup, Team, h, 1) = NextStarters(t_rotation, Team)
    /\ \A x \in Bullpen(t_rotation, Team) :
         Row(t_lineup, x, h).order = 0
=============================================================================
