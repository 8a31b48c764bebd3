---------------------------- MODULE Baserunning ----------------------------
(***************************************************************************)
(* advance_runners of sim_game_func.c: where the batter and the runners    *)
(* stand after a plate appearance, and who has scored.                     *)
(*                                                                         *)
(* The code walks the bases from third to first and lets every runner      *)
(* overwrite the base he moves to; the batter comes last.  Here a plate    *)
(* appearance first gives each corner its destination, then reads the new  *)
(* bases off the destinations, the last writer (the runner who started     *)
(* closest to the plate) winning a base that two runners reach.            *)
(***************************************************************************)
EXTENDS Naturals, FiniteSets, FiniteSetsExt

CONSTANT Nobody          \* the id 0 of an empty base or an empty card

Base == 1 .. 3
Corner == 0 .. 3         \* the batter's box and the bases
HomePlate == 4           \* the destination of a runner who scores
Dugout == 5              \* the destination of a batter who is out

OutType == {"GB", "FB", "SO"}
HitType == {"IB", "ZB", "EB", "HR"}
\* What sim_ab draws when _ADVANCED_DEFENSE_ is not defined: every hit then
\* has distance 1, and neither an error nor a hit by pitch occurs.
ResultType == OutType \cup HitType \cup {"BB"}

EmptyBases == [b \in Base |-> Nobody]
Occupied(bases) == {b \in Base : bases[b] # Nobody}

\* A runner on b must move on a walk: every base behind him is taken.
Forced(b, bases) == 1 .. b \subseteq Occupied(bases)

\* Slip: the runner from first takes third whoever stands there.
SingleToSlip(bases, sentHome, extraBase) ==
  [c \in Corner |-> CASE c = 0 -> 1
                       [] c = 1 -> IF extraBase THEN 3 ELSE 2
                       [] c = 2 -> IF sentHome THEN HomePlate ELSE 3
                       [] c = 3 -> HomePlate]

\* A single: the runner on second is sent home or stops at third; the one
\* on first may take third only when nobody stopped there.
SingleTo(bases, sentHome, extraBase) ==
  LET stopped == 2 \in Occupied(bases) /\ ~sentHome
  IN  [c \in Corner |->
         CASE c = 0 -> 1
           [] c = 1 -> IF extraBase /\ ~stopped THEN 3 ELSE 2
           [] c = 2 -> IF sentHome THEN HomePlate ELSE 3
           [] c = 3 -> HomePlate]

\* The destination of whoever stands at each corner.  sentHome and extraBase
\* are the two coin flips of advance_runners (rand() against advance_prob).
Destination(type, bases, sentHome, extraBase) ==
  CASE type \in OutType -> [c \in Corner |-> IF c = 0 THEN Dugout ELSE c]
    [] type = "BB" -> [c \in Corner |->
                         IF c = 0 \/ Forced(c, bases) THEN c + 1 ELSE c]
    [] type = "IB" -> SingleTo(bases, sentHome, extraBase)
    [] type = "ZB" -> [c \in Corner |->
                         CASE c = 0 -> 2
                           [] c = 1 -> IF extraBase THEN HomePlate ELSE 3
                           [] OTHER -> HomePlate]
    [] type = "EB" -> [c \in Corner |-> IF c = 0 THEN 3 ELSE HomePlate]
    [] type = "HR" -> [c \in Corner |-> HomePlate]

\* The corners that hold a player when the ball is put in play.
Manned(bases) == {0} \cup Occupied(bases)

Arrivals(to, bases, b) == {c \in Manned(bases) : to[c] = b}

WhoIs(c, bases, batter) == IF c = 0 THEN batter ELSE bases[c]

\* The bases after the play.
BasesAfter(to, bases, batter) ==
  [b \in Base |->
     IF Arrivals(to, bases, b) = {}
       THEN Nobody
       ELSE WhoIs(Min(Arrivals(to, bases, b)), bases, batter)]

\* result->runs: one for each call of advance_to(HOME, ...), and the one
\* sim_ab counts for the batter of a home run.
RunsOn(to, bases) == Cardinality(Arrivals(to, bases, HomePlate))

\* result->outs.
OutsOn(type) == IF type \in OutType THEN 1 ELSE 0
=============================================================================
