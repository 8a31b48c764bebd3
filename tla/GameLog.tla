------------------------------ MODULE GameLog ------------------------------
(***************************************************************************)
(* game_log.pl, the reader at the other end of the pipe: it follows a game *)
(* line by line, keeps the score, the pitchers of record and what they     *)
(* have done, and at the end of its input turns that into the rows of the  *)
(* database.                                                               *)
(*                                                                         *)
(* A line is a record; kind is the first character of the line in words.   *)
(* The script never forgets a player between two games of one input (batch *)
(* processing): only what its '+' branch resets is new.                    *)
(***************************************************************************)
EXTENDS Integers, Sequences, SequencesExt

CONSTANTS
  Pitcher,       \* players that may stand on a mound
  Slot,          \* batting slots
  OutResult,     \* result letters that count as an out
  QualifyOuts,   \* 15: outs a starter needs to be in line for the win
  Nobody         \* the 0 of $winner and $loser

AWAY == 0
HOME == 1
Side == {AWAY, HOME}
Opponent(s) == 1 - s

\* The reader before its first line.
EmptyBox ==
  [half_inning |-> -1, bat |-> AWAY,
   total |-> [s \in Side |-> 0],            \* $score[s][0]
   score |-> [s \in Side |-> <<>>],         \* $score[s][1 ...]
   winner |-> Nobody, loser |-> Nobody,
   reliever |-> [s \in Side |-> FALSE],
   staff |-> [s \in Side |-> <<>>],         \* $roster{s}{0}
   order |-> [s \in Side |-> [i \in Slot |-> <<>>]],
   outs |-> [p \in Pitcher |-> 0],          \* OUTS, R of $players{p}->{ds}
   charged |-> [p \in Pitcher |-> 0],
   right |-> [p \in Pitcher |-> FALSE]]   \* OUTS, BB or H in ->{ds}{R}

\* '+'
Starting(b) ==
  [b EXCEPT !.half_inning = -1, !.bat = AWAY,
            !.total = [s \in Side |-> 0], !.score = [s \in Side |-> <<>>],
            !.winner = Nobody, !.loser = Nobody,
            !.reliever = [s \in Side |-> FALSE]]

\* '^': a player of the lineup.
Listed(b, l) ==
  [b EXCEPT !.order[b.bat][l.slot] = <<l.id>>,
            !.staff[b.bat] = IF l.pitches THEN Append(@, l.id) ELSE @]

\* Slip: the home team comes up first.
HalfSlip(b) == LET up == b.half_inning % 2
               IN  [b EXCEPT !.half_inning = @ + 1, !.bat = up,
                             !.score[up] = Append(@, 0)]

\* '~'
Half(b) == LET up == (b.half_inning + 1) % 2
           IN  [b EXCEPT !.half_inning = @ + 1, !.bat = up,
                         !.score[up] = Append(@, 0)]

Inning(b) == b.half_inning \div 2 + 1

\* The starter who leaves is in line for the win.
InLine(b, old) ==
  LET d == Opponent(b.bat)
  IN  /\ ~b.reliever[d]
      /\ b.outs[old] >= QualifyOuts
      /\ b.total[d] > b.total[b.bat]

\* '*': a new pitcher for the team in the field.
Replaced(b, l) ==
  LET d == Opponent(b.bat)
      old == Last(b.order[d][l.slot])
  IN  [b EXCEPT !.order[d][l.slot] = Append(@, l.id),
                !.staff[d] = Append(@, l.id),
                !.winner = IF InLine(b, old) THEN old ELSE @,
                !.reliever[d] = TRUE]

\* Slip: [0] for [-1], the first man of the list.
DecideSlip(b) ==
  IF b.total[HOME] = b.total[AWAY]
    THEN [b EXCEPT !.winner = Nobody, !.loser = Nobody]
    ELSE LET ahead == IF b.total[HOME] > b.total[AWAY] THEN HOME ELSE AWAY
         IN  [b EXCEPT !.loser = Head(b.staff[Opponent(ahead)]),
                       !.winner = IF @ = Nobody /\ b.reliever[ahead]
                                    THEN Head(b.staff[ahead]) ELSE @]

\* The pitchers of record after a run.
Decide(b) ==
  IF b.total[HOME] = b.total[AWAY]
    THEN [b EXCEPT !.winner = Nobody, !.loser = Nobody]
    ELSE LET ahead == IF b.total[HOME] > b.total[AWAY] THEN HOME ELSE AWAY
         IN  [b EXCEPT !.loser = Last(b.staff[Opponent(ahead)]),
                       !.winner = IF @ = Nobody /\ b.reliever[ahead]
                                    THEN Last(b.staff[ahead]) ELSE @]

AddRun(b) ==
  Decide([b EXCEPT !.total[b.bat] = @ + 1, !.score[b.bat][Inning(b)] = @ + 1])

\* '@': a runner scores, on whoever pitches.
Scores(b, l) == AddRun([b EXCEPT !.charged[l.pitcher] = @ + 1])

\* Slip: a home run is written down as a hit only.
AtBatSlip(b, l) ==
  [b EXCEPT !.outs[l.pitcher] = IF l.result \in OutResult THEN @ + 1 ELSE @]

\* '#': record_stats.  Each result of the engine books OUTS, BB or H against
\* the hand of the batter.  The run of the man who hit a home run has no '@'.
AtBat(b, l) ==
  LET c == [b EXCEPT !.outs[l.pitcher] = IF l.result \in OutResult
                                           THEN @ + 1 ELSE @,
                     !.right[l.pitcher] = @ \/ l.hand = "R"]
  IN  IF l.result = "HR" THEN Scores(c, l) ELSE c

ReadLine(b, l) ==
  CASE l.kind = "game"   -> Starting(b)
    [] l.kind = "lineup" -> Listed(b, l)
    [] l.kind = "toggle" -> [b EXCEPT !.bat = Opponent(@)]
    [] l.kind = "half"   -> Half(b)
    [] l.kind = "change" -> Replaced(b, l)
    [] l.kind = "bat"    -> AtBat(b, l)
    [] l.kind = "run"    -> Scores(b, l)
    [] l.kind = "end"    -> b

-----------------------------------------------------------------------------
(* End of input: save_stats and record_results. *)

\* A pitcher without relief has the win of a game his team won.
Winner(b) ==
  LET alone == {s \in Side : ~b.reliever[s] /\ b.total[s] > b.total[Opponent(s)]}
  IN  IF alone = {} THEN b.winner
      ELSE Last(b.staff[CHOOSE s \in alone : TRUE])

\* Slip: the sides are swapped.
VictorSlip(b) == IF b.total[AWAY] > b.total[HOME] THEN HOME ELSE AWAY

\* record_results: not ahead at home is beaten at home.
Victor(b) == IF b.total[HOME] > b.total[AWAY] THEN HOME ELSE AWAY

\* save_pitcher_stat: W and L are in the row against right-handed batters,
\* which is left out when there are no OUTS, BB or H in it.
Saved(b, p) == b.right[p]

\* What the end of input adds to the database.
Credits(b) ==
  [w |-> [p \in Pitcher |-> IF p = Winner(b) /\ Saved(b, p) THEN 1 ELSE 0],
   l |-> [p \in Pitcher |-> IF p = b.loser /\ Saved(b, p) THEN 1 ELSE 0],
   wins |-> [s \in Side |-> IF s = Victor(b) THEN 1 ELSE 0],
   loses |-> [s \in Side |-> IF s = Opponent(Victor(b)) THEN 1 ELSE 0]]
=============================================================================
