--------------------------- MODULE LoggedGameProofs ---------------------------
(***************************************************************************)
(* Theorems about LoggedGame: the reader at the other end of the pipe      *)
(* knows the game, for every lineup, number of innings and of games.       *)
(***************************************************************************)
EXTENDS LoggedGame, GameProofs, WellFoundedInduction

(***************************************************************************)
(* Reading lines one after the other.                                      *)
(***************************************************************************)

\* The states of a reader that begins at b, after each of the first n lines.
Prefix(after, b, lines, n) ==
  after = [k \in 0 .. n |-> IF k = 0 THEN b ELSE ReadLine(after[k - 1], lines[k])]

\* A set of natural numbers that is not empty has a least one.
LEMMA LeastOf ==
  ASSUME NEW S \in SUBSET Nat, S # {}
  PROVE  \E m \in S : \A k \in S : m <= k
<1>1. PICK m \in S : \A k \in S : ~(<<k, m>> \in OpToRel(<, Nat))
  BY NatLessThanWellFounded, WFMin
<1>2. \A k \in S : ~(k < m)
  BY <1>1 DEF OpToRel
<1> QED BY <1>2

\* Reading n lines one after the other is a function of their number.
LEMMA ReadingExists ==
  ASSUME NEW b, NEW lines, NEW n \in Nat
  PROVE  \E after : Prefix(after, b, lines, n)
<1> SUFFICES ASSUME ~ \E after : Prefix(after, b, lines, n) PROVE FALSE
  OBVIOUS
<1> DEFINE without == {k \in Nat : ~ \E after : Prefix(after, b, lines, k)}
<1>1. PICK m \in without : \A k \in without : m <= k
  BY LeastOf
<1>2. m # 0
  <2>1. Prefix([k \in 0 .. 0 |-> b], b, lines, 0)
    BY DEF Prefix
  <2> QED BY <2>1
<1>3. PICK f : Prefix(f, b, lines, m - 1)
  BY <1>1, <1>2
<1> DEFINE g == [k \in 0 .. m |-> IF k = m THEN ReadLine(f[m - 1], lines[m]) ELSE f[k]]
<1>4. \A k \in 0 .. m - 1 : g[k] = f[k]
  BY <1>1
<1>5. ASSUME NEW k \in 0 .. m
      PROVE  g[k] = IF k = 0 THEN b ELSE ReadLine(g[k - 1], lines[k])
  <2>1. CASE k = m
    BY <2>1, <1>1, <1>2, <1>4
  <2>2. CASE k < m
    BY <2>2, <1>1, <1>3, <1>4 DEF Prefix
  <2> QED BY <2>1, <2>2, <1>1
<1>6. Prefix(g, b, lines, m)
  BY <1>5 DEF Prefix
<1> QED BY <1>1, <1>6

\* The function ReadAll is made of.
LEMMA Reading ==
  ASSUME NEW b, NEW lines, Len(lines) \in Nat
  PROVE  \E after : /\ Prefix(after, b, lines, Len(lines))
                    /\ ReadAll(b, lines) = after[Len(lines)]
<1> DEFINE after == CHOOSE f : Prefix(f, b, lines, Len(lines))
<1>1. Prefix(after, b, lines, Len(lines))
  BY ReadingExists
<1>2. ReadAll(b, lines) = after[Len(lines)]
  BY DEF ReadAll, Prefix
<1> QED BY <1>1, <1>2

\* From its i-th state on the reader reads n lines.
ReadsFrom(after, lines, i, n) ==
  \A k \in 1 .. n : after[i + k] = ReadLine(after[i + k - 1], lines[k])

\* A reader that stands where another one begins, and reads the same lines,
\* goes the same way.
LEMMA SameWay ==
  ASSUME NEW f, NEW g, NEW lines, NEW i \in Nat, NEW n \in Nat, f[i] = g[0],
         ReadsFrom(f, lines, i, n), ReadsFrom(g, lines, 0, n)
  PROVE  f[i + n] = g[n]
<1> SUFFICES ASSUME f[i + n] # g[n] PROVE FALSE
  OBVIOUS
<1> DEFINE apart == {k \in Nat : k <= n /\ f[i + k] # g[k]}
<1>1. PICK k \in apart : \A j \in apart : k <= j
  <2>1. apart \in SUBSET Nat /\ n \in apart
    OBVIOUS
  <2> HIDE DEF apart
  <2> QED BY <2>1, LeastOf
<1>2. k # 0
  BY <1>1
<1>3. k - 1 \in Nat /\ k - 1 <= n /\ k - 1 \notin apart /\ k \in 1 .. n
  BY <1>1, <1>2
<1>4. f[i + (k - 1)] = g[k - 1] /\ i + (k - 1) = i + k - 1
  BY <1>3
<1>5. f[i + k] = ReadLine(f[i + k - 1], lines[k]) /\ g[k] = ReadLine(g[k - 1], lines[k])
  BY <1>3 DEF ReadsFrom
<1> QED BY <1>1, <1>4, <1>5

\* A reader reads on where it stopped.
LEMMA ReadsOn ==
  ASSUME NEW b, NEW S, NEW one \in Seq(S), NEW two \in Seq(S)
  PROVE  ReadAll(b, one \o two) = ReadAll(ReadAll(b, one), two)
<1> DEFINE m == Len(one)
           n == Len(two)
           both == one \o two
           mid == ReadAll(b, one)
<1>1. /\ m \in Nat /\ n \in Nat /\ Len(both) = m + n
      /\ \A k \in 1 .. m : both[0 + k] = one[k]
      /\ \A k \in 1 .. n : both[m + k] = two[k]
  OBVIOUS
<1> HIDE DEF m, n, both, mid
<1>2. PICK f : Prefix(f, b, both, m + n) /\ ReadAll(b, both) = f[m + n]
  BY <1>1, Reading
<1>3. PICK g : Prefix(g, b, one, m) /\ mid = g[m]
  BY <1>1, Reading DEF m, mid
<1>4. PICK h : Prefix(h, mid, two, n) /\ ReadAll(mid, two) = h[n]
  BY <1>1, Reading DEF n
<1>5. f[0] = b /\ g[0] = b /\ h[0] = mid
  BY <1>1, <1>2, <1>3, <1>4 DEF Prefix
<1>6. ReadsFrom(f, one, 0, m) /\ ReadsFrom(g, one, 0, m)
  <2> SUFFICES ASSUME NEW k \in 1 .. m
               PROVE  /\ f[0 + k] = ReadLine(f[0 + k - 1], one[k])
                      /\ g[0 + k] = ReadLine(g[0 + k - 1], one[k])
    BY DEF ReadsFrom
  <2>1. k \in 0 .. m /\ k \in 0 .. m + n /\ k # 0 /\ 0 + k = k
    BY <1>1
  <2> QED BY <2>1, <1>1, <1>2, <1>3 DEF Prefix
<1>7. f[m] = mid
  <2>1. f[0 + m] = g[m]
    BY <1>1, <1>5, <1>6, SameWay, 0 \in Nat
  <2> QED BY <2>1, <1>1, <1>3
<1>8. ReadsFrom(f, two, m, n) /\ ReadsFrom(h, two, 0, n)
  <2> SUFFICES ASSUME NEW k \in 1 .. n
               PROVE  /\ f[m + k] = ReadLine(f[m + k - 1], two[k])
                      /\ h[0 + k] = ReadLine(h[0 + k - 1], two[k])
    BY DEF ReadsFrom
  <2>1. m + k \in 0 .. m + n /\ m + k # 0 /\ k \in 0 .. n /\ k # 0
    BY <1>1
  <2> QED BY <2>1, <1>1, <1>2, <1>4, SMTT(30) DEF Prefix
<1>9. f[m + n] = h[n]
  BY <1>1, <1>5, <1>7, <1>8, SameWay
<1> QED BY <1>2, <1>4, <1>9 DEF both, mid

\* One line.
LEMMA ReadsOne == ASSUME NEW b, NEW l PROVE ReadAll(b, <<l>>) = ReadLine(b, l)
<1>1. PICK f : Prefix(f, b, <<l>>, 1) /\ ReadAll(b, <<l>>) = f[1]
  BY Reading
<1>2. f[1] = ReadLine(f[0], l) /\ f[0] = b
  BY <1>1 DEF Prefix
<1> QED BY <1>1, <1>2

\* No line.
LEMMA ReadsNone == ASSUME NEW b PROVE ReadAll(b, <<>>) = b
<1>1. PICK f : Prefix(f, b, <<>>, 0) /\ ReadAll(b, <<>>) = f[0]
  BY Reading
<1> QED BY <1>1 DEF Prefix

-----------------------------------------------------------------------------
(* The line score. *)

\* What SumOf is made of: the runs of the first innings.
Tally(sum, innings, n) ==
  sum = [k \in 0 .. n |-> IF k = 0 THEN 0 ELSE sum[k - 1] + innings[k]]

\* There is such a sum.
LEMMA TallyExists ==
  ASSUME NEW innings, NEW n \in Nat
  PROVE  \E sum : Tally(sum, innings, n)
<1> SUFFICES ASSUME ~ \E sum : Tally(sum, innings, n) PROVE FALSE
  OBVIOUS
<1> DEFINE without == {k \in Nat : ~ \E sum : Tally(sum, innings, k)}
<1>1. PICK m \in without : \A k \in without : m <= k
  BY LeastOf
<1>2. m # 0
  <2>1. Tally([k \in 0 .. 0 |-> 0], innings, 0)
    BY DEF Tally
  <2> QED BY <2>1
<1>3. PICK f : Tally(f, innings, m - 1)
  BY <1>1, <1>2
<1> DEFINE g == [k \in 0 .. m |-> IF k = m THEN f[m - 1] + innings[m] ELSE f[k]]
<1>4. \A k \in 0 .. m - 1 : g[k] = f[k]
  BY <1>1
<1>5. ASSUME NEW k \in 0 .. m
      PROVE  g[k] = IF k = 0 THEN 0 ELSE g[k - 1] + innings[k]
  <2>1. CASE k = m
    BY <2>1, <1>1, <1>2, <1>4
  <2>2. CASE k < m
    BY <2>2, <1>1, <1>3, <1>4 DEF Tally
  <2> QED BY <2>1, <2>2, <1>1
<1>6. Tally(g, innings, m)
  BY <1>5 DEF Tally
<1> QED BY <1>1, <1>6

\* Two tallies that differ from some inning on by d do so to the end.
Ahead(f, g, d, k) == f[k] = g[k] + d

\* Two line scores that differ by d at the first inning of a stretch and agree
\* in the rest of it differ by d at its end.
LEMMA TallyAhead ==
  ASSUME NEW one, NEW two, NEW n \in Nat, NEW i \in 0 .. n, NEW f, NEW g, NEW d \in Nat,
         Tally(f, one, n), Tally(g, two, n), \A k \in 1 .. n : two[k] \in Nat,
         \A k \in (i + 1) .. n : one[k] = two[k],
         Ahead(f, g, d, i), \A k \in 0 .. n : g[k] \in Nat
  PROVE  Ahead(f, g, d, n)
<1> SUFFICES ASSUME ~ Ahead(f, g, d, n) PROVE FALSE
  OBVIOUS
<1> DEFINE apart == {k \in Nat : i <= k /\ k <= n /\ ~ Ahead(f, g, d, k)}
<1>1. PICK k \in apart : \A j \in apart : k <= j
  <2>1. apart \in SUBSET Nat /\ n \in apart
    OBVIOUS
  <2> HIDE DEF apart
  <2> QED BY <2>1, LeastOf
<1>2. k # i /\ k \in (i + 1) .. n /\ k - 1 \in Nat /\ i <= k - 1 /\ k - 1 <= n /\ k - 1 \notin apart
  BY <1>1
<1>3. f[k - 1] = g[k - 1] + d /\ g[k - 1] \in Nat /\ two[k] \in Nat
  BY <1>2 DEF Ahead
<1>4. f[k] = f[k - 1] + one[k] /\ g[k] = g[k - 1] + two[k] /\ one[k] = two[k]
  BY <1>2 DEF Tally
<1> QED BY <1>1, <1>3, <1>4 DEF Ahead

\* The sum of natural numbers is one.
LEMMA TallyNat ==
  ASSUME NEW innings \in Seq(Nat), NEW n \in Nat, n <= Len(innings),
         NEW sum, Tally(sum, innings, n), NEW k \in 0 .. n
  PROVE  sum[k] \in Nat
<1> SUFFICES ASSUME sum[k] \notin Nat PROVE FALSE
  OBVIOUS
<1> DEFINE off == {j \in Nat : j <= n /\ sum[j] \notin Nat}
<1>1. PICK m \in off : \A j \in off : m <= j
  <2>1. off \in SUBSET Nat /\ k \in off
    OBVIOUS
  <2> HIDE DEF off
  <2> QED BY <2>1, LeastOf
<1>2. m # 0
  BY <1>1 DEF Tally
<1>3. m - 1 \in Nat /\ m - 1 \notin off /\ m \in 1 .. Len(innings)
  BY <1>1, <1>2
<1>4. sum[m] = sum[m - 1] + innings[m] /\ innings[m] \in Nat
  BY <1>1, <1>2, <1>3, SMTT(30) DEF Tally
<1> QED BY <1>1, <1>3, <1>4

\* SumOf is the last sum.
LEMMA Tallied ==
  ASSUME NEW innings \in Seq(Nat)
  PROVE  \E sum : /\ Tally(sum, innings, Len(innings))
                  /\ \A k \in 0 .. Len(innings) : sum[k] \in Nat
                  /\ SumOf(innings) = sum[Len(innings)]
<1> DEFINE sum == CHOOSE f : Tally(f, innings, Len(innings))
<1>1. Tally(sum, innings, Len(innings)) /\ Len(innings) \in Nat
  BY TallyExists
<1>2. SumOf(innings) = sum[Len(innings)]
  BY DEF SumOf, Tally
<1> HIDE DEF sum
<1>3. \A k \in 0 .. Len(innings) : sum[k] \in Nat
  BY <1>1, TallyNat
<1> QED BY <1>1, <1>2, <1>3

\* An empty line score.
LEMMA NoRuns == SumOf(<<>>) = 0
<1> DEFINE none == <<>>
<1>0. none \in Seq(Nat) /\ Len(none) = 0
  OBVIOUS
<1> HIDE DEF none
<1>1. PICK f : Tally(f, none, 0) /\ SumOf(none) = f[0]
  BY <1>0, Tallied
<1> QED BY <1>1 DEF Tally, none

\* A new inning has no runs yet.
LEMMA NewInning ==
  ASSUME NEW innings \in Seq(Nat)
  PROVE  SumOf(Append(innings, 0)) = SumOf(innings) /\ SumOf(innings) \in Nat
<1> DEFINE n == Len(innings)
           longer == Append(innings, 0)
<1>1. longer \in Seq(Nat) /\ Len(longer) = n + 1 /\ n \in Nat
      /\ (\A k \in 1 .. n : longer[k] = innings[k]) /\ longer[n + 1] = 0
  OBVIOUS
<1>2. PICK f : Tally(f, longer, n + 1) /\ SumOf(longer) = f[n + 1]
  BY <1>1, Tallied
<1>3. PICK g : Tally(g, innings, n) /\ SumOf(innings) = g[n] /\ \A k \in 0 .. n : g[k] \in Nat
  BY Tallied
<1> HIDE DEF n, longer
<1>4. f[n + 1] = f[n] + 0
  BY <1>1, <1>2 DEF Tally
<1> DEFINE f2 == [k \in 0 .. n |-> f[k]]
<1>5. Tally(f2, longer, n)
  BY <1>1, <1>2 DEF Tally
<1>6. Ahead(f2, g, 0, 0)
  <2>1. 0 \in 0 .. n /\ g[0] = 0
    BY <1>1, <1>3 DEF Tally
  <2>2. f2[0] = 0
    BY <2>1, <1>5 DEF Tally
  <2> HIDE DEF f2
  <2> QED BY <2>1, <2>2 DEF Ahead
<1>7. \A k \in 1 .. n : innings[k] \in Nat
  BY DEF n
<1>8. Ahead(f2, g, 0, n)
  <2>1. \A k \in (0 + 1) .. n : longer[k] = innings[k]
    BY <1>1
  <2>2. 0 \in 0 .. n /\ 0 \in Nat
    BY <1>1
  <2> HIDE DEF f2
  <2> QED BY <1>1, <1>3, <1>5, <1>6, <1>7, <2>1, <2>2, TallyAhead
<1> QED BY <1>1, <1>2, <1>3, <1>4, <1>8 DEF Ahead, longer

\* A sum grows by what one of its numbers grows by.
LEMMA MoreAt ==
  ASSUME NEW innings \in Seq(Nat), NEW i \in 1 .. Len(innings), NEW d \in Nat
  PROVE  LET more == [innings EXCEPT ![i] = innings[i] + d]
         IN  more \in Seq(Nat) /\ Len(more) = Len(innings)
             /\ SumOf(more) = SumOf(innings) + d
<1> DEFINE n == Len(innings)
           more == [innings EXCEPT ![i] = innings[i] + d]
<1>1. /\ more \in Seq(Nat) /\ Len(more) = n /\ n \in Nat /\ i \in 1 .. n
      /\ \A k \in 1 .. n : /\ more[k] = IF k = i THEN innings[i] + d ELSE innings[k]
                          /\ innings[k] \in Nat
  <2>1. innings \in [1 .. n -> Nat] /\ n \in Nat
    OBVIOUS
  <2>2. more \in [1 .. n -> Nat]
    BY <2>1
  <2> QED BY <2>1, <2>2, SeqDef
<1>2. PICK f : Tally(f, more, n) /\ SumOf(more) = f[n]
  BY <1>1, Tallied
<1>3. PICK g : Tally(g, innings, n) /\ SumOf(innings) = g[n] /\ \A k \in 0 .. n : g[k] \in Nat
  BY Tallied
<1> HIDE DEF n, more
<1>4. 0 \in 0 .. n /\ f[0] = 0 /\ g[0] = 0
  BY <1>1, <1>2, <1>3 DEF Tally
\* Up to that inning the two agree; the tally of the shorter score.
<1> DEFINE before == i - 1
           f1 == [k \in 0 .. before |-> f[k]]
           g1 == [k \in 0 .. before |-> g[k]]
<1>5. before \in Nat /\ before \in 0 .. n /\ i \in 0 .. n /\ before + 1 = i /\ i # 0 /\ i - 1 = before
  BY <1>1
<1> HIDE DEF before
<1>6. Tally(f1, more, before) /\ Tally(g1, innings, before)
  <2>1. ASSUME NEW k \in 0 .. before
        PROVE  /\ k \in 0 .. n /\ f1[k] = f[k] /\ g1[k] = g[k]
               /\ k # 0 => k - 1 \in 0 .. before /\ f1[k - 1] = f[k - 1] /\ g1[k - 1] = g[k - 1]
    BY <1>1, <1>5
  <2>2. ASSUME NEW k \in 0 .. before
        PROVE  /\ f1[k] = IF k = 0 THEN 0 ELSE f1[k - 1] + more[k]
               /\ g1[k] = IF k = 0 THEN 0 ELSE g1[k - 1] + innings[k]
    <3> HIDE DEF f1, g1
    <3>1. k \in 0 .. n
      BY <2>1
    <3>2. /\ f[k] = IF k = 0 THEN 0 ELSE f[k - 1] + more[k]
          /\ g[k] = IF k = 0 THEN 0 ELSE g[k - 1] + innings[k]
      BY <3>1, <1>2, <1>3 DEF Tally
    <3> QED BY <2>1, <3>2
  <2> QED BY <2>2 DEF Tally
<1>7. Ahead(f1, g1, 0, before)
  <2>1. \A k \in (0 + 1) .. before : more[k] = innings[k]
    BY <1>1, <1>5
  <2>2. \A k \in 1 .. before : innings[k] \in Nat
    BY <1>1, <1>5
  <2>3. \A k \in 0 .. before : g1[k] \in Nat
    BY <1>1, <1>3, <1>5
  <2>4. 0 \in 0 .. before /\ f1[0] = 0 /\ g1[0] = 0 /\ 0 \in Nat
    BY <1>4, <1>5
  <2> HIDE DEF f1, g1
  <2>5. Ahead(f1, g1, 0, 0)
    BY <2>4 DEF Ahead
  <2> QED BY <1>5, <1>6, <2>1, <2>2, <2>3, <2>4, <2>5, TallyAhead
<1>8. f[before] = g[before] + 0 /\ before \in 0 .. n /\ before \in 0 .. before /\ g[before] \in Nat
  BY <1>3, <1>5, <1>7 DEF Ahead
<1>9. f[i] = f[before] + more[i] /\ g[i] = g[before] + innings[i]
      /\ more[i] = innings[i] + d /\ innings[i] \in Nat
  <2>1. f[i] = IF i = 0 THEN 0 ELSE f[i - 1] + more[i]
    BY <1>2, <1>5 DEF Tally
  <2>2. g[i] = IF i = 0 THEN 0 ELSE g[i - 1] + innings[i]
    BY <1>3, <1>5 DEF Tally
  <2>3. more[i] = innings[i] + d /\ innings[i] \in Nat
    BY <1>1
  <2> QED BY <2>1, <2>2, <2>3, <1>5
<1>10. Ahead(f, g, d, i)
  <2>1. f[before] = g[before]
    BY <1>8
  <2> QED BY <1>8, <1>9, <2>1 DEF Ahead
<1>11. Ahead(f, g, d, n)
  <2>1. \A k \in (i + 1) .. n : more[k] = innings[k]
    BY <1>1
  <2>2. \A k \in 1 .. n : innings[k] \in Nat
    BY <1>1
  <2> QED BY <1>1, <1>2, <1>3, <1>5, <1>10, <2>1, <2>2, TallyAhead
<1> QED BY <1>1, <1>2, <1>3, <1>11 DEF Ahead, more, n

\* A run in one of the innings is one more.
LEMMA OneRun ==
  ASSUME NEW innings \in Seq(Nat), NEW i \in 1 .. Len(innings)
  PROVE  LET more == [innings EXCEPT ![i] = innings[i] + 1]
         IN  more \in Seq(Nat) /\ Len(more) = Len(innings)
             /\ SumOf(more) = SumOf(innings) + 1
  BY MoreAt, 1 \in Nat

-----------------------------------------------------------------------------
(* What each line does to a reader. *)

Side == {0, 1}

Box == [half_inning : Int, bat : Side,
        total : [Side -> Nat], score : [Side -> Seq(Nat)],
        winner : Pitcher \cup {Nobody}, loser : Pitcher \cup {Nobody},
        reliever : [Side -> BOOLEAN],
        staff : [Side -> Seq(Pitcher)],
        order : [Side -> [Slot -> Seq(Player)]],
        outs : [Pitcher -> Nat], charged : [Pitcher -> Nat],
        right : [Pitcher -> BOOLEAN]]

\* There is a loser of record exactly when a side leads, and nobody is in line
\* for the win in a tie.
RecordFollows(b) ==
  /\ b.loser = Nobody <=> b.total[0] = b.total[1]
  /\ b.total[0] = b.total[1] => b.winner = Nobody

\* A reader whose halves, line score, score and pitchers of record agree.
Sound(b) ==
  /\ b \in Box
  /\ b.half_inning >= -1
  /\ b.half_inning >= 0 => b.bat = b.half_inning % 2
  /\ \A s \in Side : /\ Len(b.score[s]) = (b.half_inning + 2 - s) \div 2
                     /\ SumOf(b.score[s]) = b.total[s]
  /\ RecordFollows(b)

\* The inning, the lineups and the pitchers are the same.
SameGame(b, c) ==
  /\ c.half_inning = b.half_inning /\ c.bat = b.bat
  /\ c.order = b.order /\ c.staff = b.staff

\* Nobody's outs and runs have changed.
SameStats(b, c) == c.outs = b.outs /\ c.charged = b.charged

\* The pitchers of record of c.  The loser is the last man that b knows of the
\* side behind, or was the loser when that side was behind already; so is the
\* man in line for the win, of the side ahead.
Redecided(b, c) ==
  \A s \in Side : c.total[s] > c.total[1 - s] =>
    /\ \/ c.loser = Last(b.staff[1 - s])
       \/ b.total[s] > b.total[1 - s] /\ c.loser = b.loser
    /\ \/ c.winner \in {Nobody, Last(b.staff[s])}
       \/ b.total[s] > b.total[1 - s] /\ c.winner = b.winner

\* Nothing is decided when neither the score nor the record changes.
LEMMA SameDecided ==
  ASSUME NEW b, NEW c, c.total = b.total, c.winner = b.winner, c.loser = b.loser
  PROVE  Redecided(b, c)
BY Zenon DEF Redecided

\* Two stretches of lines, of which the first brings no new pitcher.
LEMMA RedecidedMore ==
  ASSUME NEW b, NEW c, NEW d, c.staff = b.staff, Redecided(b, c), Redecided(c, d)
  PROVE  Redecided(b, d)
BY ZenonT(40) DEF Redecided

\* The sides of the reader.
LEMMA SidesAre == Log!Side = Side /\ Log!AWAY = 0 /\ Log!HOME = 1
BY DEF Log!Side, Log!AWAY, Log!HOME, Side

\* '+': a new game, with the men of the last one.
LEMMA GameRead ==
  ASSUME NEW b \in Box, NEW l, l.kind = "game"
  PROVE  LET c == ReadLine(b, l)
         IN  /\ Sound(c) /\ c.half_inning = -1 /\ c.bat = 0
             /\ c.total = [s \in Side |-> 0]
             /\ c.order = b.order /\ c.staff = b.staff /\ SameStats(b, c)
<1> DEFINE c == ReadLine(b, l)
<1>1. c = [b EXCEPT !.half_inning = -1, !.bat = 0,
            !.total = [s \in Side |-> 0], !.score = [s \in Side |-> <<>>],
            !.winner = Nobody, !.loser = Nobody,
            !.reliever = [s \in Side |-> FALSE]]
  BY SidesAre DEF ReadLine, Log!ReadLine, Log!Starting
<1>2. <<>> \in Seq(Nat) /\ Len(<<>>) = 0
  OBVIOUS
<1>3. c \in Box
  <2>1. /\ [s \in Side |-> 0] \in [Side -> Nat] /\ [s \in Side |-> <<>>] \in [Side -> Seq(Nat)]
        /\ [s \in Side |-> FALSE] \in [Side -> BOOLEAN] /\ 0 \in Side /\ -1 \in Int
    BY <1>2 DEF Side
  <2> QED BY <1>1, <2>1, ZenonT(60) DEF Box
<1>4. /\ c.half_inning = -1 /\ c.bat = 0 /\ c.total = [s \in Side |-> 0]
      /\ c.score = [s \in Side |-> <<>>] /\ c.winner = Nobody /\ c.loser = Nobody
      /\ c.order = b.order /\ c.staff = b.staff /\ SameStats(b, c)
  BY <1>1 DEF Box, SameStats
<1> HIDE DEF c
<1>5. RecordFollows(c)
  BY <1>4 DEF RecordFollows, Side
<1>6. \A s \in Side : (-1 + 2 - s) \div 2 = 0
  BY DEF Side
<1>7. Sound(c)
  BY <1>2, <1>3, <1>4, <1>5, <1>6, NoRuns DEF Sound
<1> QED BY <1>4, <1>7 DEF c

\* One more man on a list, and he is its last.
LEMMA ToSetAppend ==
  ASSUME NEW S, NEW seq \in Seq(S), NEW x \in S
  PROVE  /\ Append(seq, x) \in Seq(S) /\ ToSet(Append(seq, x)) = ToSet(seq) \cup {x}
         /\ Append(seq, x) # <<>> /\ Last(Append(seq, x)) = x
<1>1. /\ Append(seq, x) \in Seq(S) /\ Len(Append(seq, x)) = Len(seq) + 1 /\ Len(seq) \in Nat
      /\ DOMAIN seq = 1 .. Len(seq) /\ DOMAIN Append(seq, x) = 1 .. Len(seq) + 1
      /\ \A i \in 1 .. Len(seq) : Append(seq, x)[i] = seq[i]
      /\ Append(seq, x)[Len(seq) + 1] = x
  OBVIOUS
<1>2. ToSet(Append(seq, x)) = ToSet(seq) \cup {x}
  BY <1>1 DEF ToSet
<1> QED BY <1>1, <1>2 DEF Last

\* '^': a man of the side that bats.
LEMMA LineupRead ==
  ASSUME NEW b, Sound(b), NEW l, l.kind = "lineup", l.slot \in Slot, l.id \in Player,
         l.pitches \in BOOLEAN, l.pitches => l.id \in Pitcher
  PROVE  LET c == ReadLine(b, l)
         IN  /\ Sound(c) /\ c.half_inning = b.half_inning /\ c.bat = b.bat
             /\ c.total = b.total
             /\ c.order = [b.order EXCEPT ![b.bat] = [@ EXCEPT ![l.slot] = <<l.id>>]]
             /\ c.staff = [b.staff EXCEPT ![b.bat] = IF l.pitches THEN Append(@, l.id) ELSE @]
             /\ SameStats(b, c)
<1> DEFINE c == ReadLine(b, l)
           order == [b.order EXCEPT ![b.bat] = [@ EXCEPT ![l.slot] = <<l.id>>]]
           staff == [b.staff EXCEPT ![b.bat] = IF l.pitches THEN Append(@, l.id) ELSE @]
<1>0. b \in Box /\ b.bat \in Side /\ b.order \in [Side -> [Slot -> Seq(Player)]]
      /\ b.staff \in [Side -> Seq(Pitcher)]
  BY DEF Sound, Box
<1>1. c = [b EXCEPT !.order = order, !.staff = staff]
  <2>1. c = [b EXCEPT !.order[b.bat][l.slot] = <<l.id>>,
            !.staff[b.bat] = IF l.pitches THEN Append(@, l.id) ELSE @]
    BY DEF ReadLine, Log!ReadLine, Log!Listed
  <2> QED BY <2>1, <1>0 DEF Box
<1>2. order \in [Side -> [Slot -> Seq(Player)]]
  <2>1. <<l.id>> \in Seq(Player)
    OBVIOUS
  <2> QED BY <2>1, <1>0
<1>3. staff \in [Side -> Seq(Pitcher)]
  BY <1>0, ToSetAppend
<1> HIDE DEF order, staff
<1>4. c \in Box
  BY <1>0, <1>1, <1>2, <1>3 DEF Box
<1>5. /\ c.half_inning = b.half_inning /\ c.bat = b.bat /\ c.total = b.total
      /\ c.score = b.score /\ c.winner = b.winner /\ c.loser = b.loser
      /\ c.order = order /\ c.staff = staff /\ SameStats(b, c)
  BY <1>0, <1>1 DEF Box, SameStats
<1> HIDE DEF c
<1>6. RecordFollows(c)
  BY <1>5 DEF Sound, RecordFollows
<1> QED BY <1>4, <1>5, <1>6 DEF Sound, order, staff, c

\* The other lineup follows.
LEMMA ToggleRead ==
  ASSUME NEW b, Sound(b), b.half_inning = -1, NEW l, l.kind = "toggle"
  PROVE  LET c == ReadLine(b, l)
         IN  /\ Sound(c) /\ c.half_inning = -1 /\ c.bat = 1 - b.bat
             /\ c.total = b.total /\ c.order = b.order /\ c.staff = b.staff
             /\ SameStats(b, c)
<1> DEFINE c == ReadLine(b, l)
<1>0. b \in Box /\ b.bat \in Side /\ 1 - b.bat \in Side
  BY DEF Sound, Box, Side
<1>1. c = [b EXCEPT !.bat = 1 - b.bat]
  BY <1>0 DEF ReadLine, Log!ReadLine, Log!Opponent, Box
<1>2. c \in Box
  BY <1>0, <1>1 DEF Box
<1>3. /\ c.half_inning = b.half_inning /\ c.bat = 1 - b.bat /\ c.total = b.total
      /\ c.score = b.score /\ c.winner = b.winner /\ c.loser = b.loser
      /\ c.order = b.order /\ c.staff = b.staff /\ SameStats(b, c)
  BY <1>0, <1>1 DEF Box, SameStats
<1> HIDE DEF c
<1> QED BY <1>2, <1>3 DEF Sound, RecordFollows, c

\* How many innings each side has begun.
LEMMA Halves ==
  ASSUME NEW n \in Nat
  PROVE  /\ n % 2 \in Side
         /\ n % 2 = 0 => (n + 2) \div 2 = (n + 1) \div 2 + 1 /\ (n + 1) \div 2 = n \div 2
         /\ n % 2 = 1 => (n + 2) \div 2 = (n + 1) \div 2 /\ (n + 1) \div 2 = n \div 2 + 1
BY DEF Side

\* '~': the next half begins.
LEMMA HalfRead ==
  ASSUME NEW b, Sound(b), NEW l, l.kind = "half"
  PROVE  LET c == ReadLine(b, l)
         IN  /\ Sound(c) /\ c.half_inning = b.half_inning + 1
             /\ c.total = b.total /\ c.order = b.order /\ c.staff = b.staff
             /\ SameStats(b, c) /\ Redecided(b, c)
<1> DEFINE c == ReadLine(b, l)
           up == (b.half_inning + 1) % 2
           score == [b.score EXCEPT ![up] = Append(@, 0)]
<1>a. /\ b \in Box /\ b.half_inning \in Int /\ b.half_inning + 1 \in Nat
      /\ b.score \in [Side -> Seq(Nat)]
  BY DEF Sound, Box
<1>0. /\ b \in Box /\ b.half_inning + 1 \in Int /\ b.half_inning \in Int
      /\ b.half_inning + 1 \in Nat /\ b.score \in [Side -> Seq(Nat)] /\ up \in Side
  BY <1>a, Halves
<1>1. c = [b EXCEPT !.half_inning = b.half_inning + 1, !.bat = up, !.score = score]
  BY <1>0 DEF ReadLine, Log!ReadLine, Log!Half, Box
<1>2. /\ score \in [Side -> Seq(Nat)] /\ Len(b.score[up]) \in Nat
      /\ Len(score[up]) = Len(b.score[up]) + 1
      /\ \A s \in Side : s # up => score[s] = b.score[s]
  BY <1>0
<1>3. \A s \in Side : SumOf(score[s]) = SumOf(b.score[s])
  BY <1>0, NewInning
<1>4. \A s \in Side : Len(score[s]) = (b.half_inning + 1 + 2 - s) \div 2
  <2>1. PICK n \in Nat : n = b.half_inning + 1
    BY <1>0
  <2>2. Len(b.score[0]) = (n + 1) \div 2 /\ Len(b.score[1]) = n \div 2
    <3>1. /\ Len(b.score[0]) = (b.half_inning + 2 - 0) \div 2
          /\ Len(b.score[1]) = (b.half_inning + 2 - 1) \div 2
      BY DEF Sound, Side
    <3>2. b.half_inning + 2 - 0 = n + 1 /\ b.half_inning + 2 - 1 = n
      BY <1>0, <2>1
    <3> QED BY <3>1, <3>2
  <2>3. up = n % 2
    BY <2>1
  <2>4. /\ up = 0 => Len(score[0]) = Len(b.score[0]) + 1 /\ score[1] = b.score[1]
        /\ up = 1 => Len(score[1]) = Len(b.score[1]) + 1 /\ score[0] = b.score[0]
    BY <1>2 DEF Side
  <2> HIDE DEF up, score
  <2>5. Len(score[0]) = (n + 2) \div 2 /\ Len(score[1]) = (n + 1) \div 2
    <3>1. up = 0 \/ up = 1
      BY <1>0 DEF Side
    <3> QED BY <2>2, <2>3, <2>4, <3>1, Halves
  <2>6. b.half_inning + 1 + 2 - 0 = n + 2 /\ b.half_inning + 1 + 2 - 1 = n + 1
    BY <1>0, <2>1
  <2> QED BY <2>5, <2>6 DEF Side
<1> HIDE DEF up, score
<1>5. c \in Box
  BY <1>0, <1>1, <1>2 DEF Box
<1>6. /\ c.half_inning = b.half_inning + 1 /\ c.bat = up /\ c.total = b.total
      /\ c.score = score /\ c.winner = b.winner /\ c.loser = b.loser
      /\ c.order = b.order /\ c.staff = b.staff /\ SameStats(b, c)
  BY <1>0, <1>1 DEF Box, SameStats
<1> HIDE DEF c
<1>7. RecordFollows(c)
  BY <1>6 DEF Sound, RecordFollows
<1>8. c.bat = c.half_inning % 2 /\ c.half_inning >= -1
  BY <1>0, <1>6 DEF up
<1>9. \A s \in Side : /\ Len(c.score[s]) = (c.half_inning + 2 - s) \div 2
                     /\ SumOf(c.score[s]) = c.total[s]
  BY <1>0, <1>3, <1>4, <1>6 DEF Sound
<1>10. Sound(c)
  BY <1>5, <1>7, <1>8, <1>9 DEF Sound
<1>11. Redecided(b, c)
  BY <1>6, SameDecided
<1> QED BY <1>6, <1>10, <1>11 DEF c

\* '*': the man in the field who stood in that slot, who pitched last, is
\* replaced.
LEMMA ChangeRead ==
  ASSUME NEW b, Sound(b), NEW l, l.kind = "change", l.slot \in Slot, l.id \in Pitcher,
         Last(b.order[1 - b.bat][l.slot]) = Last(b.staff[1 - b.bat]),
         b.staff[1 - b.bat] # <<>>
  PROVE  LET c == ReadLine(b, l)
             d == 1 - b.bat
         IN  /\ Sound(c) /\ c.half_inning = b.half_inning /\ c.bat = b.bat /\ c.total = b.total
             /\ c.order = [s \in Side |-> [i \in Slot |->
                           IF s = d /\ i = l.slot THEN Append(b.order[s][i], l.id) ELSE b.order[s][i]]]
             /\ c.staff = [b.staff EXCEPT ![d] = Append(@, l.id)]
             /\ SameStats(b, c) /\ Redecided(b, c)
<1> DEFINE c == ReadLine(b, l)
           d == 1 - b.bat
           old == Last(b.order[d][l.slot])
           win == IF Log!InLine(b, old) THEN old ELSE b.winner
           order == [s \in Side |-> [i \in Slot |->
                       IF s = d /\ i = l.slot THEN Append(b.order[s][i], l.id) ELSE b.order[s][i]]]
           staff == [b.staff EXCEPT ![d] = Append(@, l.id)]
           relief == [b.reliever EXCEPT ![d] = TRUE]
<1>0. /\ b \in Box /\ b.bat \in Side /\ d \in Side /\ 1 - d = b.bat
      /\ b.order \in [Side -> [Slot -> Seq(Player)]] /\ b.staff \in [Side -> Seq(Pitcher)]
      /\ b.reliever \in [Side -> BOOLEAN] /\ b.total \in [Side -> Nat]
  <2>1. b \in Box /\ b.bat \in Side
    BY DEF Sound, Box
  <2>2. d \in Side /\ 1 - d = b.bat
    BY <2>1 DEF Side
  <2> QED BY <2>1, <2>2 DEF Box
<1>1. c = [b EXCEPT !.order = order, !.staff = staff, !.winner = win, !.reliever = relief]
  <2>1. c = [b EXCEPT !.order[d][l.slot] = Append(@, l.id),
                !.staff[d] = Append(@, l.id),
                !.winner = win,
                !.reliever[d] = TRUE]
    BY DEF ReadLine, Log!ReadLine, Log!Replaced, Log!Opponent, Last, Log!Last
  <2> HIDE DEF win, d, c
  <2>2. [b.order EXCEPT ![d][l.slot] = Append(@, l.id)] = order
    BY <1>0
  <2>3. c = [b EXCEPT !.order = [b.order EXCEPT ![d][l.slot] = Append(@, l.id)],
                !.staff = staff, !.winner = win, !.reliever = relief]
    BY <2>1, <1>0 DEF Box
  <2> QED BY <2>2, <2>3
<1>2. order \in [Side -> [Slot -> Seq(Player)]] /\ relief \in [Side -> BOOLEAN]
  <2>1. l.id \in Player
    BY PlayerAssumption
  <2>2. Append(b.order[d][l.slot], l.id) \in Seq(Player)
    <3>1. b.order[d][l.slot] \in Seq(Player)
      BY <1>0
    <3> QED BY <2>1, <3>1, ToSetAppend
  <2> HIDE DEF d
  <2> QED BY <2>2, <1>0
<1>3. staff \in [Side -> Seq(Pitcher)]
  BY <1>0, ToSetAppend
<1>4. old = Last(b.staff[d]) /\ old \in Pitcher
  <2>1. b.staff[d] \in Seq(Pitcher) /\ Len(b.staff[d]) \in 1 .. Len(b.staff[d])
    BY <1>0
  <2> QED BY <2>1 DEF Last
<1>5. /\ win \in Pitcher \cup {Nobody}
      /\ win # b.winner => win = Last(b.staff[d]) /\ b.total[d] > b.total[1 - d]
  BY <1>0, <1>4 DEF Log!InLine, Log!Opponent, Box
<1> HIDE DEF order, staff, win, relief
<1>6. c \in Box
  BY <1>0, <1>1, <1>2, <1>3, <1>5 DEF Box
<1>7. /\ c.half_inning = b.half_inning /\ c.bat = b.bat /\ c.total = b.total
      /\ c.score = b.score /\ c.winner = win /\ c.loser = b.loser
      /\ c.order = order /\ c.staff = staff /\ SameStats(b, c)
  BY <1>0, <1>1 DEF Box, SameStats
<1> HIDE DEF c
<1>8. RecordFollows(c)
  <2>1. b.total[0] = b.total[1] => win = b.winner
    BY <1>0, <1>5 DEF Side
  <2> QED BY <1>7, <2>1 DEF Sound, RecordFollows
<1>9. Redecided(b, c)
  <2> SUFFICES ASSUME NEW s \in Side, b.total[s] > b.total[1 - s]
               PROVE  win \in {Nobody, Last(b.staff[s])} \/ win = b.winner
    BY <1>7 DEF Redecided
  <2>1. ASSUME b.total[d] > b.total[1 - d], s # d PROVE FALSE
    <3>1. s = 1 - d /\ 1 - s = d
      BY <1>0, <2>1 DEF Side
    <3>2. b.total[d] \in Nat /\ b.total[1 - d] \in Nat
      BY <1>0
    <3> HIDE DEF d
    <3> QED BY <2>1, <3>1, <3>2
  <2> QED BY <1>5, <2>1
<1> QED BY <1>6, <1>7, <1>8, <1>9 DEF Sound, order, staff, c

\* A run belongs to an inning of the line score.
LEMMA InningThere ==
  ASSUME NEW n \in Nat, NEW s \in Side, s = n % 2
  PROVE  n \div 2 + 1 = (n + 2 - s) \div 2 /\ n \div 2 + 1 \in Nat \ {0}
<1>1. n \div 2 \in Nat
  OBVIOUS
<1>2. CASE s = 0
  <2>1. n + 2 - s = n + 2
    BY <1>2
  <2> QED BY <1>1, <1>2, <2>1, Halves
<1>3. CASE s = 1
  <2>1. n + 2 - s = n + 1
    BY <1>3
  <2> QED BY <1>1, <1>3, <2>1, Halves
<1> QED BY <1>2, <1>3 DEF Side

\* The scores of a reader after a run.
LEMMA RunScored ==
  ASSUME NEW b, Sound(b), b.half_inning >= 0, \A s \in Side : b.staff[s] # <<>>,
         NEW l, l.pitcher \in Pitcher
  PROVE  LET c == Log!Scores(b, l)
         IN  /\ Sound(c) /\ SameGame(b, c)
             /\ c.total = [b.total EXCEPT ![b.bat] = @ + 1]
             /\ c.charged = [b.charged EXCEPT ![l.pitcher] = @ + 1] /\ c.outs = b.outs
             /\ Redecided(b, c)
<1> DEFINE c == Log!Scores(b, l)
           total == [b.total EXCEPT ![b.bat] = @ + 1]
           n == b.half_inning \div 2 + 1
           line == [b.score[b.bat] EXCEPT ![n] = b.score[b.bat][n] + 1]
           score == [b.score EXCEPT ![b.bat] = line]
           charged == [b.charged EXCEPT ![l.pitcher] = @ + 1]
           m == [b EXCEPT !.charged = charged, !.total = total, !.score = score]
<1>0. /\ b \in Box /\ b.bat \in Side /\ b.half_inning \in Nat /\ b.total \in [Side -> Nat]
      /\ b.score \in [Side -> Seq(Nat)] /\ b.charged \in [Pitcher -> Nat]
      /\ b.staff \in [Side -> Seq(Pitcher)]
  <2>1. b \in Box /\ b.half_inning \in Int
    BY DEF Sound, Box
  <2>2. b.half_inning \in Nat
    BY <2>1
  <2> QED BY <2>1, <2>2 DEF Box
<1>1. n \in 1 .. Len(b.score[b.bat])
  <2>1. Len(b.score[b.bat]) = (b.half_inning + 2 - b.bat) \div 2 /\ b.bat = b.half_inning % 2
    BY <1>0 DEF Sound
  <2>2. n = (b.half_inning + 2 - b.bat) \div 2 /\ n \in Nat \ {0}
    BY <2>1, <1>0, InningThere
  <2> HIDE DEF n
  <2>3. n = Len(b.score[b.bat])
    BY <2>1, <2>2
  <2> QED BY <2>2, <2>3
<1>2. line \in Seq(Nat) /\ Len(line) = Len(b.score[b.bat]) /\ SumOf(line) = SumOf(b.score[b.bat]) + 1
  BY <1>0, <1>1, OneRun
<1>3. c = Log!Decide(m)
  <2>1. c = Log!AddRun([b EXCEPT !.charged = charged])
    BY <1>0 DEF Log!Scores, Box
  <2> DEFINE a == [b EXCEPT !.charged = charged]
  <2>2. a.half_inning = b.half_inning /\ a.bat = b.bat /\ a.total = b.total /\ a.score = b.score
    BY <1>0 DEF Box
  <2>3. c = Log!Decide([a EXCEPT !.total[b.bat] = @ + 1, !.score[b.bat][n] = @ + 1])
    BY <2>1, <2>2 DEF Log!AddRun, Log!Inning
  <2>4. [a EXCEPT !.total[b.bat] = @ + 1, !.score[b.bat][n] = @ + 1]
          = [a EXCEPT !.total = total, !.score = score]
    <3> HIDE DEF a, n
    <3>1. a.total[b.bat] = b.total[b.bat] /\ a.score[b.bat][n] = b.score[b.bat][n]
      BY <2>2
    <3> QED BY <2>2, <1>0
  <2>5. [a EXCEPT !.total = total, !.score = score] = m
    BY <1>0 DEF Box
  <2> QED BY <2>3, <2>4, <2>5
<1>4. total \in [Side -> Nat] /\ charged \in [Pitcher -> Nat] /\ score \in [Side -> Seq(Nat)]
  <2> HIDE DEF line
  <2>1. score \in [Side -> Seq(Nat)]
    BY <1>0, <1>2
  <2>2. b.total[b.bat] + 1 \in Nat /\ b.charged[l.pitcher] + 1 \in Nat
    BY <1>0, SMTT(30)
  <2>3. total \in [Side -> Nat] /\ charged \in [Pitcher -> Nat]
    BY <1>0, <2>2
  <2> QED BY <2>1, <2>3
<1>5. \A s \in Side : /\ Len(score[s]) = Len(b.score[s])
                     /\ SumOf(score[s]) = total[s]
  <2>1. \A s \in Side : SumOf(b.score[s]) = b.total[s]
    BY DEF Sound
  <2> HIDE DEF line
  <2> QED BY <2>1, <1>0, <1>2
<1> HIDE DEF total, score, charged, n, line, c
<1>6. /\ m.total = total /\ m.score = score /\ m.half_inning = b.half_inning /\ m.bat = b.bat
      /\ m.winner = b.winner /\ m.loser = b.loser /\ m.order = b.order /\ m.staff = b.staff
      /\ m.reliever = b.reliever /\ m.charged = charged /\ m.outs = b.outs
      /\ m \in Box
  BY <1>0, <1>4 DEF Box
<1> HIDE DEF m
<1> DEFINE ahead == IF total[1] > total[0] THEN 1 ELSE 0
           win == IF b.winner = Nobody /\ b.reliever[ahead] THEN Last(b.staff[ahead]) ELSE b.winner
<1>7. c = IF total[1] = total[0] THEN [m EXCEPT !.winner = Nobody, !.loser = Nobody]
          ELSE [m EXCEPT !.loser = Last(b.staff[1 - ahead]), !.winner = win]
  BY <1>3, <1>6, SidesAre DEF Log!Decide, Log!Opponent, Log!Last, Last, Log!AWAY, Log!HOME
<1>8. \A s \in Side : Last(b.staff[s]) \in ToSet(b.staff[s]) /\ ToSet(b.staff[s]) \subseteq Pitcher
  BY <1>0 DEF Last, ToSet
<1>9. ahead \in Side /\ 1 - ahead \in Side /\ (total[1] # total[0] => total[ahead] > total[1 - ahead])
  BY <1>4 DEF Side
<1>10. Last(b.staff[1 - ahead]) \in Pitcher /\ win \in Pitcher \cup {Nobody}
  BY <1>0, <1>8, <1>9 DEF Box
<1> HIDE DEF ahead, win
<1>11. /\ SameGame(b, c) /\ c.charged = charged /\ c.outs = b.outs /\ c.total = total /\ c.score = score /\ c \in Box
       /\ c.winner = IF total[1] = total[0] THEN Nobody ELSE win
       /\ c.loser = IF total[1] = total[0] THEN Nobody ELSE Last(b.staff[1 - ahead])
  BY <1>6, <1>7, <1>10 DEF SameGame, Box
<1>12. RecordFollows(c) /\ Redecided(b, c)
  <2>1. CASE total[1] = total[0]
    BY <2>1, <1>4, <1>11 DEF RecordFollows, Redecided, Side
  <2>2. CASE total[1] # total[0]
    <3>1. c.loser = Last(b.staff[1 - ahead]) /\ c.loser # Nobody /\ c.winner = win
      BY <2>2, <1>8, <1>9, <1>11, PlayerAssumption
    <3>2. \/ win \in {Nobody, Last(b.staff[ahead])}
          \/ b.total[ahead] > b.total[1 - ahead] /\ win = b.winner
      <4>1. b.winner = Nobody => win \in {Nobody, Last(b.staff[ahead])}
        BY DEF win
      <4>2. ASSUME b.winner # Nobody PROVE b.total[ahead] > b.total[1 - ahead] /\ win = b.winner
        <5>1. b.total[0] # b.total[1] /\ b.total[0] \in Nat /\ b.total[1] \in Nat
          BY <4>2, <1>0 DEF Sound, RecordFollows, Side
        <5>2. total[b.bat] = b.total[b.bat] + 1 /\ total[1 - b.bat] = b.total[1 - b.bat]
          BY <1>0 DEF total, Side
        <5>3. ahead = (IF total[1] > total[0] THEN 1 ELSE 0)
          BY DEF ahead
        <5>4. win = b.winner
          BY <4>2 DEF win
        <5> HIDE DEF ahead, total
        <5>5. CASE b.bat = 0
          BY <5>1, <5>2, <5>3, <5>4, <5>5, <2>2
        <5>6. CASE b.bat = 1
          BY <5>1, <5>2, <5>3, <5>4, <5>6, <2>2
        <5> QED BY <5>5, <5>6, <1>0 DEF Side
      <4> QED BY <4>1, <4>2
    <3>3. ASSUME NEW s \in Side, total[s] > total[1 - s] PROVE s = ahead
      BY <3>3, <1>4 DEF ahead, Side
    <3>4. Redecided(b, c)
      BY <1>11, <3>1, <3>2, <3>3, Zenon DEF Redecided
    <3>5. RecordFollows(c)
      BY <2>2, <1>11, <3>1 DEF RecordFollows
    <3> QED BY <3>4, <3>5
  <2> QED BY <2>1, <2>2
<1>13. Sound(c)
  <2>1. \A s \in Side : Len(b.score[s]) = (b.half_inning + 2 - s) \div 2
    BY DEF Sound
  <2> QED BY <2>1, <1>0, <1>5, <1>11, <1>12 DEF Sound, SameGame
<1> QED BY <1>11, <1>12, <1>13 DEF c, total, charged

\* The reader is in the middle of a game.
InPlay(b) == Sound(b) /\ b.half_inning >= 0 /\ \A s \in Side : b.staff[s] # <<>>

\* n runs of the team at bat and o outs, on the pitcher p.
Scored(b, c, p, n, o) ==
  /\ InPlay(c) /\ SameGame(b, c)
  /\ c.total = [b.total EXCEPT ![b.bat] = b.total[b.bat] + n]
  /\ c.charged = [b.charged EXCEPT ![p] = b.charged[p] + n]
  /\ c.outs = [b.outs EXCEPT ![p] = b.outs[p] + o]
  /\ Redecided(b, c)

\* The runs and outs of two stretches of lines add up.
LEMMA ScoredMore ==
  ASSUME NEW b, InPlay(b), NEW c, NEW d, NEW p \in Pitcher,
         NEW m \in Nat, NEW n \in Nat, NEW o \in Nat, NEW q \in Nat,
         Scored(b, c, p, m, o), Scored(c, d, p, n, q)
  PROVE  Scored(b, d, p, m + n, o + q)
<1>1. /\ b.bat \in Side /\ b.total \in [Side -> Nat]
      /\ b.charged \in [Pitcher -> Nat] /\ b.outs \in [Pitcher -> Nat]
  BY DEF InPlay, Sound, Box
<1>2. /\ d.total = [c.total EXCEPT ![b.bat] = c.total[b.bat] + n]
      /\ d.charged = [c.charged EXCEPT ![p] = c.charged[p] + n]
      /\ d.outs = [c.outs EXCEPT ![p] = c.outs[p] + q]
  BY DEF Scored, SameGame
<1>3. /\ c.total = [b.total EXCEPT ![b.bat] = b.total[b.bat] + m]
      /\ c.charged = [b.charged EXCEPT ![p] = b.charged[p] + m]
      /\ c.outs = [b.outs EXCEPT ![p] = b.outs[p] + o]
  BY DEF Scored
<1>4. d.total = [b.total EXCEPT ![b.bat] = b.total[b.bat] + (m + n)]
  BY <1>1, <1>2, <1>3
<1>5. d.charged = [b.charged EXCEPT ![p] = b.charged[p] + (m + n)]
  BY <1>1, <1>2, <1>3
<1>6. d.outs = [b.outs EXCEPT ![p] = b.outs[p] + (o + q)]
  BY <1>1, <1>2, <1>3
<1>7. Redecided(b, d)
  BY RedecidedMore DEF Scored, SameGame
<1> QED BY <1>4, <1>5, <1>6, <1>7 DEF Scored, SameGame

\* Nothing happens.
LEMMA NothingScored ==
  ASSUME NEW b, InPlay(b), NEW p \in Pitcher
  PROVE  Scored(b, b, p, 0, 0)
<1>1. /\ b.bat \in Side /\ b.total \in [Side -> Nat]
      /\ b.charged \in [Pitcher -> Nat] /\ b.outs \in [Pitcher -> Nat]
  BY DEF InPlay, Sound, Box
<1>2. b.total = [b.total EXCEPT ![b.bat] = b.total[b.bat] + 0]
  BY <1>1
<1>3. b.charged = [b.charged EXCEPT ![p] = b.charged[p] + 0]
  BY <1>1
<1>4. b.outs = [b.outs EXCEPT ![p] = b.outs[p] + 0]
  BY <1>1
<1>5. Redecided(b, b)
  BY SameDecided
<1> QED BY <1>2, <1>3, <1>4, <1>5 DEF Scored, SameGame

\* '@': one run.
LEMMA OneScored ==
  ASSUME NEW b, InPlay(b), NEW l, l.pitcher \in Pitcher
  PROVE  Scored(b, Log!Scores(b, l), l.pitcher, 1, 0)
<1> DEFINE c == Log!Scores(b, l)
<1>1. /\ Sound(c) /\ SameGame(b, c) /\ c.total = [b.total EXCEPT ![b.bat] = @ + 1]
      /\ c.charged = [b.charged EXCEPT ![l.pitcher] = @ + 1] /\ c.outs = b.outs
      /\ Redecided(b, c)
  BY RunScored DEF InPlay
<1> HIDE DEF c
<1>2. b.outs = [b.outs EXCEPT ![l.pitcher] = b.outs[l.pitcher] + 0]
  BY DEF InPlay, Sound, Box
<1>3. Scored(b, c, l.pitcher, 1, 0)
  BY <1>1, <1>2 DEF Scored, InPlay, SameGame
<1> QED BY <1>3 DEF c

\* '#': the play, with the run of the man who hits a home run.
LEMMA BatRead ==
  ASSUME NEW b, InPlay(b), NEW l, l.kind = "bat", l.pitcher \in Pitcher
  PROVE  Scored(b, ReadLine(b, l), l.pitcher, IF l.result = "HR" THEN 1 ELSE 0,
                IF l.result \in OutType THEN 1 ELSE 0)
<1> DEFINE o == IF l.result \in OutType THEN 1 ELSE 0
           credited == [b.outs EXCEPT ![l.pitcher] = b.outs[l.pitcher] + o]
           right == [b.right EXCEPT ![l.pitcher] = @ \/ l.hand = "R"]
           c == [b EXCEPT !.outs = credited, !.right = right]
<1>1. /\ b \in Box /\ b.outs \in [Pitcher -> Nat] /\ b.total \in [Side -> Nat] /\ b.bat \in Side
      /\ b.charged \in [Pitcher -> Nat] /\ o \in Nat /\ b.right \in [Pitcher -> BOOLEAN]
  BY DEF InPlay, Sound, Box
<1>2. ReadLine(b, l) = IF l.result = "HR" THEN Log!Scores(c, l) ELSE c
  <2>1. ReadLine(b, l)
          = LET d == [b EXCEPT !.outs[l.pitcher] = IF l.result \in OutType THEN @ + 1 ELSE @,
                               !.right[l.pitcher] = @ \/ l.hand = "R"]
            IN  IF l.result = "HR" THEN Log!Scores(d, l) ELSE d
    BY DEF ReadLine, Log!ReadLine, Log!AtBat
  <2>2. credited = [b.outs EXCEPT ![l.pitcher] = IF l.result \in OutType THEN @ + 1 ELSE @]
    BY <1>1
  <2> HIDE DEF credited
  <2>3. [b EXCEPT !.outs[l.pitcher] = IF l.result \in OutType THEN @ + 1 ELSE @,
                  !.right[l.pitcher] = @ \/ l.hand = "R"] = c
    BY <1>1, <2>2 DEF Box
  <2> QED BY <2>1, <2>3
<1>3. credited \in [Pitcher -> Nat] /\ right \in [Pitcher -> BOOLEAN]
  BY <1>1
<1>4. credited = [b.outs EXCEPT ![l.pitcher] = b.outs[l.pitcher] + o]
  OBVIOUS
<1> HIDE DEF credited, right, o
<1>5. /\ c \in Box /\ SameGame(b, c) /\ c.total = b.total /\ c.score = b.score
      /\ c.winner = b.winner /\ c.loser = b.loser /\ c.charged = b.charged /\ c.outs = credited
  BY <1>1, <1>3 DEF Box, SameGame
<1> HIDE DEF c
<1>6. InPlay(c)
  BY <1>5 DEF InPlay, Sound, SameGame, RecordFollows
<1>7. Scored(b, c, l.pitcher, 0, o)
  <2>1. b.total = [b.total EXCEPT ![b.bat] = b.total[b.bat] + 0]
    BY <1>1
  <2>2. b.charged = [b.charged EXCEPT ![l.pitcher] = b.charged[l.pitcher] + 0]
    BY <1>1
  <2>3. Redecided(b, c)
    BY <1>5, SameDecided
  <2> QED BY <1>4, <1>5, <1>6, <2>1, <2>2, <2>3 DEF Scored
<1>8. Scored(c, Log!Scores(c, l), l.pitcher, 1, 0)
  BY <1>6, OneScored
<1>9. Scored(b, Log!Scores(c, l), l.pitcher, 0 + 1, o + 0)
  BY <1>1, <1>7, <1>8, ScoredMore, 0 \in Nat, 1 \in Nat
<1>10. o + 0 = o /\ 0 + 1 = 1
  BY <1>1
<1> QED BY <1>2, <1>7, <1>9, <1>10 DEF o

\* The '@' lines of a play are that many runs.
LEMMA RunsRead ==
  ASSUME NEW b, InPlay(b), NEW p \in Pitcher, NEW n \in Nat
  PROVE  Scored(b, ReadAll(b, [k \in 1 .. n |-> [kind |-> "run", pitcher |-> p]]), p, n, 0)
<1> DEFINE run == [kind |-> "run", pitcher |-> p]
           lines == [k \in 1 .. n |-> run]
<1>1. Len(lines) = n
  OBVIOUS
<1>2. PICK f : Prefix(f, b, lines, n) /\ ReadAll(b, lines) = f[n]
  BY <1>1, Reading
<1> DEFINE bad == {k \in Nat : k <= n /\ ~ Scored(b, f[k], p, k, 0)}
<1>3. Scored(b, f[0], p, 0, 0)
  BY <1>2, NothingScored DEF Prefix
<1> SUFFICES ASSUME ~ Scored(b, f[n], p, n, 0) PROVE FALSE
  BY <1>2
<1>4. PICK k \in bad : \A j \in bad : k <= j
  <2>1. bad \in SUBSET Nat /\ n \in bad
    OBVIOUS
  <2> HIDE DEF bad
  <2> QED BY <2>1, LeastOf
<1>5. k \in 1 .. n /\ k - 1 \in Nat /\ k - 1 \notin bad /\ (k - 1) + 1 = k
  BY <1>3, <1>4
<1>6. Scored(b, f[k - 1], p, k - 1, 0)
  BY <1>5
<1>7. f[k] = Log!Scores(f[k - 1], run)
  <2>1. f[k] = ReadLine(f[k - 1], run)
    BY <1>2, <1>5 DEF Prefix
  <2> QED BY <2>1 DEF ReadLine, Log!ReadLine
<1>8. Scored(f[k - 1], f[k], p, 1, 0)
  <2>1. InPlay(f[k - 1]) /\ run.pitcher = p
    BY <1>6 DEF Scored
  <2> HIDE DEF run
  <2> QED BY <1>7, <2>1, OneScored
<1>9. Scored(b, f[k], p, (k - 1) + 1, 0 + 0)
  BY <1>5, <1>6, <1>8, ScoredMore, 0 \in Nat, 1 \in Nat
<1> QED BY <1>4, <1>5, <1>9

\* The lines of a play are as many runs as the play scores: a home run gives
\* one by its '#' and the others by an '@' each.
LEMMA PlayRead ==
  ASSUME IInv, NEW b, InPlay(b), pitcher \in Pitcher, NEW type \in ResultType,
         NEW sentHome \in BOOLEAN, NEW extraBase \in BOOLEAN
  PROVE  Scored(b, ReadAll(b, PlayLines(type, sentHome, extraBase)), pitcher,
                RunsOn(Destination(type, base_runners, sentHome, extraBase), base_runners),
                IF type \in OutType THEN 1 ELSE 0)
<1> DEFINE to == Destination(type, base_runners, sentHome, extraBase)
           scored == RunsOn(to, base_runners)
           own == IF type = "HR" THEN 1 ELSE 0
           bat == BatLine(type)
           run == [kind |-> "run", pitcher |-> pitcher]
           lines == [k \in 1 .. scored - own |-> run]
<1>1. scored \in Nat /\ scored - own \in Nat /\ own + (scored - own) = scored /\ own \in Nat
  <2>1. scored \in Nat
    BY RunsOnType
  <2>2. type = "HR" => scored # 0
    <3> SUFFICES ASSUME type = "HR" PROVE scored # 0
      OBVIOUS
    <3>1. to[0] = HomePlate
      BY DEF Destination, OutType, Corner
    <3>2. 0 \in Arrivals(to, base_runners, HomePlate)
      BY <3>1 DEF Arrivals, Manned
    <3>3. IsFiniteSet(Arrivals(to, base_runners, HomePlate))
      <4>1. IsFiniteSet(0 .. 3)
        BY FS_Interval, 0 \in Int, 3 \in Int
      <4>2. Arrivals(to, base_runners, HomePlate) \subseteq 0 .. 3
        BY DEF Arrivals, Manned, Occupied, Base
      <4> QED BY <4>1, <4>2, FS_Subset
    <3> QED BY <3>2, <3>3, FS_EmptySet DEF RunsOn
  <2> HIDE DEF scored
  <2> QED BY <2>1, <2>2
<1> HIDE DEF scored, own, to
<1>2. PlayLines(type, sentHome, extraBase) = <<bat>> \o lines
  BY DEF PlayLines, scored, own, to
<1>3. <<bat>> \in Seq({bat, run}) /\ lines \in Seq({bat, run})
  BY <1>1
<1>4. ReadAll(b, <<bat>> \o lines) = ReadAll(ReadLine(b, bat), lines)
  <2> HIDE DEF bat, lines
  <2>1. ReadAll(b, <<bat>> \o lines) = ReadAll(ReadAll(b, <<bat>>), lines)
    <3>1. PICK S : <<bat>> \in Seq(S) /\ lines \in Seq(S)
      BY <1>3
    <3>2. \A one, two \in Seq(S) : ReadAll(b, one \o two) = ReadAll(ReadAll(b, one), two)
      BY ReadsOn
    <3> QED BY <3>1, <3>2, Zenon
  <2> QED BY <2>1, ReadsOne
<1> DEFINE o == IF type \in OutType THEN 1 ELSE 0
<1>5. Scored(b, ReadLine(b, bat), pitcher, own, o)
  <2>1. bat.kind = "bat" /\ bat.pitcher = pitcher /\ bat.result = type
    BY DEF BatLine
  <2> HIDE DEF bat
  <2> QED BY <2>1, BatRead DEF own
<1>6. Scored(ReadLine(b, bat), ReadAll(ReadLine(b, bat), lines), pitcher, scored - own, 0)
  <2> DEFINE c == ReadLine(b, bat)
  <2>1. InPlay(c)
    BY <1>5 DEF Scored
  <2> HIDE DEF c
  <2>2. Scored(c, ReadAll(c, lines), pitcher, scored - own, 0)
    BY <1>1, <2>1, RunsRead
  <2> QED BY <2>2 DEF c
<1>7. o \in Nat /\ o + 0 = o
  OBVIOUS
<1> HIDE DEF o, bat, lines
<1>8. Scored(b, ReadAll(ReadLine(b, bat), lines), pitcher, own + (scored - own), o + 0)
  BY <1>1, <1>5, <1>6, <1>7, ScoredMore, 0 \in Nat
<1> QED BY <1>1, <1>2, <1>4, <1>7, <1>8 DEF scored, to, o

\* The card of a complete game as the reader is told it.
Told(t) ==
  /\ \A i \in Slot : offense[t][i] \in Player
  /\ defense[t][Mound] \in Pitcher
  /\ \E i \in Slot : offense[t][i] = defense[t][Mound]
  /\ \A i, j \in Slot : offense[t][i] = offense[t][j] => i = j

\* The first k men of a lineup have been read.
HasListed(b, c, t, k) ==
  /\ Sound(c) /\ c.half_inning = b.half_inning /\ c.bat = b.bat /\ c.total = b.total
  /\ \A s \in Side : s # b.bat => c.order[s] = b.order[s] /\ c.staff[s] = b.staff[s]
  /\ \A i \in 1 .. k : c.order[b.bat][i] = <<offense[t][i]>>
  /\ c.staff[b.bat] = IF \E i \in 1 .. k : offense[t][i] = defense[t][Mound]
                         THEN Append(b.staff[b.bat], defense[t][Mound]) ELSE b.staff[b.bat]
  /\ SameStats(b, c)

\* The '^' lines of a lineup, man by man.
LEMMA LineupsRead ==
  ASSUME NEW b, Sound(b), NEW t, Told(t)
  PROVE  HasListed(b, ReadAll(b, LineupLines(t)), t, LineupSize)
<1> DEFINE lines == LineupLines(t)
           n == LineupSize
<1>1. n \in Nat /\ Len(lines) = n /\ Slot = 1 .. n
  BY NumberAssumption DEF LineupLines, Slot
<1>2. PICK f : Prefix(f, b, lines, n) /\ ReadAll(b, lines) = f[n]
  BY <1>1, Reading
<1> HIDE DEF lines, n
<1> DEFINE bad == {k \in Nat : k <= n /\ ~ HasListed(b, f[k], t, k)}
<1>3. HasListed(b, f[0], t, 0)
  <2>1. f[0] = b
    BY <1>1, <1>2 DEF Prefix
  <2> QED BY <2>1 DEF HasListed, SameStats
<1> SUFFICES ASSUME ~ HasListed(b, f[n], t, n) PROVE FALSE
  BY <1>2 DEF n, lines
<1>4. PICK k \in bad : \A j \in bad : k <= j
  <2>1. bad \in SUBSET Nat /\ n \in bad
    BY <1>1
  <2> HIDE DEF bad
  <2> QED BY <2>1, LeastOf
<1>5. k \in 1 .. n /\ k - 1 \in Nat /\ k - 1 \notin bad /\ k \in Slot
  BY <1>1, <1>3, <1>4
<1> DEFINE c == f[k - 1]
           d == f[k]
           l == lines[k]
<1>6. HasListed(b, c, t, k - 1)
  BY <1>1, <1>5
<1>7. d = ReadLine(c, l)
  BY <1>1, <1>2, <1>5 DEF Prefix
<1>8. /\ l.kind = "lineup" /\ l.slot = k /\ l.id = offense[t][k]
      /\ l.pitches = (offense[t][k] = defense[t][Mound])
  BY <1>5 DEF lines, LineupLines
<1> HIDE DEF c, d, l
<1>9. /\ l.slot \in Slot /\ l.id \in Player /\ l.pitches \in BOOLEAN
      /\ (l.pitches => l.id \in Pitcher) /\ Sound(c)
  BY <1>5, <1>6, <1>8 DEF Told, HasListed
<1>10. /\ Sound(d) /\ d.half_inning = c.half_inning /\ d.bat = c.bat
       /\ d.total = c.total
       /\ d.order = [c.order EXCEPT ![c.bat] = [@ EXCEPT ![l.slot] = <<l.id>>]]
       /\ d.staff = [c.staff EXCEPT ![c.bat] = IF l.pitches THEN Append(@, l.id) ELSE @]
       /\ SameStats(c, d)
  BY <1>7, <1>8, <1>9, LineupRead, ZenonT(40)
<1>11. c.order \in [Side -> [Slot -> Seq(Player)]] /\ c.staff \in [Side -> Seq(Pitcher)] /\ c.bat \in Side
       /\ c.bat = b.bat
  BY <1>6, <1>9 DEF Sound, Box, HasListed
<1>12. \A s \in Side : s # b.bat => d.order[s] = b.order[s] /\ d.staff[s] = b.staff[s]
  BY <1>6, <1>10, <1>11 DEF HasListed
<1>13. \A i \in 1 .. k : d.order[b.bat][i] = <<offense[t][i]>>
  <2> SUFFICES ASSUME NEW i \in 1 .. k PROVE d.order[b.bat][i] = <<offense[t][i]>>
    OBVIOUS
  <2>1. i \in Slot /\ (i # k => i \in 1 .. k - 1)
    BY <1>1, <1>5
  <2>2. d.order[b.bat] = [c.order[b.bat] EXCEPT ![k] = <<offense[t][k]>>]
    BY <1>8, <1>10, <1>11
  <2>3. c.order[b.bat] \in [Slot -> Seq(Player)]
    BY <1>11
  <2>4. CASE i = k
    BY <2>1, <2>2, <2>3, <2>4
  <2>5. CASE i # k
    <3>1. c.order[b.bat][i] = <<offense[t][i]>>
      BY <2>1, <2>5, <1>6 DEF HasListed
    <3> QED BY <2>1, <2>2, <2>3, <2>5, <3>1
  <2> QED BY <2>4, <2>5
<1>14. d.staff[b.bat] = IF \E i \in 1 .. k : offense[t][i] = defense[t][Mound]
                         THEN Append(b.staff[b.bat], defense[t][Mound]) ELSE b.staff[b.bat]
  <2>1. d.staff[b.bat] = IF offense[t][k] = defense[t][Mound]
                           THEN Append(c.staff[b.bat], offense[t][k]) ELSE c.staff[b.bat]
    <3>1. d.staff[c.bat] = IF l.pitches THEN Append(c.staff[c.bat], l.id) ELSE c.staff[c.bat]
      <4>1. \A man : [c.staff EXCEPT ![c.bat] = man][c.bat] = man
        BY <1>11
      <4> QED BY <1>10, <4>1
    <3> QED BY <3>1, <1>8, <1>11
  <2>2. c.staff[b.bat] = IF \E i \in 1 .. k - 1 : offense[t][i] = defense[t][Mound]
                         THEN Append(b.staff[b.bat], defense[t][Mound]) ELSE b.staff[b.bat]
    BY <1>6 DEF HasListed
  <2>3. CASE offense[t][k] = defense[t][Mound]
    <3>1. ~ \E i \in 1 .. k - 1 : offense[t][i] = defense[t][Mound]
      <4> SUFFICES ASSUME NEW i \in 1 .. k - 1, offense[t][i] = defense[t][Mound] PROVE FALSE
        OBVIOUS
      <4>1. i \in Slot /\ i # k
        BY <1>1, <1>5
      <4> QED BY <4>1, <1>5, <2>3 DEF Told
    <3>2. \E i \in 1 .. k : offense[t][i] = defense[t][Mound]
      BY <2>3, <1>5
    <3> QED BY <2>1, <2>2, <2>3, <3>1, <3>2
  <2>4. CASE offense[t][k] # defense[t][Mound]
    <3>1. (\E i \in 1 .. k : offense[t][i] = defense[t][Mound])
            <=> (\E i \in 1 .. k - 1 : offense[t][i] = defense[t][Mound])
      <4>1. \A i : i \in 1 .. k <=> i = k \/ i \in 1 .. k - 1
        BY <1>5
      <4> QED BY <2>4, <4>1
    <3> QED BY <2>1, <2>2, <2>4, <3>1
  <2> QED BY <2>3, <2>4
<1>15. HasListed(b, d, t, k)
  BY <1>6, <1>10, <1>11, <1>12, <1>13, <1>14 DEF HasListed, SameStats
<1> QED BY <1>4, <1>15 DEF d

\* The men of a team as the reader knows them.
KnowsMen(b, t) ==
  LET s == SideOf(t)
  IN  /\ b.staff[s] # <<>> /\ Last(b.staff[s]) = defense[t][Mound]
      /\ \A i \in Slot : b.order[s][i] # <<>> /\ Last(b.order[s][i]) = offense[t][i]

\* After them the reader knows the men of that team.
LEMMA ListedMen ==
  ASSUME NEW b, Sound(b), NEW t, Told(t), NEW c, HasListed(b, c, t, LineupSize),
         SideOf(t) = b.bat
  PROVE  KnowsMen(c, t) /\ c.staff[SideOf(t)] = Append(b.staff[SideOf(t)], defense[t][Mound])
<1> DEFINE s == b.bat
<1>1. s \in Side /\ b.staff[s] \in Seq(Pitcher)
  BY DEF Sound, Box
<1>2. Slot = 1 .. LineupSize
  BY DEF Slot
<1>3. c.staff[s] = Append(b.staff[s], defense[t][Mound])
  BY <1>2 DEF HasListed, Told
<1>4. c.staff[s] # <<>> /\ Last(c.staff[s]) = defense[t][Mound]
  BY <1>1, <1>3, ToSetAppend DEF Told
<1>5. \A i \in Slot : c.order[s][i] = <<offense[t][i]>>
  BY <1>2 DEF HasListed
<1>6. \A x : <<x>> # <<>> /\ Last(<<x>>) = x
  BY DEF Last
<1> QED BY <1>3, <1>4, <1>5, <1>6 DEF KnowsMen

\* The starters have joined their staffs.
JoinsStaff(b, c) ==
  \A t \in Team : c.staff[SideOf(t)] = Append(b.staff[SideOf(t)], defense[t][Mound])

\* The lines before the first half: the reader forgets the last game, and knows
\* both teams.
LEMMA StartRead ==
  ASSUME NEW b \in Box, \A t \in Team : Told(t)
  PROVE  LET c == ReadAll(b, StartLines)
         IN  /\ Sound(c) /\ c.half_inning = 0
             /\ c.total = [s \in Side |-> 0]
             /\ \A t \in Team : KnowsMen(c, t)
             /\ JoinsStaff(b, c) /\ SameStats(b, c)
<1> DEFINE game == [kind |-> "game"]
           toggle == [kind |-> "toggle"]
           half == [kind |-> "half"]
           away == LineupLines(AWAY_TEAM)
           home == LineupLines(HOME_TEAM)
           S == {game, toggle, half} \cup {away[i] : i \in Slot} \cup {home[i] : i \in Slot}
           b1 == ReadLine(b, game)
           b2 == ReadAll(b1, away)
           b3 == ReadLine(b2, toggle)
           b4 == ReadAll(b3, home)
           b5 == ReadLine(b4, half)
<1>1. /\ <<game>> \in Seq(S) /\ <<toggle>> \in Seq(S) /\ <<half>> \in Seq(S)
      /\ away \in Seq(S) /\ home \in Seq(S)
  <2>1. LineupSize \in Nat
    BY NumberAssumption
  <2>2. away = [i \in 1 .. LineupSize |-> away[i]] /\ home = [i \in 1 .. LineupSize |-> home[i]]
    BY DEF LineupLines, Slot
  <2> HIDE DEF away, home
  <2>3. away \in [1 .. LineupSize -> S] /\ home \in [1 .. LineupSize -> S]
    BY <2>2 DEF Slot
  <2>4. away \in Seq(S) /\ home \in Seq(S)
    BY <2>1, <2>3, SeqDef
  <2> HIDE DEF S
  <2>5. game \in S /\ toggle \in S /\ half \in S
    BY DEF S
  <2> HIDE DEF game, toggle, half
  <2> QED BY <2>4, <2>5
<1>2. StartLines = <<game>> \o away \o <<toggle>> \o home \o <<half>>
  BY DEF StartLines
<1>3. ReadAll(b, StartLines) = b5
  <2> HIDE DEF S, game, toggle, half, away, home
  <2>1. \A c : \A one, two \in Seq(S) : ReadAll(c, one \o two) = ReadAll(ReadAll(c, one), two)
    BY ReadsOn
  <2>2. \A one, two \in Seq(S) : one \o two \in Seq(S)
    OBVIOUS
  <2> DEFINE l2 == <<game>> \o away
             l3 == l2 \o <<toggle>>
             l4 == l3 \o home
  <2>3. l2 \in Seq(S) /\ l3 \in Seq(S) /\ l4 \in Seq(S)
    BY <1>1, <2>2
  <2>4. ReadAll(b, l2) = ReadAll(ReadAll(b, <<game>>), away)
    BY <1>1, <2>1
  <2>5. ReadAll(b, l3) = ReadAll(ReadAll(b, l2), <<toggle>>)
    <3> HIDE DEF l2
    <3> QED BY <1>1, <2>1, <2>3
  <2>6. ReadAll(b, l4) = ReadAll(ReadAll(b, l3), home)
    <3> HIDE DEF l3
    <3> QED BY <1>1, <2>1, <2>3
  <2>7. ReadAll(b, l4 \o <<half>>) = ReadAll(ReadAll(b, l4), <<half>>)
    <3> HIDE DEF l4
    <3> QED BY <1>1, <2>1, <2>3, ZenonT(40)
  <2>8. StartLines = l4 \o <<half>>
    BY <1>2
  <2> HIDE DEF l2, l3, l4
  <2>9. ReadAll(b, l2) = b2
    BY <2>4, ReadsOne
  <2>10. ReadAll(b, l3) = b3
    BY <2>5, <2>9, ReadsOne
  <2>11. ReadAll(b, l4) = b4
    BY <2>6, <2>10
  <2> HIDE DEF b4
  <2> QED BY <2>7, <2>8, <2>11, ReadsOne
<1>4. /\ Sound(b1) /\ b1.half_inning = -1 /\ b1.bat = 0 /\ b1.total = [s \in Side |-> 0]
      /\ b1.staff = b.staff /\ SameStats(b, b1)
  BY GameRead
<1>5. AWAY_TEAM \in Team /\ HOME_TEAM \in Team /\ SideOf(AWAY_TEAM) = 0 /\ SideOf(HOME_TEAM) = 1
      /\ Team = {AWAY_TEAM, HOME_TEAM}
  BY DEF Team, SideOf, AWAY_TEAM, HOME_TEAM, Log!HOME, Log!AWAY
<1> HIDE DEF b1
<1>6. HasListed(b1, b2, AWAY_TEAM, LineupSize)
  BY <1>4, <1>5, LineupsRead
<1>7. /\ KnowsMen(b2, AWAY_TEAM) /\ Sound(b2) /\ b2.half_inning = -1 /\ b2.bat = 0 /\ b2.total = b1.total
      /\ b2.staff[0] = Append(b1.staff[0], defense[AWAY_TEAM][Mound]) /\ b2.staff[1] = b1.staff[1]
      /\ SameStats(b1, b2)
  <2>1. KnowsMen(b2, AWAY_TEAM) /\ b2.staff[0] = Append(b1.staff[0], defense[AWAY_TEAM][Mound])
    BY <1>4, <1>5, <1>6, ListedMen
  <2>2. /\ Sound(b2) /\ b2.half_inning = -1 /\ b2.bat = 0 /\ b2.total = b1.total
        /\ b2.staff[1] = b1.staff[1] /\ SameStats(b1, b2)
    BY <1>4, <1>6 DEF HasListed, Side
  <2> QED BY <2>1, <2>2
<1> HIDE DEF b2
<1>8. /\ Sound(b3) /\ b3.half_inning = -1 /\ b3.bat = 1 /\ b3.total = b1.total
      /\ b3.order = b2.order /\ b3.staff = b2.staff /\ SameStats(b2, b3)
  BY <1>7, ToggleRead
<1> HIDE DEF b3
<1>9. HasListed(b3, b4, HOME_TEAM, LineupSize)
  BY <1>5, <1>8, LineupsRead
<1>10. /\ KnowsMen(b4, HOME_TEAM) /\ Sound(b4) /\ b4.half_inning = -1 /\ b4.total = b1.total
       /\ b4.order[0] = b2.order[0] /\ b4.staff[0] = b2.staff[0]
       /\ b4.staff[1] = Append(b3.staff[1], defense[HOME_TEAM][Mound]) /\ SameStats(b3, b4)
  <2>1. KnowsMen(b4, HOME_TEAM) /\ b4.staff[1] = Append(b3.staff[1], defense[HOME_TEAM][Mound])
    BY <1>5, <1>8, <1>9, ListedMen
  <2>2. /\ Sound(b4) /\ b4.half_inning = -1 /\ b4.total = b1.total
        /\ b4.order[0] = b2.order[0] /\ b4.staff[0] = b2.staff[0] /\ SameStats(b3, b4)
    BY <1>5, <1>8, <1>9 DEF HasListed, Side
  <2> QED BY <2>1, <2>2
<1>11. KnowsMen(b4, AWAY_TEAM)
  BY <1>5, <1>7, <1>10 DEF KnowsMen
<1> HIDE DEF b4
<1>12. /\ Sound(b5) /\ b5.half_inning = 0 /\ b5.total = b1.total
       /\ b5.order = b4.order /\ b5.staff = b4.staff /\ SameStats(b4, b5)
  BY <1>10, HalfRead
<1> HIDE DEF b5
<1>13. KnowsMen(b5, AWAY_TEAM) /\ KnowsMen(b5, HOME_TEAM)
  BY <1>10, <1>11, <1>12 DEF KnowsMen
<1>14. SameStats(b, b5)
  BY <1>4, <1>7, <1>8, <1>10, <1>12 DEF SameStats
<1>15. JoinsStaff(b, b5)
  BY <1>4, <1>5, <1>7, <1>8, <1>10, <1>12 DEF JoinsStaff
<1> QED BY <1>3, <1>4, <1>5, <1>12, <1>13, <1>14, <1>15

Fresh ==
  /\ pc = "start" => /\ inning = 1 /\ team_hitting = AWAY_TEAM /\ ~inning_over
                     /\ \A t \in Team : runs[t] = 0
  /\ pc = "bat" => ~inning_over

\* The half that is on, or about to begin, as the reader counts.
HalfNow == 2 * (inning - 1) + SideOf(team_hitting)

\* What the reader b knows of a game.
FollowsGame(b) ==
  /\ InPlay(b)
  /\ b.half_inning = IF inning_over THEN HalfNow - 1 ELSE HalfNow
  /\ \A t \in Team : b.total[SideOf(t)] = runs[t] /\ KnowsMen(b, t)

\* The teams of the game and the sides of the reader.
LEMMA SideFacts ==
  /\ Team = {0, 1} /\ HOME_TEAM = 0 /\ AWAY_TEAM = 1
  /\ \A t \in Team : /\ SideOf(t) = 1 - t /\ SideOf(t) \in Side /\ Other(t) \in Team
                     /\ SideOf(Other(t)) = 1 - SideOf(t) /\ Other(Other(t)) = t /\ Other(t) # t
  /\ \A s \in Side : \E t \in Team : SideOf(t) = s
BY DEF Team, HOME_TEAM, AWAY_TEAM, SideOf, Log!HOME, Log!AWAY, Side, Other

\* A complete card can be told.
LEMMA CardTold ==
  ASSUME IInv, Complete(Card0), NEW t \in Team
  PROVE  Told(t)
<1>1. SoundCard(Card0)
  BY DEF IInv, CardsKept
<1>2. offense \in [Team -> [Slot -> Player \cup {Nobody}]]
  BY DEF IInv, TypeOK
<1> QED BY <1>1, <1>2 DEF Told, SoundCard, Complete, Card0

\* The game begins, and its reader follows.
LEMMA StartFollows ==
  ASSUME IInv, Fresh, box \in Box, LogStart
  PROVE  FollowsGame(box)' /\ JoinsStaff(box, box') /\ SameStats(box, box')
<1>1. /\ pc = "start" /\ Complete(Card0) /\ box' = ReadAll(box, StartLines)
      /\ UNCHANGED <<inning, team_hitting, inning_over, runs, offense, defense>>
  BY DEF LogStart, StartGame, Reads, clock, cards
<1>2. /\ Sound(box') /\ box'.half_inning = 0 /\ box'.total = [s \in Side |-> 0]
      /\ \A t \in Team : KnowsMen(box', t)
      /\ JoinsStaff(box, box') /\ SameStats(box, box')
  BY <1>1, CardTold, StartRead
<1>3. \A s \in Side : box'.staff[s] # <<>>
  BY <1>2, SideFacts DEF KnowsMen
<1>4. HalfNow' = 0 /\ ~inning_over'
  BY <1>1, SideFacts DEF HalfNow, Fresh, SideOf
<1>5. \A t \in Team : KnowsMen(box, t)'
  BY <1>1, <1>2 DEF KnowsMen
<1>6. \A t \in Team : box'.total[SideOf(t)] = runs'[t]
  BY <1>1, <1>2, SideFacts DEF Fresh
<1> QED BY <1>2, <1>3, <1>4, <1>5, <1>6 DEF FollowsGame, InPlay

\* The half is the home team's when its number is odd.
LEMMA HalfNowFacts ==
  ASSUME IInv
  PROVE  HalfNow \in Nat /\ HalfNow % 2 = SideOf(team_hitting)
<1>1. inning \in Nat \ {0} /\ team_hitting \in Team
  BY DEF IInv, TypeOK
<1>2. \A n \in Nat : (2 * n + 0) % 2 = 0 /\ (2 * n + 1) % 2 = 1
  OBVIOUS
<1>3. inning - 1 \in Nat /\ (SideOf(team_hitting) = 0 \/ SideOf(team_hitting) = 1)
  BY <1>1, SideFacts
<1> QED BY <1>2, <1>3 DEF HalfNow

\* The mound is settled: the reader has heard of the half that is on.
LEMMA HalfFollows ==
  ASSUME IInv, pc = "top", FollowsGame(box), NEW more, more \in Seq([kind : {"change"}, id : Pitcher, slot : Slot])
  PROVE  \E b : /\ InPlay(b) /\ b.half_inning = HalfNow /\ b.bat = SideOf(team_hitting)
                /\ \A t \in Team : b.total[SideOf(t)] = runs[t] /\ KnowsMen(b, t)
                /\ ReadAll(box, HalfLines \o more) = ReadAll(b, more)
                /\ b.staff = box.staff /\ SameStats(box, b) /\ Redecided(box, b)
<1> DEFINE half == [kind |-> "half"]
           b == IF inning_over THEN ReadLine(box, half) ELSE box
<1>1. Sound(box) /\ box.half_inning >= 0 /\ HalfNow \in Nat /\ HalfNow % 2 = SideOf(team_hitting)
  BY HalfNowFacts DEF FollowsGame, InPlay
<1>2. ReadAll(box, HalfLines \o more) = ReadAll(b, more)
  <2>1. CASE inning_over
    <3>1. HalfLines = <<half>>
      BY <2>1 DEF HalfLines
    <3>2. PICK S : <<half>> \in Seq(S) /\ more \in Seq(S)
      <4> DEFINE S == {half} \cup [kind : {"change"}, id : Pitcher, slot : Slot]
      <4>1. [kind : {"change"}, id : Pitcher, slot : Slot] \subseteq S /\ half \in S
        OBVIOUS
      <4> HIDE DEF S, half
      <4>2. <<half>> \in Seq(S)
        BY <4>1
      <4>3. more \in Seq(S)
        <5> DEFINE T == [kind : {"change"}, id : Pitcher, slot : Slot]
        <5>1. more \in Seq(T) /\ T \subseteq S
          BY <4>1
        <5> HIDE DEF T
        <5> QED BY <5>1, SeqDef
      <4> QED BY <4>2, <4>3
    <3>3. \A one, two \in Seq(S) : ReadAll(box, one \o two) = ReadAll(ReadAll(box, one), two)
      BY ReadsOn
    <3>4. ReadAll(box, <<half>> \o more) = ReadAll(ReadAll(box, <<half>>), more)
      BY <3>2, <3>3
    <3> HIDE DEF half
    <3>5. ReadAll(box, <<half>>) = ReadLine(box, half)
      BY ReadsOne
    <3> QED BY <2>1, <3>1, <3>4, <3>5
  <2>2. CASE ~inning_over
    <3>1. HalfLines \o more = more
      BY <2>2 DEF HalfLines
    <3> QED BY <2>2, <3>1
  <2> QED BY <2>1, <2>2
<1>3. /\ Sound(b) /\ b.half_inning = HalfNow /\ b.total = box.total
      /\ b.order = box.order /\ b.staff = box.staff /\ SameStats(box, b) /\ Redecided(box, b)
  <2>1. CASE inning_over
    <3>1. /\ Sound(b) /\ b.half_inning = box.half_inning + 1 /\ b.total = box.total
          /\ b.order = box.order /\ b.staff = box.staff /\ SameStats(box, b) /\ Redecided(box, b)
      BY <2>1, <1>1, HalfRead
    <3> QED BY <2>1, <3>1, <1>1 DEF FollowsGame
  <2>2. CASE ~inning_over
    BY <2>2, <1>1, SameDecided DEF FollowsGame, SameStats
  <2> QED BY <2>1, <2>2
<1> HIDE DEF b
<1>4. b.bat = SideOf(team_hitting) /\ InPlay(b)
  BY <1>1, <1>3 DEF Sound, InPlay, FollowsGame
<1>5. \A t \in Team : b.total[SideOf(t)] = runs[t] /\ KnowsMen(b, t)
  BY <1>3 DEF FollowsGame, KnowsMen
<1> QED BY <1>2, <1>3, <1>4, <1>5

\* The pitcher stays in.
LEMMA KeepFollows ==
  ASSUME IInv, FollowsGame(box), LogKeep
  PROVE  /\ FollowsGame(box)' /\ box'.staff = box.staff /\ SameStats(box, box')
         /\ Redecided(box, box')
<1> DEFINE none == <<>>
<1>1. /\ pc = "top" /\ box' = ReadAll(box, HalfLines) /\ inning_over' = FALSE
      /\ UNCHANGED <<inning, team_hitting, runs, offense, defense>>
  BY DEF LogKeep, KeepPitcher, Reads, clock, cards
<1>2. none \in Seq([kind : {"change"}, id : Pitcher, slot : Slot]) /\ HalfLines \o none = HalfLines
  BY DEF HalfLines
<1>3. \A b : ReadAll(b, none) = b
  BY ReadsNone
<1> HIDE DEF none
<1>4. PICK b : /\ InPlay(b) /\ b.half_inning = HalfNow /\ b.bat = SideOf(team_hitting)
               /\ \A t \in Team : b.total[SideOf(t)] = runs[t] /\ KnowsMen(b, t)
               /\ ReadAll(box, HalfLines \o none) = ReadAll(b, none)
               /\ b.staff = box.staff /\ SameStats(box, b) /\ Redecided(box, b)
  BY <1>1, <1>2, HalfFollows
<1>5. box' = b
  BY <1>1, <1>2, <1>3, <1>4
<1> QED BY <1>1, <1>4, <1>5 DEF FollowsGame, HalfNow, KnowsMen

\* A plate appearance: the score, and the half when it was the last out.
LEMMA PlayFollows ==
  ASSUME IInv, Fresh, FollowsGame(box), NEW type \in ResultType, NEW sentHome \in BOOLEAN, NEW extraBase \in BOOLEAN,
         LogPlay(type, sentHome, extraBase)
  PROVE  /\ FollowsGame(box)'
         /\ Scored(box, box', pitcher,
                   RunsOn(Destination(type, base_runners, sentHome, extraBase), base_runners),
                   OutsOn(type))
<1> DEFINE scored == RunsOn(Destination(type, base_runners, sentHome, extraBase), base_runners)
           t0 == team_hitting
<1>1. /\ pc = "bat" /\ box' = ReadAll(box, PlayLines(type, sentHome, extraBase))
      /\ runs' = [runs EXCEPT ![t0] = @ + scored]
      /\ CountOuts(outs + OutsOn(type)) /\ UNCHANGED <<offense, defense>> /\ ~inning_over
  BY DEF LogPlay, PlateAppearance, Reads, cards, Fresh
<1>2. /\ pitcher \in Pitcher /\ team_hitting \in Team /\ inning \in Nat \ {0}
      /\ runs \in [Team -> Nat]
  BY <1>1, MoundFacts DEF IInv, TypeOK
<1>3. Scored(box, box', pitcher, scored, OutsOn(type))
  BY <1>1, <1>2, PlayRead DEF FollowsGame, OutsOn
<1>4. scored \in Nat
  BY RunsOnType
<1> HIDE DEF scored
<1>5. box.half_inning = HalfNow /\ HalfNow \in Nat /\ box.bat = SideOf(t0) /\ box.total \in [Side -> Nat]
  BY <1>1, HalfNowFacts DEF FollowsGame, InPlay, Sound, Box
<1>6. \A t \in Team : box'.total[SideOf(t)] = runs'[t]
  <2> SUFFICES ASSUME NEW t \in Team PROVE box'.total[SideOf(t)] = runs'[t]
    OBVIOUS
  <2>1. box'.total = [box.total EXCEPT ![SideOf(t0)] = box.total[SideOf(t0)] + scored]
    BY <1>3, <1>5 DEF Scored
  <2>2. SideOf(t) = SideOf(t0) => t = t0
    BY <1>2, SideFacts
  <2>3. box.total[SideOf(t)] = runs[t] /\ SideOf(t) \in Side /\ box.total[SideOf(t0)] = runs[t0]
    BY <1>2, SideFacts DEF FollowsGame
  <2> QED BY <1>1, <1>2, <1>5, <2>1, <2>2, <2>3
<1>7. \A t \in Team : KnowsMen(box, t)'
  BY <1>1, <1>3 DEF FollowsGame, KnowsMen, Scored, SameGame
<1>8. box'.half_inning = IF inning_over' THEN HalfNow' - 1 ELSE HalfNow'
  <2>1. box'.half_inning = HalfNow
    BY <1>3, <1>5 DEF Scored, SameGame
  <2>2. CASE UNCHANGED <<inning, team_hitting, inning_over>>
    BY <2>1, <2>2, <1>1 DEF HalfNow
  <2>3. CASE /\ inning_over' = TRUE /\ team_hitting' = Other(team_hitting)
             /\ inning' = IF team_hitting = HOME_TEAM THEN inning + 1 ELSE inning
    <3>1. HalfNow' = HalfNow + 1
      <4>1. HalfNow' = 2 * (inning' - 1) + SideOf(team_hitting')
        BY DEF HalfNow
      <4>2. CASE team_hitting = 0
        BY <2>3, <4>1, <4>2, <1>2, SideFacts DEF HalfNow, Other
      <4>3. CASE team_hitting = 1
        BY <2>3, <4>1, <4>3, <1>2, SideFacts DEF HalfNow, Other
      <4> QED BY <1>2, <4>2, <4>3, SideFacts
    <3> QED BY <2>1, <2>3, <3>1, <1>5
  <2> QED BY <1>1, <2>2, <2>3 DEF CountOuts
<1> QED BY <1>3, <1>6, <1>7, <1>8 DEF FollowsGame, Scored, scored

\* The slot the '*' line names is the only one the new man takes.
LEMMA ChangeFollows ==
  ASSUME IInv, FollowsGame(box), LogChange
  PROVE  /\ FollowsGame(box)' /\ SameStats(box, box') /\ Redecided(box, box')
         /\ \A s \in Side : box'.staff[s] = IF s = SideOf(Fielding) THEN Append(box.staff[s], pitcher')
                                            ELSE box.staff[s]
<1> DEFINE F == Fielding
<1>1. /\ pc = "top" /\ ChangePitcher /\ box' = ReadAll(box, HalfLines \o ChangeLines)
      /\ inning_over' = FALSE /\ UNCHANGED <<inning, team_hitting, runs>>
  BY DEF LogChange, ChangePitcher, Reads, clock
<1>2. PICK i \in Slot, k \in DOMAIN bullpen[F] :
        /\ offense[F][i] = defense[F][Mound]
        /\ Card0' = Substituted(Card0, F, i, k)
        /\ pitcher' = bullpen[F][k] /\ bullpen[F][k] \in Reliever
  BY <1>1, ChangeIsSubstitution
<1>3. /\ SoundCard(Card0) /\ F \in Team /\ team_hitting \in Team /\ Mound \in Slot
  BY <1>1, MoundFacts
<1>4. /\ offense \in [Team -> [Slot -> Player \cup {Nobody}]]
      /\ defense \in [Team -> [Slot -> Player \cup {Nobody}]]
      /\ bullpen \in [Team -> Seq(Pitcher)]
  BY DEF IInv, TypeOK
<1>5. PICK sub : sub = pitcher'
  OBVIOUS
<1>6. sub \in Pitcher
  BY <1>2, <1>3, <1>4, <1>5, ElementOfSeq, LenProperties
<1>7. /\ offense' = [offense EXCEPT ![F][i] = sub]
      /\ defense' = [defense EXCEPT ![F][Mound] = sub]
  BY <1>2, <1>5 DEF Substituted, Card0
<1>8. /\ \A t \in Team, j \in Slot : offense'[t][j] = IF t = F /\ j = i THEN sub ELSE offense[t][j]
      /\ \A t \in Team : defense'[t][Mound] = IF t = F THEN sub ELSE defense[t][Mound]
  BY <1>3, <1>4, <1>7
<1>9. \A j \in Slot : offense[F][j] # sub
  BY <1>2, <1>3, <1>5 DEF SoundCard, Card0
<1>10. (CHOOSE j \in Slot : offense'[F][j] = pitcher') = i
  BY <1>3, <1>5, <1>8, <1>9
<1>11. PICK l : l = [kind |-> "change", id |-> sub, slot |-> i]
  OBVIOUS
<1>12. ChangeLines = <<l>>
  BY <1>5, <1>10, <1>11 DEF ChangeLines
<1>13. <<l>> \in Seq([kind : {"change"}, id : Pitcher, slot : Slot])
  BY <1>6, <1>11
<1>14. PICK b : /\ InPlay(b) /\ b.half_inning = HalfNow /\ b.bat = SideOf(team_hitting)
                /\ \A t \in Team : b.total[SideOf(t)] = runs[t] /\ KnowsMen(b, t)
                /\ ReadAll(box, HalfLines \o <<l>>) = ReadAll(b, <<l>>)
                /\ b.staff = box.staff /\ SameStats(box, b) /\ Redecided(box, b)
  BY <1>1, <1>13, HalfFollows
<1> DEFINE d == SideOf(F)
           c == ReadLine(b, l)
<1>15. box' = c
  <2>1. ReadAll(b, <<l>>) = ReadLine(b, l)
    BY ReadsOne
  <2> QED BY <1>1, <1>12, <1>14, <2>1
<1>16. 1 - b.bat = d /\ d \in Side
  BY <1>3, <1>14, SideFacts DEF Fielding
<1>17. /\ b.staff \in [Side -> Seq(Pitcher)] /\ b.order \in [Side -> [Slot -> Seq(Player)]]
       /\ Sound(b)
  BY <1>14 DEF InPlay, Sound, Box
<1>18. Last(b.order[d][i]) = Last(b.staff[d]) /\ b.staff[d] # <<>>
  BY <1>2, <1>3, <1>14 DEF KnowsMen
<1>19. /\ Sound(c) /\ c.half_inning = b.half_inning /\ c.bat = b.bat /\ c.total = b.total
       /\ \A s \in Side, j \in Slot :
            c.order[s][j] = IF s = d /\ j = i THEN Append(b.order[s][j], sub) ELSE b.order[s][j]
       /\ \A s \in Side : c.staff[s] = IF s = d THEN Append(b.staff[s], sub) ELSE b.staff[s]
       /\ SameStats(b, c) /\ Redecided(b, c)
  <2>1. l.kind = "change" /\ l.slot = i /\ l.id = sub
    BY <1>11
  <2> HIDE DEF c
  <2>2. /\ Sound(c) /\ c.half_inning = b.half_inning /\ c.bat = b.bat /\ c.total = b.total
        /\ c.order = [s \in Side |-> [j \in Slot |->
             IF s = 1 - b.bat /\ j = l.slot THEN Append(b.order[s][j], l.id) ELSE b.order[s][j]]]
        /\ c.staff = [b.staff EXCEPT ![1 - b.bat] = Append(@, l.id)]
        /\ SameStats(b, c) /\ Redecided(b, c)
    BY <2>1, <1>6, <1>16, <1>17, <1>18, ChangeRead DEF c
  <2>3. \A s \in Side : c.staff[s] = IF s = d THEN Append(b.staff[s], sub) ELSE b.staff[s]
    BY <2>1, <2>2, <1>16, <1>17
  <2> QED BY <2>1, <2>2, <2>3, <1>16
<1> HIDE DEF c
<1>20. /\ Append(b.staff[d], sub) # <<>> /\ Last(Append(b.staff[d], sub)) = sub
       /\ Append(b.order[d][i], sub) # <<>> /\ Last(Append(b.order[d][i], sub)) = sub
  <2>1. sub \in Player /\ b.staff[d] \in Seq(Pitcher) /\ b.order[d][i] \in Seq(Player)
    BY <1>6, <1>16, <1>17, PlayerAssumption
  <2> QED BY <1>6, <2>1, ToSetAppend
<1>21. \A t \in Team : KnowsMen(box, t)'
  <2> SUFFICES ASSUME NEW t \in Team
               PROVE  /\ c.staff[SideOf(t)] # <<>> /\ Last(c.staff[SideOf(t)]) = defense'[t][Mound]
                      /\ \A j \in Slot : /\ c.order[SideOf(t)][j] # <<>>
                                         /\ Last(c.order[SideOf(t)][j]) = offense'[t][j]
    BY <1>15 DEF KnowsMen
  <2>1. KnowsMen(b, t)
    BY <1>14
  <2>2. SideOf(t) \in Side /\ (SideOf(t) = d <=> t = F)
    BY <1>3, SideFacts
  <2>3. CASE t = F
    <3>1. c.staff[d] = Append(b.staff[d], sub)
      BY <1>16, <1>17, <1>19
    <3>2. \A j \in Slot : c.order[d][j] = IF j = i THEN Append(b.order[d][j], sub) ELSE b.order[d][j]
      BY <1>16, <1>19
    <3> QED BY <2>1, <2>3, <3>1, <3>2, <1>3, <1>8, <1>20 DEF KnowsMen
  <2>4. CASE t # F
    <3>1. c.staff[SideOf(t)] = b.staff[SideOf(t)]
      BY <2>2, <2>4, <1>16, <1>17, <1>19
    <3>2. \A j \in Slot : c.order[SideOf(t)][j] = b.order[SideOf(t)][j]
      BY <2>2, <2>4, <1>16, <1>19
    <3> QED BY <2>1, <2>4, <3>1, <3>2, <1>8 DEF KnowsMen
  <2> QED BY <2>3, <2>4
<1>22. InPlay(c)
  <2>1. \A s \in Side : c.staff[s] # <<>>
    BY <1>14, <1>16, <1>17, <1>19, <1>20 DEF InPlay
  <2> QED BY <2>1, <1>14, <1>19 DEF InPlay
<1>23. HalfNow' = HalfNow
  BY <1>1 DEF HalfNow
<1>24. \A t \in Team : c.total[SideOf(t)] = runs'[t]
  BY <1>1, <1>14, <1>19
<1>25. FollowsGame(box)'
  BY <1>1, <1>14, <1>15, <1>19, <1>21, <1>22, <1>23, <1>24 DEF FollowsGame
<1>26. SameStats(box, box') /\ Redecided(box, box')
  BY <1>14, <1>15, <1>19, RedecidedMore DEF SameStats
<1> QED BY <1>5, <1>14, <1>15, <1>19, <1>25, <1>26

-----------------------------------------------------------------------------
(***************************************************************************)
(* The inductive invariant of a game and its reader.  A reader that goes   *)
(* on to the next game still knows the men of the last one: the '+' line   *)
(* and the lineups make it fresh, so that between two games it need only   *)
(* be typed.  What was flushed stays sound, since only the end of a game,  *)
(* which is a game somebody has won, replaces it.                          *)
(***************************************************************************)
LogInv ==
  /\ Fresh
  /\ box \in Box
  /\ OnAir => FollowsGame(box)
  /\ played \in Nat
  /\ played > 0 => Sound(read) /\ read.total[0] # read.total[1]
  /\ pc = "over" => read = box /\ played > 0
  /\ credits # <<>> => /\ credits = Log!Credits(read)
                       /\ played > 0 /\ pc \in {"over", "aborted"}

\* A reader that has read nothing is typed.
LEMMA EmptyBoxTyped == Log!EmptyBox \in Box
<1>1. \A p \in Pitcher : 0 \in Nat
  OBVIOUS
<1>2. [s \in Side |-> [i \in Slot |-> <<>>]] \in [Side -> [Slot -> Seq(Player)]]
  OBVIOUS
<1>3. [s \in Side |-> <<>>] \in [Side -> Seq(Nat)] /\ [s \in Side |-> <<>>] \in [Side -> Seq(Pitcher)]
  OBVIOUS
<1>4. Log!Side = Side
  BY DEF Log!Side, Log!HOME, Log!AWAY, Side
<1>5. [p \in Pitcher |-> FALSE] \in [Pitcher -> BOOLEAN]
  OBVIOUS
<1> QED BY <1>2, <1>3, <1>4, <1>5 DEF Box, Log!EmptyBox, Log!AWAY, Side

\* The first reader.
LEMMA LogInvInit == LogInit => LogInv
<1> SUFFICES ASSUME LogInit PROVE LogInv
  OBVIOUS
<1>1. Fresh
  BY DEF LogInit, Init, Fresh
<1>2. pc = "start"
  BY DEF LogInit, Init
<1> QED BY <1>1, <1>2, EmptyBoxTyped DEF LogInit, LogInv, OnAir

\* Every step of the log but NextGame is a step of the game.
LEMMA LogStepIsGameStep ==
  [LogNext]_allVars => [Next]_vars \/ Init'
<1> SUFFICES ASSUME [LogNext]_allVars PROVE [Next]_vars \/ Init'
  OBVIOUS
<1>1. CASE LogStart \/ LogReject \/ LogChange \/ LogKeep \/ LogEnd
  BY <1>1 DEF LogStart, LogReject, LogChange, LogKeep, LogEnd, Next
<1>2. ASSUME NEW type \in ResultType, NEW sentHome \in BOOLEAN, NEW extraBase \in BOOLEAN,
             LogPlay(type, sentHome, extraBase) \/ LogAbort(type, sentHome, extraBase)
      PROVE  Next
  BY <1>2 DEF LogPlay, LogAbort, Next
<1>3. CASE NextGame
  BY <1>3 DEF NextGame, Init
<1>4. CASE EndOfInput
  BY <1>4 DEF EndOfInput
<1>5. CASE UNCHANGED allVars
  BY <1>5 DEF allVars
<1> QED BY <1>1, <1>2, <1>3, <1>4, <1>5 DEF LogNext

\* The game of the log is a game.
LEMMA GameOfLog == LogSpec => []IInv
<1>1. LogInit => IInv
  BY InitIInv DEF LogInit
<1>2. Init => IInv
  BY InitIInv
<1>3. IInv /\ [Next]_vars => IInv'
  BY NextIInv
<1>4. [LogNext]_allVars => [Next]_vars \/ Init'
  BY LogStepIsGameStep
<1> QED BY <1>1, <1>2, <1>3, <1>4, PTL DEF LogSpec

\* A game begins fresh, and a half is under way when a batter is up.
LEMMA FreshNext ==
  ASSUME Fresh, [LogNext]_allVars PROVE Fresh'
<1>1. CASE LogStart
  BY <1>1 DEF LogStart, StartGame, Fresh
<1>2. CASE LogReject
  BY <1>2 DEF LogReject, RejectLineups, Fresh
<1>3. CASE LogChange
  BY <1>3 DEF LogChange, ChangePitcher, Fresh
<1>4. CASE LogKeep
  BY <1>4 DEF LogKeep, KeepPitcher, Fresh
<1>5. ASSUME NEW type \in ResultType, NEW sentHome \in BOOLEAN, NEW extraBase \in BOOLEAN,
             LogPlay(type, sentHome, extraBase) \/ LogAbort(type, sentHome, extraBase)
      PROVE  Fresh'
  <2>1. pc' = "top" \/ pc' = "aborted"
    BY <1>5 DEF LogPlay, LogAbort, PlateAppearance, AbortGame
  <2> QED BY <2>1 DEF Fresh
<1>6. CASE LogEnd
  BY <1>6 DEF LogEnd, EndGame, Fresh
<1>7. CASE NextGame
  BY <1>7 DEF NextGame, Fresh
<1>8. CASE EndOfInput
  BY <1>8 DEF EndOfInput, Fresh, vars, clock, cards, skills
<1>9. CASE UNCHANGED allVars
  BY <1>9 DEF allVars, Fresh, vars, clock, cards, skills
<1> QED BY <1>1, <1>2, <1>3, <1>4, <1>5, <1>6, <1>7, <1>8, <1>9 DEF LogNext

\* A reader that follows the game keeps to what was flushed, while the game
\* goes on.
LEMMA GoesOn ==
  ASSUME LogInv, Fresh', FollowsGame(box)', pc \in {"start", "top", "bat"}, pc' \in {"top", "bat"},
         UNCHANGED <<read, played, credits>>
  PROVE  LogInv'
<1>1. (box \in Box)'
  BY DEF FollowsGame, InPlay, Sound
<1>2. credits = <<>>
  BY DEF LogInv
<1> QED BY <1>1, <1>2 DEF LogInv, Sound, RecordFollows

\* The game that ends is one that a team has won.
LEMMA EndInv ==
  ASSUME IInv, LogInv, Fresh', LogEnd
  PROVE  LogInv'
<1>1. /\ pc = "top" /\ pc' = "over" /\ IsGameOver /\ read' = box /\ box' = box
      /\ played' = played + 1 /\ UNCHANGED <<inning, team_hitting, inning_over, runs, offense, defense, credits>>
  BY DEF LogEnd, EndGame, clock, cards
<1>2. FollowsGame(box)
  BY <1>1 DEF LogInv, OnAir
<1>3. FollowsGame(box)'
  BY <1>1, <1>2 DEF FollowsGame, KnowsMen, HalfNow
<1>4. Sound(box) /\ box.total[0] # box.total[1]
  <2>1. runs[HOME_TEAM] # runs[AWAY_TEAM] /\ runs \in [Team -> Nat]
    BY <1>1 DEF IsGameOver, IInv, TypeOK, Team
  <2>2. box.total[1] = runs[HOME_TEAM] /\ box.total[0] = runs[AWAY_TEAM]
    BY <1>2, SideFacts DEF FollowsGame
  <2> QED BY <1>2, <2>1, <2>2 DEF FollowsGame, InPlay
<1>5. (Sound(read))' /\ (read.total[0] # read.total[1])'
  BY <1>1, <1>4 DEF Sound, RecordFollows
<1>6. credits = <<>> /\ played \in Nat /\ box \in Box
  BY <1>1 DEF LogInv
<1> QED BY <1>1, <1>3, <1>5, <1>6 DEF LogInv

\* Every step keeps the invariant.
LEMMA LogInvNext ==
  ASSUME IInv, LogInv, [LogNext]_allVars PROVE LogInv'
<1>0. Fresh'
  BY FreshNext DEF LogInv
<1>1. CASE LogStart
  <2>1. FollowsGame(box)'
    BY <1>1, StartFollows DEF LogInv
  <2>2. pc = "start" /\ pc' = "top" /\ UNCHANGED <<read, played, credits>>
    BY <1>1 DEF LogStart, StartGame, Reads
  <2> QED BY <1>0, <2>1, <2>2, GoesOn
<1>2. CASE LogReject
  <2>1. pc = "start" /\ pc' = "aborted" /\ UNCHANGED logVars
    BY <1>2 DEF LogReject, RejectLineups
  <2> QED BY <1>0, <2>1 DEF LogInv, OnAir, logVars, Sound, RecordFollows
<1>3. CASE LogChange
  <2>1. pc = "top" /\ pc' = "bat" /\ UNCHANGED <<read, played, credits>>
    BY <1>3 DEF LogChange, ChangePitcher, Reads
  <2>2. FollowsGame(box)'
    BY <1>3, <2>1, ChangeFollows DEF LogInv, OnAir
  <2> QED BY <1>0, <2>1, <2>2, GoesOn
<1>4. CASE LogKeep
  <2>1. pc = "top" /\ pc' = "bat" /\ UNCHANGED <<read, played, credits>>
    BY <1>4 DEF LogKeep, KeepPitcher, Reads
  <2>2. FollowsGame(box)'
    BY <1>4, <2>1, KeepFollows DEF LogInv, OnAir
  <2> QED BY <1>0, <2>1, <2>2, GoesOn
<1>5. ASSUME NEW type \in ResultType, NEW sentHome \in BOOLEAN, NEW extraBase \in BOOLEAN,
             LogPlay(type, sentHome, extraBase)
      PROVE  LogInv'
  <2>1. pc = "bat" /\ pc' = "top" /\ UNCHANGED <<read, played, credits>>
    BY <1>5 DEF LogPlay, PlateAppearance, Reads
  <2>2. FollowsGame(box)'
    BY <1>5, <2>1, PlayFollows DEF LogInv, OnAir
  <2> QED BY <1>0, <2>1, <2>2, GoesOn
<1>6. ASSUME NEW type \in ResultType, NEW sentHome \in BOOLEAN, NEW extraBase \in BOOLEAN,
             LogAbort(type, sentHome, extraBase)
      PROVE  LogInv'
  <2>1. pc = "bat" /\ pc' = "aborted" /\ UNCHANGED logVars
    BY <1>6 DEF LogAbort, AbortGame
  <2> QED BY <1>0, <2>1 DEF LogInv, OnAir, logVars, Sound, RecordFollows
<1>7. CASE LogEnd
  BY <1>0, <1>7, EndInv
<1>8. CASE NextGame
  <2>1. pc = "over" /\ pc' = "start" /\ credits = <<>> /\ UNCHANGED logVars
    BY <1>8 DEF NextGame, logVars
  <2> QED BY <1>0, <2>1 DEF LogInv, OnAir, logVars, Sound, RecordFollows
<1>9. CASE EndOfInput
  <2>1. /\ pc \in {"over", "aborted"} /\ played > 0 /\ credits' = Log!Credits(read)
        /\ UNCHANGED <<vars, box, read, played>>
    BY <1>9 DEF EndOfInput
  <2>2. (OnAir => FollowsGame(box))'
    <3>1. UNCHANGED <<pc, inning, team_hitting, inning_over, runs, offense, defense, box>>
      BY <2>1 DEF vars, clock, cards
    <3> QED BY <3>1 DEF LogInv, OnAir, FollowsGame, InPlay, Sound, RecordFollows, KnowsMen, HalfNow
  <2>3. (credits = Log!Credits(read))'
    BY <2>1 DEF Log!Credits, Log!Winner, Log!Victor, Log!Saved
  <2>4. UNCHANGED <<pc, box, read, played>>
    BY <2>1 DEF vars
  <2> QED BY <1>0, <2>1, <2>2, <2>3, <2>4 DEF LogInv, Sound, RecordFollows
<1>10. CASE UNCHANGED allVars
  <2>1. /\ UNCHANGED <<pc, inning, team_hitting, inning_over, runs, offense, defense>>
        /\ UNCHANGED <<box, read, played, credits>>
    BY <1>10 DEF allVars, vars, clock, cards, logVars
  <2>2. (OnAir => FollowsGame(box))'
    BY <2>1 DEF LogInv, OnAir, FollowsGame, InPlay, Sound, RecordFollows, KnowsMen, HalfNow
  <2>3. (credits # <<>> => credits = Log!Credits(read))'
    BY <2>1 DEF LogInv, Log!Credits, Log!Winner, Log!Victor, Log!Saved
  <2> QED BY <1>0, <2>1, <2>2, <2>3 DEF LogInv, Sound, RecordFollows
<1> QED BY <1>1, <1>2, <1>3, <1>4, <1>5, <1>6, <1>7, <1>8, <1>9, <1>10 DEF LogNext

\* The invariant of the game and its reader.
LEMMA LogInvariance == LogSpec => []LogInv
<1>1. LogInit => LogInv
  BY LogInvInit
<1>2. IInv /\ LogInv /\ [LogNext]_allVars => LogInv'
  BY LogInvNext
<1> QED BY <1>1, <1>2, GameOfLog, PTL DEF LogSpec

-----------------------------------------------------------------------------
(***************************************************************************)
(* The theorems.                                                           *)
(***************************************************************************)

\* The reader's score is the game's score, and its line score adds up to it,
\* after every line of every game, however many games the reader sees.
THEOREM ScoreAlwaysMatches == LogSpec => []ScoreMatches
<1>1. LogInv => ScoreMatches
  <2> SUFFICES ASSUME LogInv, OnAir, NEW t \in Team
               PROVE  box.total[SideOf(t)] = runs[t] /\ SumOf(box.score[SideOf(t)]) = runs[t]
    BY DEF ScoreMatches
  <2>1. FollowsGame(box) /\ SideOf(t) \in Side
    BY SideFacts DEF LogInv
  <2> QED BY <2>1 DEF FollowsGame, InPlay, Sound
<1> QED BY <1>1, LogInvariance, PTL

\* The reader, which no line tells whose turn it is, knows the inning, the
\* side at bat, the man on the mound and the man in every slot.
THEOREM ReaderFollowsGame == LogSpec => []BoxFollowsGame
<1>1. IInv /\ LogInv => BoxFollowsGame
  <2> SUFFICES ASSUME IInv, LogInv PROVE BoxFollowsGame
    OBVIOUS
  <2>1. OnAir => \A t \in Team, i \in Slot : Last(box.order[SideOf(t)][i]) = offense[t][i]
    BY DEF LogInv, FollowsGame, KnowsMen
  <2>2. ASSUME pc = "bat"
        PROVE  /\ box.bat = SideOf(team_hitting) /\ Log!Inning(box) = inning
               /\ Last(box.staff[SideOf(Fielding)]) = pitcher
    <3>1. FollowsGame(box) /\ ~inning_over
      BY <2>2 DEF LogInv, OnAir, Fresh
    <3>2. Sound(box) /\ box.half_inning = HalfNow
      BY <3>1 DEF FollowsGame, InPlay
    <3>3. box.bat = SideOf(team_hitting)
      BY <3>2, HalfNowFacts DEF Sound
    <3>4. Log!Inning(box) = inning
      <4>1. inning \in Nat \ {0} /\ (SideOf(team_hitting) = 0 \/ SideOf(team_hitting) = 1)
        BY DEF IInv, TypeOK, SideOf, Log!HOME, Log!AWAY
      <4>2. \A n \in Nat : (2 * n + 0) \div 2 = n /\ (2 * n + 1) \div 2 = n
        OBVIOUS
      <4>3. inning - 1 \in Nat
        BY <4>1
      <4>4. HalfNow \div 2 = inning - 1
        BY <4>1, <4>2, <4>3 DEF HalfNow
      <4> QED BY <4>1, <4>4, <3>2 DEF Log!Inning
    <3>5. pitcher = defense[Fielding][Mound] /\ Fielding \in Team
      BY <2>2, MoundFacts DEF IInv, MoundKept, HalfGoesOn
    <3> QED BY <3>1, <3>3, <3>4, <3>5 DEF FollowsGame, KnowsMen
  <2> QED BY <2>1, <2>2 DEF BoxFollowsGame
<1> QED BY <1>1, GameOfLog, LogInvariance, PTL

\* What the reader saves is the result of the last game it was sent, which
\* was not a tie, and its losing pitcher is a pitcher.
THEOREM ResultIsRecorded == LogSpec => []ResultRecorded
<1>1. LogInv => ResultRecorded
  <2> SUFFICES ASSUME LogInv, credits # <<>>
               PROVE  \E t \in Team :
                 /\ credits.wins = [s \in Log!Side |-> IF s = SideOf(t) THEN 1 ELSE 0]
                 /\ credits.loses = [s \in Log!Side |-> IF s = SideOf(t) THEN 0 ELSE 1]
                 /\ read.total[SideOf(t)] > read.total[SideOf(Other(t))]
                 /\ pc = "over" => runs[t] > runs[Other(t)]
                 /\ read.loser \in Pitcher
    BY DEF ResultRecorded
  <2>1. /\ credits = Log!Credits(read) /\ Sound(read) /\ read.total[0] # read.total[1]
        /\ pc = "over" => read = box /\ FollowsGame(box)
    BY DEF LogInv, OnAir
  <2>2. read.total \in [Side -> Nat]
    BY <2>1 DEF Sound, Box
  <2>3. PICK t \in Team : SideOf(t) = Log!Victor(read)
    BY SideFacts DEF Log!Victor, Log!HOME, Log!AWAY, Side
  <2>4. read.total[SideOf(t)] > read.total[1 - SideOf(t)] /\ SideOf(Other(t)) = 1 - SideOf(t)
    BY <2>1, <2>2, <2>3, SideFacts DEF Log!Victor, Log!HOME, Log!AWAY, Side
  <2>5. pc = "over" => runs[t] > runs[Other(t)]
    BY <2>1, <2>4, SideFacts DEF FollowsGame
  <2>6. read.loser \in Pitcher
    BY <2>1 DEF Sound, Box, RecordFollows
  <2>7. credits.wins = [s \in Log!Side |-> IF s = SideOf(t) THEN 1 ELSE 0]
    BY <2>1, <2>3 DEF Log!Credits
  <2>8. credits.loses = [s \in Log!Side |-> IF s = SideOf(t) THEN 0 ELSE 1]
    <3>1. credits.loses = [s \in Log!Side |-> IF s = 1 - SideOf(t) THEN 1 ELSE 0]
      BY <2>1, <2>3 DEF Log!Credits, Log!Opponent
    <3>2. \A s \in Log!Side : s = 1 - SideOf(t) <=> s # SideOf(t)
      BY DEF Log!Side, Log!HOME, Log!AWAY, SideOf
    <3> QED BY <3>1, <3>2
  <2> QED BY <2>4, <2>5, <2>6, <2>7, <2>8
<1> QED BY <1>1, LogInvariance, PTL

-----------------------------------------------------------------------------
(***************************************************************************)
(* What the men of a team are credited with.                               *)
(***************************************************************************)
Stats == [Pitcher -> Nat]

\* Nobody has lost anything.
Grown(then, now) ==
  /\ then \in Stats /\ now \in Stats
  /\ \A p \in Pitcher : then[p] <= now[p]

\* The counts of a list of men are numbers.
LEMMA SinceSeq ==
  ASSUME NEW then, NEW now, Grown(then, now), NEW men \in Seq(Pitcher)
  PROVE  /\ Since(then, now, men) \in Seq(Nat) /\ Len(Since(then, now, men)) = Len(men)
         /\ \A k \in 1 .. Len(men) : Since(then, now, men)[k] = now[men[k]] - then[men[k]]
<1> DEFINE n == Len(men)
           one == [k \in 1 .. n |-> now[men[k]] - then[men[k]]]
<1>1. n \in Nat /\ \A k \in 1 .. n : men[k] \in Pitcher
  OBVIOUS
<1>2. \A k \in 1 .. n : now[men[k]] - then[men[k]] \in Nat
  BY <1>1 DEF Grown, Stats
<1>3. one \in [1 .. n -> Nat] /\ Since(then, now, men) = one
  BY <1>2 DEF Since
<1>4. \A k \in 1 .. n : one[k] = now[men[k]] - then[men[k]]
  OBVIOUS
<1> HIDE DEF one
<1>5. one \in Seq(Nat) /\ Len(one) = n
  <2> HIDE DEF n
  <2>1. DOMAIN one = 1 .. n
    BY <1>3
  <2> QED BY <1>1, <1>3, <2>1, SeqDef
<1> QED BY <1>3, <1>4, <1>5

\* The man is the last of the list, and nowhere else on it.
LastOnly(men, p) ==
  men # <<>> /\ men[Len(men)] = p /\ \A k \in 1 .. Len(men) - 1 : men[k] # p

\* What the last of the men gets, the men get.
LEMMA LastCredited ==
  ASSUME NEW then, NEW now, Grown(then, now), NEW men \in Seq(Pitcher),
         NEW p \in Pitcher, LastOnly(men, p),
         NEW d \in Nat, NEW later, later = [now EXCEPT ![p] = now[p] + d]
  PROVE  /\ SumOf(Since(then, later, men)) = SumOf(Since(then, now, men)) + d
         /\ Grown(then, later)
<1> DEFINE n == Len(men)
           one == Since(then, now, men)
           more == [one EXCEPT ![n] = one[n] + d]
<1>1. /\ n \in 1 .. n /\ n \in Nat /\ \A k \in 1 .. n : men[k] \in Pitcher
      /\ men[n] = p /\ \A k \in 1 .. n - 1 : men[k] # p
  BY DEF LastOnly
<1>2. then \in [Pitcher -> Nat] /\ now \in [Pitcher -> Nat] /\ \A q \in Pitcher : then[q] <= now[q]
  BY DEF Grown, Stats
<1>3. later \in [Pitcher -> Nat] /\ \A q \in Pitcher : later[q] = IF q = p THEN now[q] + d ELSE now[q]
  BY <1>2
<1>4. Grown(then, later)
  BY <1>2, <1>3 DEF Grown, Stats
<1>5. /\ one \in Seq(Nat) /\ Len(one) = n
      /\ \A k \in 1 .. n : one[k] = now[men[k]] - then[men[k]]
  BY SinceSeq
<1>6. /\ Since(then, later, men) \in Seq(Nat) /\ Len(Since(then, later, men)) = n
      /\ \A k \in 1 .. n : Since(then, later, men)[k] = later[men[k]] - then[men[k]]
  <2>1. \A f : Grown(then, f) =>
          /\ Since(then, f, men) \in Seq(Nat) /\ Len(Since(then, f, men)) = n
          /\ \A k \in 1 .. n : Since(then, f, men)[k] = f[men[k]] - then[men[k]]
    BY SinceSeq
  <2> QED BY <1>4, <2>1
<1> HIDE DEF one
<1>7. more \in Seq(Nat) /\ Len(more) = n /\ SumOf(more) = SumOf(one) + d
  BY <1>1, <1>5, MoreAt
<1>8. \A k \in 1 .. n : more[k] = Since(then, later, men)[k]
  <2> SUFFICES ASSUME NEW k \in 1 .. n PROVE more[k] = Since(then, later, men)[k]
    OBVIOUS
  <2>1. more[k] = IF k = n THEN one[n] + d ELSE one[k]
    BY <1>5
  <2>2. men[k] = p <=> k = n
    BY <1>1
  <2>3. now[men[k]] \in Nat /\ then[men[k]] \in Nat
    BY <1>1, <1>2
  <2>4. later[men[k]] = IF k = n THEN now[men[k]] + d ELSE now[men[k]]
    <3>1. men[k] \in Pitcher
      BY <1>1
    <3> HIDE DEF n
    <3> QED BY <1>3, <2>2, <3>1
  <2>5. one[k] = now[men[k]] - then[men[k]]
    BY <1>5
  <2>6. Since(then, later, men)[k] = later[men[k]] - then[men[k]]
    BY <1>6
  <2> HIDE DEF more, n
  <2> QED BY <2>1, <2>3, <2>4, <2>5, <2>6
<1> DEFINE two == Since(then, later, men)
<1>9. more = two
  <2>1. two \in Seq(Nat) /\ Len(two) = n /\ \A k \in 1 .. n : more[k] = two[k]
    BY <1>6, <1>8
  <2> HIDE DEF more, two, n
  <2> QED BY <1>7, <2>1
<1> QED BY <1>4, <1>7, <1>9 DEF one

\* What somebody else gets, they do not.
LEMMA OthersCredited ==
  ASSUME NEW then, NEW now, Grown(then, now), NEW men \in Seq(Pitcher),
         NEW p \in Pitcher, \A k \in 1 .. Len(men) : men[k] # p,
         NEW d \in Nat, NEW later, later = [now EXCEPT ![p] = now[p] + d]
  PROVE  SumOf(Since(then, later, men)) = SumOf(Since(then, now, men))
<1>1. now \in [Pitcher -> Nat] /\ \A k \in 1 .. Len(men) : men[k] \in Pitcher
  BY DEF Grown, Stats
<1>2. \A k \in 1 .. Len(men) : later[men[k]] = now[men[k]]
  BY <1>1
<1>3. Since(then, later, men) = Since(then, now, men)
  BY <1>2 DEF Since
<1> QED BY <1>3

\* A new man brings nothing along.
LEMMA NewManCredited ==
  ASSUME NEW then, NEW now, Grown(then, now), NEW men \in Seq(Pitcher),
         NEW p \in Pitcher, now[p] = then[p]
  PROVE  SumOf(Since(then, now, Append(men, p))) = SumOf(Since(then, now, men))
<1> DEFINE n == Len(men)
           one == Since(then, now, men)
           more == Append(men, p)
<1>1. /\ more \in Seq(Pitcher) /\ Len(more) = n + 1 /\ n \in Nat /\ more[n + 1] = p
      /\ \A k \in 1 .. n : more[k] = men[k]
  OBVIOUS
<1>2. /\ one \in Seq(Nat) /\ Len(one) = n
      /\ \A k \in 1 .. n : one[k] = now[men[k]] - then[men[k]]
  BY SinceSeq
<1> HIDE DEF more
<1>3. /\ Since(then, now, more) \in Seq(Nat) /\ Len(Since(then, now, more)) = n + 1
      /\ \A k \in 1 .. n + 1 : Since(then, now, more)[k] = now[more[k]] - then[more[k]]
  BY <1>1, SinceSeq
<1> DEFINE two == Since(then, now, more)
           three == Append(one, 0)
<1>4. two[n + 1] = 0
  <2>1. now[p] \in Nat
    BY DEF Grown, Stats
  <2>2. two[n + 1] = now[p] - then[p]
    BY <1>1, <1>3
  <2> HIDE DEF two
  <2> QED BY <2>1, <2>2
<1>5. \A k \in 1 .. n : two[k] = one[k]
  <2> SUFFICES ASSUME NEW k \in 1 .. n PROVE two[k] = one[k]
    OBVIOUS
  <2>1. k \in 1 .. n + 1
    BY <1>1
  <2>2. two[k] = now[more[k]] - then[more[k]]
    BY <1>3, <2>1
  <2>3. one[k] = now[men[k]] - then[men[k]]
    BY <1>2
  <2>4. more[k] = men[k]
    BY <1>1
  <2> HIDE DEF one, two
  <2> QED BY <2>2, <2>3, <2>4
<1> HIDE DEF one, two
<1>6. three \in Seq(Nat) /\ Len(three) = n + 1 /\ three[n + 1] = 0 /\ \A k \in 1 .. n : three[k] = one[k]
  BY <1>2
<1>7. two = three
  <2>1. \A k \in 1 .. n + 1 : two[k] = three[k]
    BY <1>1, <1>4, <1>5, <1>6
  <2>2. two \in Seq(Nat) /\ Len(two) = n + 1
    BY <1>3 DEF two
  <2> HIDE DEF three, n
  <2> QED BY <1>6, <2>1, <2>2
<1>8. SumOf(three) = SumOf(one)
  BY <1>2, NewInning
<1> QED BY <1>7, <1>8 DEF one, two, more

\* A staff that has just come brings nothing along.
LEMMA StarterCredited ==
  ASSUME NEW then, Grown(then, then), NEW p \in Pitcher
  PROVE  SumOf(Since(then, then, <<p>>)) = 0
<1> DEFINE none == <<>>
<1>1. none \in Seq(Pitcher) /\ Append(none, p) = <<p>> /\ Len(none) = 0
  OBVIOUS
<1>2. Since(then, then, none) = <<>>
  BY <1>1 DEF Since
<1> HIDE DEF none
<1>3. SumOf(Since(then, then, Append(none, p))) = SumOf(Since(then, then, none))
  BY <1>1, NewManCredited
<1> QED BY <1>1, <1>2, <1>3, NoRuns

-----------------------------------------------------------------------------
\* The men of a staff who were not on it before.
Newcomers(before, staff) == SubSeq(staff, Len(before) + 1, Len(staff))

\* They are the rest of the list.
LEMMA NewcomersAre ==
  ASSUME NEW before \in Seq(Pitcher), NEW staff \in Seq(Pitcher), Len(before) <= Len(staff)
  PROVE  /\ Newcomers(before, staff) \in Seq(Pitcher)
         /\ Len(Newcomers(before, staff)) = Len(staff) - Len(before)
         /\ \A k \in 1 .. Len(staff) - Len(before) :
              Newcomers(before, staff)[k] = staff[Len(before) + k]
<1>1. Len(before) \in Nat /\ Len(staff) \in Nat /\ \A k \in 1 .. Len(staff) : staff[k] \in Pitcher
  OBVIOUS
<1> DEFINE m == Len(before)
           n == Len(staff)
           men == SubSeq(staff, m + 1, n)
<1>2. men = [k \in 1 .. n - m |-> staff[m + k]]
  <2>1. men = [k \in 1 .. (n - (m + 1) + 1) |-> staff[k + (m + 1) - 1]]
    BY <1>1
  <2>2. n - (m + 1) + 1 = n - m /\ \A k \in Int : k + (m + 1) - 1 = m + k
    BY <1>1
  <2> QED BY <1>1, <2>1, <2>2
<1>3. \A k \in 1 .. n - m : staff[m + k] \in Pitcher
  BY <1>1
<1> HIDE DEF men
<1>4. men \in [1 .. n - m -> Pitcher] /\ n - m \in Nat /\ DOMAIN men = 1 .. n - m
  BY <1>1, <1>2, <1>3
<1>5. men \in Seq(Pitcher) /\ Len(men) = n - m
  <2> HIDE DEF m, n
  <2> QED BY <1>4, SeqDef
<1> QED BY <1>2, <1>5 DEF Newcomers, men

\* One more man on the staff is one more of them.
LEMMA OneNewcomer ==
  ASSUME NEW before \in Seq(Pitcher), NEW staff \in Seq(Pitcher), Len(before) <= Len(staff),
         NEW p \in Pitcher
  PROVE  Newcomers(before, Append(staff, p)) = Append(Newcomers(before, staff), p)
<1> DEFINE m == Len(before)
           n == Len(staff)
           more == Append(staff, p)
           men == Newcomers(before, staff)
           two == Newcomers(before, more)
           three == Append(men, p)
<1>1. /\ more \in Seq(Pitcher) /\ Len(more) = n + 1 /\ m \in Nat /\ n \in Nat /\ m <= n
      /\ (\A k \in 1 .. n : more[k] = staff[k]) /\ more[n + 1] = p
  OBVIOUS
<1>2. men \in Seq(Pitcher) /\ Len(men) = n - m /\ \A k \in 1 .. n - m : men[k] = staff[m + k]
  BY NewcomersAre
<1> HIDE DEF men, more
<1>3. two \in Seq(Pitcher) /\ Len(two) = n + 1 - m /\ \A k \in 1 .. n + 1 - m : two[k] = more[m + k]
  <2>1. Len(before) <= Len(more)
    BY <1>1
  <2>2. /\ two \in Seq(Pitcher) /\ Len(two) = Len(more) - m
        /\ \A k \in 1 .. Len(more) - m : two[k] = more[m + k]
    BY <1>1, <2>1, NewcomersAre
  <2> HIDE DEF two, m, n
  <2> QED BY <1>1, <2>2
<1>4. /\ three \in Seq(Pitcher) /\ Len(three) = n - m + 1 /\ three[n - m + 1] = p
      /\ \A k \in 1 .. n - m : three[k] = men[k]
  BY <1>1, <1>2
<1> HIDE DEF two, three, m, n
<1>5. \A k \in 1 .. n + 1 - m : two[k] = three[k]
  <2> SUFFICES ASSUME NEW k \in 1 .. n + 1 - m PROVE two[k] = three[k]
    OBVIOUS
  <2>1. CASE k = n - m + 1
    <3>1. m + k = n + 1
      BY <1>1, <2>1
    <3> QED BY <1>1, <1>3, <1>4, <2>1, <3>1
  <2>2. CASE k # n - m + 1
    <3>1. k \in 1 .. n - m /\ m + k \in 1 .. n
      BY <1>1, <2>2
    <3> QED BY <1>1, <1>2, <1>3, <1>4, <3>1
  <2> QED BY <2>1, <2>2
<1>6. Len(two) = Len(three)
  BY <1>1, <1>3, <1>4
<1>7. two = three
  BY <1>3, <1>4, <1>5, <1>6
<1> QED BY <1>7 DEF two, three, men, more

\* A man who joins the staff as it was is the only one.
LEMMA FirstNewcomer ==
  ASSUME NEW before \in Seq(Pitcher), NEW p \in Pitcher
  PROVE  Newcomers(before, Append(before, p)) = <<p>>
<1> DEFINE none == Newcomers(before, before)
<1>1. Len(before) <= Len(before) /\ Len(before) - Len(before) = 0
  OBVIOUS
<1>2. none \in Seq(Pitcher) /\ Len(none) = 0
  BY <1>1, NewcomersAre
<1> HIDE DEF none
<1>3. none = <<>>
  BY <1>2
<1>4. Newcomers(before, Append(before, p)) = Append(none, p)
  BY <1>1, OneNewcomer DEF none
<1> QED BY <1>3, <1>4

-----------------------------------------------------------------------------
(***************************************************************************)
(* The staffs of a game.  Whoever has pitched for a team in this game is   *)
(* recorded, but for the last, who is on the mound: so nobody is twice on  *)
(* the list of a team or on both, and nobody else has been credited with   *)
(* anything.  At the start of a game the reader is what it was when the    *)
(* last game was flushed.                                                  *)
(***************************************************************************)
OnMound == {defense[t][Mound] : t \in Team}

\* A man who has not pitched in this game has what he had before.
OnlyPitchersCredited ==
  \A p \in Pitcher \ (Recorded \cup OnMound) :
    read.outs[p] = box.outs[p] /\ read.charged[p] = box.charged[p]

\* The last man of a list is on the mound, the others are recorded.
TakesTurns(men, mound) ==
  /\ men \in Seq(Pitcher) /\ men # <<>> /\ men[Len(men)] = mound
  /\ \A k \in 1 .. Len(men) - 1 : men[k] \in Recorded

\* The outs made against a team, and what its men are credited with.
OutsAgainst(t) == HalvesAgainst(t) * OutsPerHalf + (IF team_hitting = t THEN 0 ELSE outs)
Credited(t) ==
  /\ SumOf(Since(read.outs, box.outs, PitchedFor(t))) = OutsAgainst(t)
  /\ SumOf(Since(read.charged, box.charged, PitchedFor(t))) = runs[Other(t)]

\* The pitchers of record when t leads have pitched in this game.
Decided(t) ==
  runs[t] > runs[Other(t)] =>
    /\ box.loser \in ToSet(PitchedFor(Other(t)))
    /\ box.winner \in ToSet(PitchedFor(t)) \cup {Nobody}

StaffInv ==
  /\ read \in Box
  /\ pc = "start" => read = box /\ outs = 0
  /\ pc \in {"top", "bat"} =>
       /\ Grown(read.outs, box.outs) /\ Grown(read.charged, box.charged)
       /\ OnlyPitchersCredited
       /\ \A t \in Team : /\ Len(read.staff[SideOf(t)]) < Len(box.staff[SideOf(t)])
                          /\ TakesTurns(PitchedFor(t), defense[t][Mound])
                          /\ Credited(t)
                          /\ Decided(t)

\* The staffs of a reader are lists.
LEMMA StaffTyped ==
  ASSUME NEW b \in Box, NEW t \in Team
  PROVE  /\ SideOf(t) \in Side /\ b.staff[SideOf(t)] \in Seq(Pitcher)
         /\ Len(b.staff[SideOf(t)]) \in Nat
         /\ b.outs \in Stats /\ b.charged \in Stats
<1>1. SideOf(t) \in Side
  BY SideFacts
<1>2. b.staff \in [Side -> Seq(Pitcher)] /\ b.outs \in Stats /\ b.charged \in Stats
  BY DEF Box, Stats
<1> QED BY <1>1, <1>2

\* The men of a game are those who are new on the staff.
LEMMA PitchedForIs ==
  ASSUME NEW t PROVE PitchedFor(t) = Newcomers(read.staff[SideOf(t)], box.staff[SideOf(t)])
BY DEF PitchedFor, Newcomers

\* When a decision falls, it falls on the men on the mounds, and these have
\* pitched in this game; later it stands as long as the lead.
LEMMA DecidedOn ==
  ASSUME LogInv, StaffInv, pc \in {"top", "bat"}, FollowsGame(box)', Redecided(box, box'),
         \A t \in Team : ToSet(PitchedFor(t)) \subseteq ToSet(PitchedFor(t)')
  PROVE  \A t \in Team : Decided(t)'
<1> SUFFICES ASSUME NEW t \in Team, runs'[t] > runs'[Other(t)]
             PROVE  /\ box'.loser \in ToSet(PitchedFor(Other(t))')
                    /\ box'.winner \in ToSet(PitchedFor(t)') \cup {Nobody}
  BY DEF Decided
<1> DEFINE s == SideOf(t)
<1>1. s \in Side /\ SideOf(Other(t)) = 1 - s /\ Other(t) \in Team
  BY SideFacts
<1>2. \A u \in Team : Last(box.staff[SideOf(u)]) \in ToSet(PitchedFor(u))
  <2> SUFFICES ASSUME NEW u \in Team PROVE Last(box.staff[SideOf(u)]) \in ToSet(PitchedFor(u))
    OBVIOUS
  <2>1. Last(box.staff[SideOf(u)]) = defense[u][Mound]
    BY DEF LogInv, OnAir, FollowsGame, KnowsMen
  <2>2. TakesTurns(PitchedFor(u), defense[u][Mound])
    BY DEF StaffInv
  <2> DEFINE men == PitchedFor(u)
  <2> HIDE DEF men
  <2>3. men \in Seq(Pitcher) /\ men # <<>> /\ men[Len(men)] = defense[u][Mound]
    BY <2>2 DEF TakesTurns, men
  <2>4. Len(men) \in 1 .. Len(men) /\ DOMAIN men = 1 .. Len(men)
    BY <2>3
  <2> QED BY <2>1, <2>3, <2>4 DEF ToSet, men
<1>3. /\ box'.total[s] = runs'[t] /\ box'.total[1 - s] = runs'[Other(t)]
      /\ box.total[s] = runs[t] /\ box.total[1 - s] = runs[Other(t)]
  <2>1. \A u \in Team : box'.total[SideOf(u)] = runs'[u]
    BY DEF FollowsGame, SideOf
  <2>2. \A u \in Team : box.total[SideOf(u)] = runs[u]
    BY DEF LogInv, OnAir, FollowsGame
  <2> QED BY <1>1, <2>1, <2>2
<1>4. /\ \/ box'.loser = Last(box.staff[1 - s])
         \/ runs[t] > runs[Other(t)] /\ box'.loser = box.loser
      /\ \/ box'.winner \in {Nobody, Last(box.staff[s])}
         \/ runs[t] > runs[Other(t)] /\ box'.winner = box.winner
  BY <1>1, <1>3 DEF Redecided
<1>5. Decided(t)
  BY DEF StaffInv
<1> QED BY <1>1, <1>2, <1>4, <1>5 DEF Decided

\* The starters come in with nothing.
LEMMA StaffStart ==
  ASSUME IInv, ListInv, LogInv, StaffInv, LogStart
  PROVE  StaffInv'
<1>1. /\ pc = "start" /\ pc' = "top" /\ read = box /\ outs = 0 /\ box \in Box /\ Fresh
      /\ UNCHANGED <<inning, team_hitting, outs, runs, defense, tired_pitchers, read>>
      /\ Complete(Card0)
  BY DEF LogStart, StartGame, Reads, clock, cards, StaffInv, LogInv
<1>2. /\ JoinsStaff(box, box') /\ SameStats(box, box')
  BY <1>1, StartFollows
<1>3. /\ box'.outs = read.outs /\ box'.charged = read.charged
      /\ read.outs \in Stats /\ read.charged \in Stats
  <2>1. AWAY_TEAM \in Team
    BY DEF Team
  <2> QED BY <1>1, <1>2, <2>1, StaffTyped DEF SameStats
<1>4. Grown(read.outs, read.outs) /\ Grown(read.charged, read.charged)
  <2>1. \A f \in Stats : Grown(f, f)
    BY DEF Stats, Grown
  <2> QED BY <1>3, <2>1
<1>5. inning = 1 /\ team_hitting = AWAY_TEAM /\ \A t \in Team : runs[t] = 0
  BY <1>1 DEF Fresh
<1>6. ASSUME NEW t \in Team
      PROVE  /\ Len(read'.staff[SideOf(t)]) < Len(box'.staff[SideOf(t)])
             /\ PitchedFor(t)' = <<defense[t][Mound]>> /\ defense[t][Mound] \in Pitcher
             /\ SumOf(Since(read.outs, read.outs, PitchedFor(t)')) = 0
             /\ SumOf(Since(read.charged, read.charged, PitchedFor(t)')) = 0
             /\ OutsAgainst(t)' = 0 /\ runs'[Other(t)] = 0
  <2> DEFINE s == SideOf(t)
             p == defense[t][Mound]
  <2>1. read.staff[s] \in Seq(Pitcher) /\ box'.staff[s] = Append(read.staff[s], p)
    BY <1>1, <1>2, StaffTyped DEF JoinsStaff
  <2>2. p \in Pitcher
    BY <1>1, CardTold DEF Told
  <2>3. Len(read.staff[s]) < Len(box'.staff[s])
    BY <2>1, <2>2
  <2>4. PitchedFor(t)' = Newcomers(read.staff[s], box'.staff[s])
    BY <1>1 DEF PitchedFor, Newcomers
  <2>5. PitchedFor(t)' = <<p>>
    BY <2>1, <2>2, <2>4, FirstNewcomer
  <2> HIDE DEF p
  <2>6. SumOf(Since(read.outs, read.outs, <<p>>)) = 0
    BY <1>4, <2>2, StarterCredited
  <2>7. SumOf(Since(read.charged, read.charged, <<p>>)) = 0
    BY <1>4, <2>2, StarterCredited
  <2>8. OutsAgainst(t)' = 0
    <3>1. HalvesAgainst(t)' = 0
      BY <1>1, <1>5 DEF HalvesAgainst, HOME_TEAM, AWAY_TEAM
    <3>2. 0 * OutsPerHalf = 0
      BY NumberAssumption
    <3> QED BY <1>1, <3>1, <3>2 DEF OutsAgainst
  <2>9. runs'[Other(t)] = 0
    BY <1>1, <1>5, SideFacts
  <2> QED BY <1>1, <2>2, <2>3, <2>5, <2>6, <2>7, <2>8, <2>9 DEF p
<1>7. OnlyPitchersCredited'
  BY <1>1, <1>3 DEF OnlyPitchersCredited
<1>8. \A t \in Team : TakesTurns(PitchedFor(t), defense[t][Mound])'
  <2> SUFFICES ASSUME NEW t \in Team PROVE TakesTurns(PitchedFor(t), defense[t][Mound])'
    OBVIOUS
  <2>1. PICK p : p = defense[t][Mound]
    OBVIOUS
  <2>2. PitchedFor(t)' = <<p>> /\ p \in Pitcher /\ defense'[t][Mound] = p
    BY <1>1, <1>6, <2>1
  <2>3. <<p>> \in Seq(Pitcher) /\ <<p>> # <<>> /\ <<p>>[Len(<<p>>)] = p /\ 1 .. Len(<<p>>) - 1 = {}
    BY <2>2
  <2> QED BY <2>2, <2>3 DEF TakesTurns
<1>9. \A t \in Team : Credited(t)'
  BY <1>1, <1>3, <1>6 DEF Credited
<1>10. Grown(read.outs, box.outs)' /\ Grown(read.charged, box.charged)'
  BY <1>1, <1>3, <1>4 DEF Grown
<1>11. \A t \in Team : Decided(t)'
  BY <1>1, <1>5, SideFacts DEF Decided
<1> QED BY <1>1, <1>6, <1>7, <1>8, <1>9, <1>10, <1>11 DEF StaffInv

\* The pitcher stays.
LEMMA StaffKeep ==
  ASSUME IInv, ListInv, LogInv, StaffInv, LogKeep
  PROVE  StaffInv'
<1>1. /\ pc = "top" /\ pc' = "bat" /\ FollowsGame(box)
      /\ UNCHANGED <<inning, team_hitting, outs, runs, defense, tired_pitchers, read>>
  BY DEF LogKeep, KeepPitcher, Reads, clock, cards, LogInv, OnAir
<1>2. /\ box'.staff = box.staff /\ box'.outs = box.outs /\ box'.charged = box.charged
      /\ FollowsGame(box)' /\ Redecided(box, box')
  BY <1>1, KeepFollows DEF SameStats
<1>3. Recorded' = Recorded /\ OnMound' = OnMound
  BY <1>1 DEF Recorded, OnMound
<1>4. ASSUME NEW t \in Team
      PROVE  PitchedFor(t)' = PitchedFor(t) /\ OutsAgainst(t)' = OutsAgainst(t)
  BY <1>1, <1>2 DEF PitchedFor, OutsAgainst, HalvesAgainst
<1>5. \A t \in Team : TakesTurns(PitchedFor(t), defense[t][Mound])'
  BY <1>1, <1>3, <1>4 DEF StaffInv, TakesTurns
<1>6. \A t \in Team : Credited(t)'
  BY <1>1, <1>2, <1>4 DEF StaffInv, Credited
<1>7. OnlyPitchersCredited' /\ Grown(read.outs, box.outs)' /\ Grown(read.charged, box.charged)'
  BY <1>1, <1>2, <1>3 DEF StaffInv, OnlyPitchersCredited, Grown
<1>8. \A t \in Team : Decided(t)'
  BY <1>1, <1>2, <1>4, DecidedOn
<1> QED BY <1>1, <1>2, <1>5, <1>6, <1>7, <1>8 DEF StaffInv

\* The man who leaves is recorded, and the one who comes is new.
LEMMA StaffChange ==
  ASSUME IInv, ListInv, LogInv, StaffInv, LogChange
  PROVE  StaffInv'
<1> DEFINE F == Fielding
           old == defense[F][Mound]
<1>1. /\ pc = "top" /\ pc' = "bat" /\ ChangePitcher /\ FollowsGame(box) /\ box \in Box
      /\ tired_pitchers' = Append(tired_pitchers, Entry(Current))
      /\ UNCHANGED <<inning, team_hitting, outs, runs, read>>
  BY DEF LogChange, ChangePitcher, Reads, clock, LogInv, OnAir
<1>2. PICK i \in Slot, k \in DOMAIN bullpen[F] :
        /\ offense[F][i] = defense[F][Mound]
        /\ Card0' = Substituted(Card0, F, i, k)
        /\ pitcher' = bullpen[F][k] /\ bullpen[F][k] \in Reliever
  BY <1>1, ChangeIsSubstitution
<1>3. /\ SoundCard(Card0) /\ F \in Team /\ Mound \in Slot /\ Current = old
      /\ \A t \in Team : defense[t][Mound] \in Pitcher
  BY <1>1, MoundFacts
<1>4. /\ defense \in [Team -> [Slot -> Player \cup {Nobody}]]
      /\ bullpen \in [Team -> Seq(Pitcher)]
  BY DEF IInv, TypeOK
<1>5. PICK sub : sub = pitcher'
  OBVIOUS
<1>6. sub \in Pitcher
  BY <1>2, <1>3, <1>4, <1>5, ElementOfSeq, LenProperties
<1>7. \A t \in Team : defense'[t][Mound] = IF t = F THEN sub ELSE defense[t][Mound]
  <2>1. defense' = [defense EXCEPT ![F][Mound] = sub]
    BY <1>2, <1>5 DEF Substituted, Card0
  <2> QED BY <2>1, <1>3, <1>4
<1>8. Recorded' = Recorded \cup {old}
  <2>1. TrueList(tired_pitchers) /\ tired_pitchers' = Append(tired_pitchers, Entry(old))
        /\ TypeOK /\ old \in Pitcher /\ old \notin Recorded
    BY <1>1, <1>3, MoundNotRecorded DEF ListInv, IInv
  <2>2. Ids(Append(tired_pitchers, Entry(old))) = Ids(tired_pitchers) \cup {old}
    BY <2>1, RecordOne DEF Recorded, Ids
  <2> QED BY <2>1, <2>2 DEF Recorded, Ids
<1>9. sub \notin Recorded /\ sub \notin OnMound
  <2>1. sub \in ToSet(bullpen[F]) /\ sub \in Reliever
    BY <1>2, <1>5 DEF ToSet
  <2>2. sub \notin Recorded
    BY <1>1, <1>3, <2>1 DEF ListInv, TakenOutForGood
  <2>3. ASSUME NEW t \in Team PROVE defense[t][Mound] # sub
    <3>1. PICK j \in Slot : offense[t][j] = defense[t][Mound]
      BY <1>3 DEF SoundCard, Card0
    <3>2. offense[t][j] # bullpen[F][k]
      BY <1>2, <1>3 DEF SoundCard, Card0
    <3> QED BY <1>2, <1>5, <3>1, <3>2
  <2> QED BY <2>2, <2>3 DEF OnMound
<1>10. /\ box'.outs = box.outs /\ box'.charged = box.charged
       /\ FollowsGame(box)' /\ Redecided(box, box')
       /\ \A s \in Side : box'.staff[s] = IF s = SideOf(F) THEN Append(box.staff[s], sub)
                                          ELSE box.staff[s]
  BY <1>1, <1>5, ChangeFollows DEF SameStats
<1>11. /\ Grown(read.outs, box.outs) /\ Grown(read.charged, box.charged)
       /\ read.outs[sub] = box.outs[sub] /\ read.charged[sub] = box.charged[sub]
  BY <1>1, <1>6, <1>9 DEF StaffInv, OnlyPitchersCredited
<1>12. OnlyPitchersCredited'
  <2>1. \A p : p \in Recorded \cup OnMound => p \in Recorded' \cup OnMound'
    BY <1>3, <1>7, <1>8 DEF OnMound
  <2> QED BY <1>1, <1>10, <2>1 DEF StaffInv, OnlyPitchersCredited
<1>13. ASSUME NEW t \in Team
       PROVE  /\ Len(read'.staff[SideOf(t)]) < Len(box'.staff[SideOf(t)])
              /\ TakesTurns(PitchedFor(t), defense[t][Mound])'
              /\ Credited(t)'
              /\ ToSet(PitchedFor(t)) \subseteq ToSet(PitchedFor(t)')
  <2> DEFINE before == read.staff[SideOf(t)]
             staff == box.staff[SideOf(t)]
             men == PitchedFor(t)
  <2>1. /\ Len(before) < Len(staff) /\ TakesTurns(men, defense[t][Mound]) /\ Credited(t)
        /\ before \in Seq(Pitcher) /\ staff \in Seq(Pitcher) /\ men = Newcomers(before, staff)
        /\ SideOf(t) \in Side /\ Len(before) \in Nat /\ Len(staff) \in Nat
    BY <1>1, StaffTyped, PitchedForIs DEF StaffInv
  <2>2. OutsAgainst(t)' = OutsAgainst(t) /\ runs'[Other(t)] = runs[Other(t)]
    BY <1>1 DEF OutsAgainst, HalvesAgainst
  <2>3. PitchedFor(t)' = Newcomers(before, box'.staff[SideOf(t)]) /\ read' = read
    BY <1>1 DEF PitchedFor, Newcomers
  <2>4. CASE t = F
    <3>1. box'.staff[SideOf(t)] = Append(staff, sub)
      BY <1>10, <2>1, <2>4
    <3>2. PitchedFor(t)' = Append(men, sub)
      BY <1>6, <2>1, <2>3, <3>1, OneNewcomer
    <3>3. men \in Seq(Pitcher) /\ men # <<>> /\ men[Len(men)] = old
          /\ \A j \in 1 .. Len(men) - 1 : men[j] \in Recorded
      BY <2>1, <2>4 DEF TakesTurns
    <3>4. Len(before) < Len(box'.staff[SideOf(t)])
      BY <1>6, <2>1, <3>1
    <3> HIDE DEF men, before, staff
    <3> DEFINE more == Append(men, sub)
    <3>5. /\ more \in Seq(Pitcher) /\ Len(more) = Len(men) + 1 /\ more[Len(more)] = sub
          /\ more # <<>> /\ Len(men) \in Nat
          /\ \A j \in 1 .. Len(men) : more[j] = men[j]
      BY <1>6, <3>3
    <3> HIDE DEF more
    <3>6. \A j \in 1 .. Len(more) - 1 : more[j] \in Recorded'
      <4> SUFFICES ASSUME NEW j \in 1 .. Len(more) - 1 PROVE more[j] \in Recorded'
        OBVIOUS
      <4>1. j \in 1 .. Len(men) /\ (j = Len(men) \/ j \in 1 .. Len(men) - 1)
        BY <3>5
      <4> QED BY <1>8, <3>3, <3>5, <4>1
    <3>7. TakesTurns(PitchedFor(t), defense[t][Mound])'
      BY <1>7, <2>4, <3>2, <3>5, <3>6 DEF TakesTurns, more
    <3>8. /\ SumOf(Since(read.outs, box.outs, more)) = SumOf(Since(read.outs, box.outs, men))
          /\ SumOf(Since(read.charged, box.charged, more)) = SumOf(Since(read.charged, box.charged, men))
      BY <1>6, <1>11, <3>3, NewManCredited DEF more
    <3>9. Credited(t)'
      BY <1>10, <2>1, <2>2, <2>3, <3>2, <3>8 DEF Credited, more, men
    <3>10. ToSet(men) \subseteq ToSet(PitchedFor(t)')
      BY <1>6, <3>2, <3>3, ToSetAppend
    <3> QED BY <2>3, <3>4, <3>7, <3>9, <3>10 DEF before, men
  <2>5. CASE t # F
    <3>1. box'.staff[SideOf(t)] = staff
      BY <1>3, <1>10, <2>1, <2>5, SideFacts
    <3>2. PitchedFor(t)' = men
      BY <2>1, <2>3, <3>1
    <3>3. TakesTurns(PitchedFor(t), defense[t][Mound])'
      BY <1>7, <1>8, <2>1, <2>5, <3>2 DEF TakesTurns
    <3>4. Credited(t)'
      BY <1>10, <2>1, <2>2, <2>3, <3>2 DEF Credited
    <3> QED BY <2>1, <2>3, <3>1, <3>2, <3>3, <3>4
  <2> QED BY <2>4, <2>5
<1>14. Grown(read.outs, box.outs)' /\ Grown(read.charged, box.charged)'
  BY <1>1, <1>10, <1>11 DEF Grown
<1>15. (read \in Box)'
  BY <1>1 DEF StaffInv
<1>16. \A t \in Team : Decided(t)'
  BY <1>1, <1>10, <1>13, DecidedOn
<1> QED BY <1>1, <1>12, <1>13, <1>14, <1>15, <1>16 DEF StaffInv

\* An out counts against the team in the field; the last one of a half is
\* carried over into the halves.
LEMMA OutsCounted ==
  ASSUME TypeOK, NEW o \in {0, 1}, CountOuts(outs + o), NEW t \in Team
  PROVE  /\ OutsAgainst(t)' = OutsAgainst(t) + (IF t = team_hitting THEN 0 ELSE o)
         /\ OutsAgainst(t) \in Nat
<1> DEFINE h == HalvesAgainst(t)
           n == OutsPerHalf
<1>1. /\ inning \in Nat \ {0} /\ team_hitting \in {0, 1} /\ t \in {0, 1} /\ outs \in Nat
      /\ n \in Nat /\ HOME_TEAM = 0
  BY NumberAssumption DEF TypeOK, Team, HOME_TEAM, AWAY_TEAM
<1>2. h \in Nat
  BY <1>1 DEF HalvesAgainst
<1>3. h * n \in Nat /\ (h + 1) * n = h * n + n
  BY <1>1, <1>2
<1>4. OutsAgainst(t) = h * n + (IF team_hitting = t THEN 0 ELSE outs)
  BY DEF OutsAgainst
<1>5. CASE /\ outs' = outs + o /\ UNCHANGED <<inning, team_hitting>>
  <2>1. HalvesAgainst(t)' = h
    BY <1>5 DEF HalvesAgainst
  <2>2. OutsAgainst(t)' = h * n + (IF team_hitting = t THEN 0 ELSE outs + o)
    BY <1>5, <2>1 DEF OutsAgainst
  <2> HIDE DEF h, n
  <2> QED BY <1>1, <1>3, <1>4, <2>2
<1>6. CASE /\ outs + o = n /\ outs' = 0 /\ team_hitting' = Other(team_hitting)
           /\ inning' = IF team_hitting = HOME_TEAM THEN inning + 1 ELSE inning
  <2>1. team_hitting' = 1 - team_hitting
    BY <1>6 DEF Other
  <2>2. CASE t = team_hitting
    <3>1. HalvesAgainst(t)' = h
      BY <1>1, <1>6, <2>1, <2>2 DEF HalvesAgainst
    <3>2. OutsAgainst(t)' = h * n + 0
      BY <1>6, <3>1 DEF OutsAgainst
    <3> HIDE DEF h, n
    <3> QED BY <1>1, <1>3, <1>4, <2>2, <3>2
  <2>3. CASE t # team_hitting
    <3>1. HalvesAgainst(t)' = h + 1
      BY <1>1, <1>6, <2>1, <2>3 DEF HalvesAgainst
    <3>2. OutsAgainst(t)' = (h + 1) * n + 0
      BY <1>6, <3>1 DEF OutsAgainst
    <3> HIDE DEF h, n
    <3> QED BY <1>1, <1>3, <1>4, <1>6, <2>3, <3>2
  <2> QED BY <2>2, <2>3
<1>7. OutsAgainst(t) \in Nat
  <2> HIDE DEF h, n
  <2> QED BY <1>1, <1>3, <1>4
<1> QED BY <1>5, <1>6, <1>7 DEF CountOuts

\* A play is credited to the man on the mound, the last of his team's list.
LEMMA StaffPlay ==
  ASSUME IInv, ListInv, LogInv, StaffInv,
         NEW type \in ResultType, NEW sentHome \in BOOLEAN, NEW extraBase \in BOOLEAN,
         LogPlay(type, sentHome, extraBase)
  PROVE  StaffInv'
<1> DEFINE F == Fielding
           scored == RunsOn(Destination(type, base_runners, sentHome, extraBase), base_runners)
           o == OutsOn(type)
<1>1. /\ pc = "bat" /\ pc' = "top" /\ FollowsGame(box) /\ box \in Box /\ Fresh
      /\ runs' = [runs EXCEPT ![team_hitting] = @ + scored]
      /\ CountOuts(outs + o)
      /\ UNCHANGED <<defense, tired_pitchers, read>>
  BY DEF LogPlay, PlateAppearance, Reads, cards, LogInv, OnAir
<1>2. scored \in Nat /\ o \in {0, 1}
  BY RunsOnType DEF OutsOn
<1>3. Scored(box, box', pitcher, scored, o) /\ FollowsGame(box)'
  BY <1>1, PlayFollows
<1> HIDE DEF scored, o
<1>4. /\ SoundCard(Card0) /\ F \in Team /\ team_hitting \in Team /\ Mound \in Slot
      /\ pitcher \in Pitcher /\ pitcher = defense[F][Mound]
  BY <1>1, MoundFacts DEF IInv, MoundKept, HalfGoesOn
<1>5. PICK p : p = pitcher
  OBVIOUS
<1>6. /\ box'.staff = box.staff
      /\ box'.outs = [box.outs EXCEPT ![p] = box.outs[p] + o]
      /\ box'.charged = [box.charged EXCEPT ![p] = box.charged[p] + scored]
  BY <1>3, <1>5 DEF Scored, SameGame
<1>7. p \notin Recorded /\ p \in OnMound
  BY <1>1, <1>4, <1>5, MoundNotRecorded DEF OnMound
<1>8. \A t \in Team : t # F => defense[t][Mound] # p
  <2> SUFFICES ASSUME NEW t \in Team, t # F PROVE defense[t][Mound] # p
    OBVIOUS
  <2>1. PICK i \in Slot : offense[t][i] = defense[t][Mound]
    BY <1>4 DEF SoundCard, Card0
  <2>2. PICK j \in Slot : offense[F][j] = defense[F][Mound]
    BY <1>4 DEF SoundCard, Card0
  <2>3. offense[t][i] # offense[F][j]
    BY <1>4 DEF SoundCard, Card0
  <2> QED BY <1>4, <1>5, <2>1, <2>2, <2>3
<1>9. Grown(read.outs, box.outs) /\ Grown(read.charged, box.charged)
  BY <1>1 DEF StaffInv
<1>10. Recorded' = Recorded /\ OnMound' = OnMound
  BY <1>1 DEF Recorded, OnMound
<1>11. OnlyPitchersCredited'
  <2>1. box.outs \in [Pitcher -> Nat] /\ box.charged \in [Pitcher -> Nat]
    BY <1>9 DEF Grown, Stats
  <2>2. \A q \in Pitcher : q # p => box'.outs[q] = box.outs[q] /\ box'.charged[q] = box.charged[q]
    BY <1>6, <2>1
  <2> QED BY <1>1, <1>7, <1>10, <2>2 DEF StaffInv, OnlyPitchersCredited
<1>12. ASSUME NEW t \in Team
       PROVE  /\ Len(read'.staff[SideOf(t)]) < Len(box'.staff[SideOf(t)])
              /\ TakesTurns(PitchedFor(t), defense[t][Mound])'
  <2>1. PitchedFor(t)' = PitchedFor(t)
    BY <1>1, <1>6 DEF PitchedFor
  <2>2. /\ Len(read.staff[SideOf(t)]) < Len(box.staff[SideOf(t)])
        /\ TakesTurns(PitchedFor(t), defense[t][Mound])
    BY <1>1 DEF StaffInv
  <2> QED BY <1>1, <1>6, <1>10, <2>1, <2>2 DEF TakesTurns
<1>13. /\ SumOf(Since(read.outs, box'.outs, PitchedFor(F))) = SumOf(Since(read.outs, box.outs, PitchedFor(F))) + o
       /\ SumOf(Since(read.charged, box'.charged, PitchedFor(F)))
            = SumOf(Since(read.charged, box.charged, PitchedFor(F))) + scored
       /\ Grown(read.outs, box'.outs) /\ Grown(read.charged, box'.charged)
  <2> DEFINE men == PitchedFor(F)
  <2>1. men \in Seq(Pitcher) /\ LastOnly(men, p)
    <3>1. TakesTurns(men, p)
      BY <1>1, <1>4, <1>5 DEF StaffInv
    <3> HIDE DEF men
    <3> QED BY <1>7, <3>1 DEF TakesTurns, LastOnly
  <2>2. o \in Nat /\ p \in Pitcher
    BY <1>2, <1>4, <1>5
  <2> HIDE DEF men
  <2>3. /\ SumOf(Since(read.outs, box'.outs, men)) = SumOf(Since(read.outs, box.outs, men)) + o
        /\ Grown(read.outs, box'.outs)
    BY <1>6, <1>9, <2>1, <2>2, LastCredited
  <2>4. /\ SumOf(Since(read.charged, box'.charged, men)) = SumOf(Since(read.charged, box.charged, men)) + scored
        /\ Grown(read.charged, box'.charged)
    BY <1>2, <1>6, <1>9, <2>1, <2>2, LastCredited
  <2> QED BY <2>3, <2>4 DEF men
<1>14. ASSUME NEW t \in Team, t # F
       PROVE  /\ SumOf(Since(read.outs, box'.outs, PitchedFor(t))) = SumOf(Since(read.outs, box.outs, PitchedFor(t)))
              /\ SumOf(Since(read.charged, box'.charged, PitchedFor(t)))
                   = SumOf(Since(read.charged, box.charged, PitchedFor(t)))
  <2> DEFINE men == PitchedFor(t)
  <2>1. men \in Seq(Pitcher) /\ \A k \in 1 .. Len(men) : men[k] # p
    <3>1. TakesTurns(men, defense[t][Mound])
      BY <1>1 DEF StaffInv
    <3> HIDE DEF men
    <3>2. \A k \in 1 .. Len(men) : k = Len(men) \/ k \in 1 .. Len(men) - 1
      BY <3>1 DEF TakesTurns
    <3> QED BY <1>7, <1>8, <1>14, <3>1, <3>2 DEF TakesTurns
  <2>2. o \in Nat /\ p \in Pitcher
    BY <1>2, <1>4, <1>5
  <2> HIDE DEF men
  <2>3. SumOf(Since(read.outs, box'.outs, men)) = SumOf(Since(read.outs, box.outs, men))
    BY <1>6, <1>9, <2>1, <2>2, OthersCredited
  <2>4. SumOf(Since(read.charged, box'.charged, men)) = SumOf(Since(read.charged, box.charged, men))
    BY <1>2, <1>6, <1>9, <2>1, <2>2, OthersCredited
  <2> QED BY <2>3, <2>4 DEF men
<1>15. ASSUME NEW t \in Team
       PROVE  Credited(t)'
  <2>1. /\ SumOf(Since(read.outs, box.outs, PitchedFor(t))) = OutsAgainst(t)
        /\ SumOf(Since(read.charged, box.charged, PitchedFor(t))) = runs[Other(t)]
    BY <1>1 DEF StaffInv, Credited
  <2>2. PitchedFor(t)' = PitchedFor(t)
    BY <1>1, <1>6 DEF PitchedFor
  <2>3. OutsAgainst(t)' = OutsAgainst(t) + (IF t = team_hitting THEN 0 ELSE o)
    BY <1>1, <1>2, OutsCounted DEF IInv
  <2>4. /\ t = F <=> t # team_hitting
        /\ Other(t) = team_hitting <=> t = F
        /\ Other(t) \in Team
    BY <1>4, SideFacts DEF Fielding, Other
  <2>5. runs \in [Team -> Nat]
    BY DEF IInv, TypeOK
  <2>6. runs'[Other(t)] = IF t = F THEN runs[Other(t)] + scored ELSE runs[Other(t)]
    BY <1>1, <1>4, <2>4, <2>5
  <2>7. OutsAgainst(t)' = IF t = F THEN OutsAgainst(t) + o ELSE OutsAgainst(t)
    <3>1. OutsAgainst(t) \in Nat
      BY <1>1, <1>2, OutsCounted DEF IInv
    <3> QED BY <2>3, <2>4, <3>1
  <2>8. CASE t = F
    BY <1>1, <1>13, <2>1, <2>2, <2>6, <2>7, <2>8 DEF Credited
  <2>9. CASE t # F
    BY <1>1, <1>14, <2>1, <2>2, <2>6, <2>7, <2>9 DEF Credited
  <2> QED BY <2>8, <2>9
<1>16. Grown(read.outs, box.outs)' /\ Grown(read.charged, box.charged)'
  BY <1>1, <1>13 DEF Grown
<1>17. (read \in Box)'
  BY <1>1 DEF StaffInv
<1>18. \A t \in Team : Decided(t)'
  <2>1. \A t \in Team : PitchedFor(t)' = PitchedFor(t)
    BY <1>1, <1>6 DEF PitchedFor
  <2> QED BY <1>1, <1>3, <2>1, DecidedOn DEF Scored
<1> QED BY <1>1, <1>11, <1>12, <1>15, <1>16, <1>17, <1>18 DEF StaffInv

\* Every step keeps the staffs.
LEMMA StaffInvNext ==
  ASSUME IInv, ListInv, LogInv, StaffInv, [LogNext]_allVars PROVE StaffInv'
<1>1. CASE LogReject
  <2>1. pc' = "aborted" /\ UNCHANGED <<box, read>>
    BY <1>1 DEF LogReject, RejectLineups, logVars
  <2> QED BY <2>1 DEF StaffInv
<1>2. ASSUME NEW type \in ResultType, NEW sentHome \in BOOLEAN, NEW extraBase \in BOOLEAN,
             LogAbort(type, sentHome, extraBase)
      PROVE  StaffInv'
  <2>1. pc' = "aborted" /\ UNCHANGED <<box, read>>
    BY <1>2 DEF LogAbort, AbortGame, logVars
  <2> QED BY <2>1 DEF StaffInv
<1>3. CASE LogEnd
  <2>1. pc' = "over" /\ read' = box
    BY <1>3 DEF LogEnd, EndGame
  <2> QED BY <2>1 DEF StaffInv, LogInv
<1>4. CASE NextGame
  <2>1. pc = "over" /\ pc' = "start" /\ outs' = 0 /\ UNCHANGED <<box, read>>
    BY <1>4 DEF NextGame
  <2> QED BY <2>1 DEF StaffInv, LogInv
<1>5. CASE UNCHANGED <<pc, inning, team_hitting, outs, runs, defense, tired_pitchers, box, read>>
  <2>1. Recorded' = Recorded /\ OnMound' = OnMound
    BY <1>5 DEF Recorded, OnMound
  <2>2. \A t \in Team : PitchedFor(t)' = PitchedFor(t) /\ OutsAgainst(t)' = OutsAgainst(t)
    BY <1>5 DEF PitchedFor, OutsAgainst, HalvesAgainst
  <2>3. StaffInv => (OnlyPitchersCredited <=> OnlyPitchersCredited')
    BY <1>5, <2>1 DEF OnlyPitchersCredited
  <2>4. \A t \in Team : /\ TakesTurns(PitchedFor(t), defense[t][Mound]) <=> TakesTurns(PitchedFor(t), defense[t][Mound])'
                        /\ Credited(t) <=> Credited(t)'
                        /\ Decided(t) <=> Decided(t)'
    <3> SUFFICES ASSUME NEW t \in Team
                 PROVE  /\ TakesTurns(PitchedFor(t), defense[t][Mound]) <=> TakesTurns(PitchedFor(t), defense[t][Mound])'
                        /\ Credited(t) <=> Credited(t)'
                        /\ Decided(t) <=> Decided(t)'
      OBVIOUS
    <3>1. PitchedFor(Other(t))' = PitchedFor(Other(t))
      BY <1>5 DEF PitchedFor
    <3> QED BY <1>5, <2>1, <2>2, <3>1 DEF TakesTurns, Credited, Decided
  <2> QED BY <1>5, <2>3, <2>4 DEF StaffInv, Grown
<1>6. CASE EndOfInput
  BY <1>5, <1>6 DEF EndOfInput, vars, clock, cards
<1>7. CASE UNCHANGED allVars
  BY <1>5, <1>7 DEF allVars, vars, clock, cards, logVars
<1> QED BY <1>1, <1>2, <1>3, <1>4, <1>6, <1>7, StaffStart, StaffKeep, StaffChange, StaffPlay DEF LogNext

\* The list of tired pitchers of the game of the log.
LEMMA ListOfLog == LogSpec => []ListInv
<1>1. LogInit => ListInv
  BY ListInit DEF LogInit
<1>2. Init => ListInv
  BY ListInit
<1>3. IInv /\ ListInv /\ [Next]_vars => ListInv'
  BY ListNext
<1>4. [LogNext]_allVars => [Next]_vars \/ Init'
  BY LogStepIsGameStep
<1> QED BY <1>1, <1>2, <1>3, <1>4, GameOfLog, PTL DEF LogSpec

\* The staffs of the game of the log.
LEMMA StaffOfLog == LogSpec => []StaffInv
<1>1. LogInit => StaffInv
  <2> SUFFICES ASSUME LogInit PROVE StaffInv
    OBVIOUS
  <2>1. pc = "start" /\ outs = 0 /\ read = Log!EmptyBox /\ box = Log!EmptyBox
    BY DEF LogInit, Init
  <2> QED BY <2>1, EmptyBoxTyped DEF StaffInv
<1>2. IInv /\ ListInv /\ LogInv /\ StaffInv /\ [LogNext]_allVars => StaffInv'
  BY StaffInvNext
<1> QED BY <1>1, <1>2, GameOfLog, ListOfLog, LogInvariance, PTL DEF LogSpec

\* The outs and the runs the reader credits to the men of a team, whatever
\* changes of pitcher there were, are those made against the other team.
THEOREM PitchingAlwaysAddsUp == LogSpec => []PitchingAddsUp
<1>1. StaffInv => PitchingAddsUp
  BY DEF StaffInv, Credited, OutsAgainst, PitchingAddsUp
<1> QED BY <1>1, StaffOfLog, PTL

\* The pitchers of record follow the lead: at every moment there is a loser
\* exactly when a team leads, he has pitched for the team behind in this game,
\* not in an earlier one that the reader remembers, and so has the man in line
\* for the win for the team ahead.
THEOREM DecisionsAlwaysFollowLead == LogSpec => []DecisionsFollowLead
<1>1. LogInv /\ StaffInv => DecisionsFollowLead
  <2> SUFFICES ASSUME LogInv, StaffInv, pc \in {"top", "bat"}
               PROVE  /\ box.loser = Nobody <=> runs[HOME_TEAM] = runs[AWAY_TEAM]
                      /\ \A t \in Team : Decided(t)
                      /\ runs[HOME_TEAM] = runs[AWAY_TEAM] => box.winner = Nobody
    BY DEF DecisionsFollowLead, Decided
  <2>1. RecordFollows(box) /\ \A t \in Team : box.total[SideOf(t)] = runs[t]
    BY DEF LogInv, OnAir, FollowsGame, InPlay, Sound
  <2>2. box.total[0] = runs[AWAY_TEAM] /\ box.total[1] = runs[HOME_TEAM]
    BY <2>1, SideFacts
  <2> QED BY <2>1, <2>2 DEF RecordFollows, StaffInv
<1> QED BY <1>1, LogInvariance, StaffOfLog, PTL
=============================================================================
