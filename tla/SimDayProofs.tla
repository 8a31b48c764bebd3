---------------------------- MODULE SimDayProofs ----------------------------
(***************************************************************************)
(* What the books hold of the games of sim_day, and what is left of its    *)
(* pitchers in memory and in the table, for any number of games, days,     *)
(* pitchers and starts of the program, and whatever the reader, the end of *)
(* the file and the signal do first.                                       *)
(***************************************************************************)
EXTENDS SimDay, SequenceTheorems, FiniteSetTheorems, WellFoundedInduction,
        TLAPS

Running == child \in {"ready", "reading"}
Book == [Day -> [Game -> Nat]]

BookTypes ==
  /\ pc \in {"fork", "play", "close", "kill", "wait", "settle", "exit", "broken"}
  /\ day \in Day /\ game \in Game /\ rc \in {0, 1}
  /\ child \in {"none", "ready", "reading", "saved", "dead"}
  /\ record \in Book /\ stats \in Book /\ finished \in Book

\* A reader that is still to save this game finds it played out once more than
\* it was recorded.  No reader runs while the program moves to another game.
ReaderInv ==
  /\ BookTypes
  /\ pc \in {"fork", "settle"} => ~Running
  /\ pc = "play" => pipe = {} /\ child # "saved"
  /\ pc \in {"play", "close"} => "parent" \in writers
  /\ \A d \in Day, k \in Game : record[d][k] <= finished[d][k]
  /\ Running /\ pipe # {} => record[day][game] < finished[day][game]

LEMMA ReaderStarts == Init => ReaderInv
<1>1. 1 \in Day /\ 1 \in Game
  BY DayAssumption DEF Day, Game
<1> QED BY <1>1 DEF Init, ReaderInv, BookTypes, Book, Running

\* Adding one to a game of a book.
LEMMA OneMore ==
  ASSUME NEW book \in Book, NEW d \in Day, NEW k \in Game
  PROVE  LET more == [book EXCEPT ![d][k] = @ + 1]
         IN  /\ more \in Book
             /\ more[d][k] = book[d][k] + 1
             /\ \A e \in Day, j \in Game : e # d \/ j # k => more[e][j] = book[e][j]
BY DEF Book

LEMMA ReaderStep == ReaderInv /\ [Next]_vars => ReaderInv'
<1> SUFFICES ASSUME ReaderInv, [Next]_vars PROVE ReaderInv'
  OBVIOUS
<1> USE DEF ReaderInv, BookTypes, Running
<1>1. CASE Fork
  BY <1>1 DEF Fork, books, history
<1>2. ASSUME NEW ok \in BOOLEAN, NEW used, NEW listed, Play(ok, used, listed)
      PROVE  ReaderInv'
  <2>1. /\ pc = "play" /\ pc' = "close" /\ pipe' = Flushed(ok) /\ rc' \in Returned(ok)
        /\ finished' = IF ok THEN [finished EXCEPT ![day][game] = @ + 1] ELSE finished
        /\ UNCHANGED <<day, game, child, writers, record, stats>>
    BY <1>2 DEF Play, books
  <2>2. rc' \in {0, 1}
    BY <2>1 DEF Returned
  <2>3. CASE ok
    <3> DEFINE more == [finished EXCEPT ![day][game] = @ + 1]
    <3>1. /\ more \in Book /\ more[day][game] = finished[day][game] + 1
          /\ \A e \in Day, j \in Game :
               e # day \/ j # game => more[e][j] = finished[e][j]
      BY OneMore
    <3>2. finished' = more
      BY <2>1, <2>3
    <3> HIDE DEF more
    <3>3. \A d \in Day, k \in Game : record[d][k] \in Nat /\ finished[d][k] \in Nat
      BY DEF Book
    <3>4. \A d \in Day, k \in Game : record[d][k] <= more[d][k]
      BY <3>1, <3>3
    <3>5. record[day][game] < more[day][game]
      BY <3>1, <3>3
    <3> QED BY <2>1, <2>2, <3>1, <3>2, <3>4, <3>5
  <2>4. CASE ~ok
    BY <2>1, <2>2, <2>4 DEF Flushed
  <2> QED BY <2>3, <2>4
<1>3. CASE Broken
  BY <1>3 DEF Broken, books, history
<1>4. CASE Close
  BY <1>4 DEF Close, books, history
<1>5. CASE Kill
  BY <1>5 DEF Kill, books, history
<1>6. CASE Wait
  <2>1. ~Running /\ UNCHANGED <<day, rc, child, writers, pipe, record, stats, finished>>
    BY <1>6 DEF Wait, reader, books, history
  <2>2. game' \in Game /\ pc' \in {"fork", "settle"}
    BY <1>6, DayAssumption DEF Wait, Game
  <2> QED BY <2>1, <2>2
<1>7. CASE SettleSeason \/ SettleDay
  <2>1. /\ pc = "settle" /\ pc' \in {"fork", "exit"} /\ day' \in Day
        /\ UNCHANGED <<game, rc, child, writers, pipe, record, stats, finished>>
    BY <1>7, DayAssumption DEF SettleSeason, SettleDay, Day, reader, books
  <2> QED BY <2>1
<1>8. CASE ChildStart
  BY <1>8 DEF ChildStart, Inherited, program, books, history
<1>9. CASE EndOfFile
  <2>1. /\ child = "reading" /\ writers = {}
        /\ UNCHANGED <<pc, day, game, rc, writers, pipe, finished>>
        /\ pc \notin {"play", "close", "fork", "settle"}
    BY <1>9 DEF EndOfFile, program, history
  <2>2. CASE pipe # {}
    <3> DEFINE more == [record EXCEPT ![day][game] = @ + 1]
    <3>1. /\ child' = "saved" /\ record' = more
          /\ stats' = [stats EXCEPT ![day] =
               [k \in Game |-> IF k \in pipe THEN @[k] + 1 ELSE @[k]]]
      BY <1>9, <2>2 DEF EndOfFile
    <3>2. /\ more \in Book /\ more[day][game] = record[day][game] + 1
          /\ \A e \in Day, j \in Game :
               e # day \/ j # game => more[e][j] = record[e][j]
      BY OneMore
    <3> HIDE DEF more
    <3>3. stats' \in Book
      BY <3>1 DEF Book
    <3>4. \A d \in Day, k \in Game : record[d][k] \in Nat /\ finished[d][k] \in Nat
      BY DEF Book
    <3>5. \A d \in Day, k \in Game : more[d][k] <= finished[d][k]
      BY <2>1, <2>2, <3>2, <3>4
    <3> QED BY <2>1, <3>1, <3>2, <3>3, <3>5
  <2>3. CASE pipe = {}
    BY <1>9, <2>1, <2>3 DEF EndOfFile, books
  <2> QED BY <2>2, <2>3
<1>10. CASE ChildFails
  BY <1>10 DEF ChildFails, program, books, history
<1>11. CASE Launch
  BY <1>11, DayAssumption DEF Launch, Game, books, history
<1>12. CASE Over \/ UNCHANGED vars
  BY <1>12 DEF Over, vars, program, reader, books, history
<1> QED BY <1>1, <1>2, <1>3, <1>4, <1>5, <1>6, <1>7, <1>8, <1>9, <1>10, <1>11, <1>12
        DEF Next, Program, Child

LEMMA ReaderKept == Spec => []ReaderInv
BY ReaderStarts, ReaderStep, PTL DEF Spec

\* However the reader, the end of the file and the signal race, and on however
\* many days the program was broken off: no game is recorded that was not
\* played out, and none is recorded twice.
THEOREM RecordedWerePlayed == Spec => []OnlyFinishedRecorded
<1>1. ReaderInv => OnlyFinishedRecorded
  BY DEF ReaderInv, OnlyFinishedRecorded
<1> QED BY <1>1, ReaderKept, PTL

-----------------------------------------------------------------------------
(* With --season the program stops at the first game that is given up, and *)
(* nothing of it is left in the buffer for the reader of another game.     *)

BufferInv ==
  /\ pc \in {"fork", "play", "wait", "settle"} => buffer = {}
  /\ pc = "close" /\ rc = 0 => buffer = {}
  /\ Running => pipe = {} \/ pipe = {game}
  /\ stats = record

LEMMA BufferStep ==
  ASSUME Season
  PROVE  ReaderInv /\ BufferInv /\ [Next]_vars => BufferInv'
<1> SUFFICES ASSUME ReaderInv, BufferInv, [Next]_vars PROVE BufferInv'
  OBVIOUS
<1> USE DEF BufferInv, Running
<1>1. CASE Fork
  BY <1>1 DEF Fork, memory, books
<1>2. ASSUME NEW ok \in BOOLEAN, NEW used, NEW listed, Play(ok, used, listed)
      PROVE  BufferInv'
  <2>1. /\ pc = "play" /\ pc' = "close" /\ pipe' = Flushed(ok) /\ buffer' = LeftBehind(ok)
        /\ rc' \in Returned(ok) /\ UNCHANGED <<game, child, record, stats>>
    BY <1>2 DEF Play, books
  <2> QED BY <2>1 DEF Flushed, LeftBehind, Returned
<1>3. CASE Broken
  BY <1>3 DEF Broken, memory, books
<1>4. CASE Close
  BY <1>4 DEF Close, memory, books
<1>5. CASE Kill
  BY <1>5 DEF Kill, memory, books
<1>6. CASE Wait
  BY <1>6 DEF Wait, reader, memory, books
<1>7. CASE SettleSeason \/ SettleDay
  BY <1>7 DEF SettleSeason, SettleDay, reader, memory, books, ReaderInv
<1>8. CASE ChildStart
  BY <1>8 DEF ChildStart, program, memory, books
<1>9. CASE EndOfFile
  <2>1. child = "reading" /\ child' \in {"saved", "dead"}
        /\ UNCHANGED <<pc, game, rc, pipe, buffer>>
    BY <1>9 DEF EndOfFile, program, memory
  <2>2. stats' = record'
    <3>1. CASE pipe = {}
      BY <1>9, <3>1 DEF EndOfFile, books
    <3>2. CASE pipe # {}
      <4>1. /\ record' = [record EXCEPT ![day][game] = @ + 1]
            /\ stats' = [stats EXCEPT ![day] =
                 [k \in Game |-> IF k \in {game} THEN @[k] + 1 ELSE @[k]]]
        BY <1>9, <2>1, <3>2 DEF EndOfFile
      <4>2. record \in Book /\ stats = record /\ day \in Day /\ game \in Game
        BY DEF ReaderInv, BookTypes
      <4>3. [k \in Game |-> IF k \in {game} THEN record[day][k] + 1 ELSE record[day][k]]
              = [record[day] EXCEPT ![game] = @ + 1]
        BY <4>2 DEF Book
      <4> QED BY <4>1, <4>2, <4>3 DEF Book
    <3> QED BY <3>1, <3>2
  <2> QED BY <2>1, <2>2
<1>10. CASE ChildFails
  BY <1>10 DEF ChildFails, program, memory, books
<1>11. CASE Launch
  BY <1>11 DEF Launch
<1>12. CASE Over \/ UNCHANGED vars
  BY <1>12 DEF Over, vars, program, reader, memory, books
<1> QED BY <1>1, <1>2, <1>3, <1>4, <1>5, <1>6, <1>7, <1>8, <1>9, <1>10, <1>11, <1>12
        DEF Next, Program, Child

\* For seasons of any length (not so for days, see the run day_log): the stats
\* of the players are those of the games whose results count.
THEOREM SeasonStatsFollow == Season => (Spec => []StatsFollowResults)
<1> SUFFICES ASSUME Season PROVE Spec => []StatsFollowResults
  OBVIOUS
<1>1. Init => BufferInv
  BY DEF Init, BufferInv, Running
<1>2. BufferInv => StatsFollowResults
  BY DEF BufferInv, StatsFollowResults
<1>3. Spec => []BufferInv
  BY <1>1, BufferStep, ReaderKept, PTL DEF Spec
<1> QED BY <1>2, <1>3, PTL

-----------------------------------------------------------------------------
(* With --season, and as long as no reader fails. *)

Recorded(d, k) == record[d][k] > 0

\* Whoever waits waits for a reader that has the game before it; whoever goes
\* on has it, and all games before it, in the database.
SettleInv ==
  /\ pc = "play" => Running
  /\ pc = "close" /\ rc = 0 => Running /\ pipe = {game}
  /\ pc = "wait" => (Running /\ pipe = {game}) \/ (child = "saved" /\ Recorded(day, game))
  /\ pc \in {"fork", "play", "close", "wait"} =>
       \A k \in Game : k < game => Recorded(day, k)
  /\ pc = "settle" => \A k \in Game : Recorded(day, k)
  /\ \A d \in settled, k \in Game : Recorded(d, k)
  /\ settled \subseteq Day
  /\ pc = "settle" => game = 1

\* What is recorded stays so.
LEMMA RecordsStay ==
  ASSUME ReaderInv, EndOfFile, pipe # {}
  PROVE  /\ Recorded(day, game)'
         /\ \A d \in Day, k \in Game : Recorded(d, k) => record'[d][k] > 0
<1>1. record \in Book /\ day \in Day /\ game \in Game
  BY DEF ReaderInv, BookTypes
<1> DEFINE more == [record EXCEPT ![day][game] = @ + 1]
<1>2. record' = more
  BY DEF EndOfFile
<1>3. /\ more[day][game] = record[day][game] + 1
      /\ \A e \in Day, j \in Game : e # day \/ j # game => more[e][j] = record[e][j]
  BY <1>1 DEF Book
<1>4. \A d \in Day, k \in Game : record[d][k] \in Nat
  BY <1>1 DEF Book
<1>5. day' = day /\ game' = game
  BY DEF EndOfFile, program
<1> HIDE DEF more
<1> QED BY <1>1, <1>2, <1>3, <1>4, <1>5 DEF Recorded

LEMMA SettleStep ==
  ASSUME Season, ~ReaderFails
  PROVE  ReaderInv /\ BufferInv /\ SettleInv /\ [Next]_vars => SettleInv'
<1> SUFFICES ASSUME ReaderInv, BufferInv, SettleInv, [Next]_vars PROVE SettleInv'
  OBVIOUS
<1> USE DEF SettleInv, Running, Recorded
<1>1. CASE Fork
  BY <1>1 DEF Fork, table, books
<1>2. ASSUME NEW ok \in BOOLEAN, NEW used, NEW listed, Play(ok, used, listed)
      PROVE  SettleInv'
  <2>1. /\ pc = "play" /\ pc' = "close" /\ pipe' = Flushed(ok) /\ rc' \in Returned(ok)
        /\ UNCHANGED <<day, game, child, record, settled>>
    BY <1>2 DEF Play, books, table
  <2>2. rc' = 0 => pipe' = {game}
    BY <2>1 DEF Flushed, Returned, BufferInv
  <2> QED BY <2>1, <2>2
<1>3. CASE Broken
  BY <1>3 DEF Broken
<1>4. CASE Close
  BY <1>4 DEF Close, table, books, ReaderInv, BookTypes
<1>5. CASE Kill
  BY <1>5 DEF Kill, table, books
<1>6. CASE Wait
  <2>1. /\ pc = "wait" /\ Recorded(day, game)
        /\ UNCHANGED <<day, child, pipe, record, settled>>
    BY <1>6 DEF Wait, reader, table, books
  <2>2. \A k \in Game : k <= game => Recorded(day, k)
    BY <2>1 DEF ReaderInv, BookTypes, Game
  <2>3. game \in 1 .. Games /\ Games \in Nat
    BY DayAssumption DEF ReaderInv, BookTypes, Game
  <2>4. CASE game < Games
    <3>1. pc' = "fork" /\ game' = game + 1
      BY <1>6, <2>4 DEF Wait
    <3>2. \A k \in Game : k < game + 1 => k <= game
      BY <2>3 DEF Game
    <3> QED BY <2>1, <2>2, <3>1, <3>2
  <2>5. CASE ~(game < Games)
    <3>1. pc' = "settle" /\ game' = 1
      BY <1>6, <2>5 DEF Wait
    <3>2. \A k \in Game : k <= game
      BY <2>3, <2>5 DEF Game
    <3> QED BY <2>1, <2>2, <3>1, <3>2
  <2> QED BY <2>4, <2>5
<1>7. CASE SettleSeason
  <2>1. /\ pc = "settle" /\ pc' \in {"fork", "exit"} /\ settled' = settled \cup {day}
        /\ UNCHANGED <<game, record>>
    BY <1>7 DEF SettleSeason, books
  <2>2. game = 1 /\ \A k \in Game : ~(k < 1)
    BY <2>1 DEF Game
  <2>3. day \in Day
    BY DEF ReaderInv, BookTypes
  <2> QED BY <2>1, <2>2, <2>3
<1>8. CASE SettleDay
  BY <1>8 DEF SettleDay
<1>9. CASE ChildStart
  BY <1>9 DEF ChildStart, program, table, books
<1>10. CASE EndOfFile
  <2>1. /\ child = "reading" /\ writers = {}
        /\ UNCHANGED <<pc, day, game, rc, pipe, settled>>
        /\ pc \notin {"play", "close", "fork", "settle"}
    BY <1>10 DEF EndOfFile, program, table, ReaderInv
  <2>2. CASE pipe # {}
    <3>1. child' = "saved"
      BY <1>10, <2>2 DEF EndOfFile
    <3>2. /\ Recorded(day, game)'
          /\ \A d \in Day, k \in Game : Recorded(d, k) => record'[d][k] > 0
      BY <1>10, <2>2, RecordsStay
    <3>3. day \in Day /\ game \in Game
      BY DEF ReaderInv, BookTypes
    <3> QED BY <2>1, <3>1, <3>2, <3>3
  <2>3. CASE pipe = {}
    BY <1>10, <2>1, <2>3 DEF EndOfFile, books
  <2> QED BY <2>2, <2>3
<1>11. CASE ChildFails
  BY <1>11 DEF ChildFails
<1>12. CASE Launch
  BY <1>12 DEF Launch
<1>13. CASE Over \/ UNCHANGED vars
  BY <1>13 DEF Over, vars, program, reader, table, books
<1> QED BY <1>1, <1>2, <1>3, <1>4, <1>5, <1>6, <1>7, <1>8, <1>9, <1>10, <1>11, <1>12,
           <1>13 DEF Next, Program, Child

\* For seasons of any length, with readers that do not fail (not so with
\* readers that do, see the run season_status): a day is settled only when
\* each of its games was played out and is in the database.
THEOREM SettledDaysRecorded ==
  Season /\ ~ReaderFails => (Spec => []SettledDayIsRecorded)
<1> SUFFICES ASSUME Season, ~ReaderFails PROVE Spec => []SettledDayIsRecorded
  OBVIOUS
<1>1. Init => BufferInv
  BY DEF Init, BufferInv, Running
<1>2. Init => SettleInv
  BY DEF Init, SettleInv, Game, Running
<1>3. ReaderInv /\ SettleInv => SettledDayIsRecorded
  <2> SUFFICES ASSUME ReaderInv, SettleInv, NEW d \in settled, NEW k \in Game
               PROVE  finished[d][k] > 0 /\ record[d][k] > 0
    BY DEF SettledDayIsRecorded
  <2>1. d \in Day /\ record[d][k] > 0 /\ record[d][k] <= finished[d][k]
    BY DEF ReaderInv, SettleInv, Recorded
  <2>2. record[d][k] \in Nat /\ finished[d][k] \in Nat
    BY <2>1 DEF ReaderInv, BookTypes, Book
  <2> QED BY <2>1, <2>2
<1>4. Spec => []BufferInv
  BY <1>1, BufferStep, ReaderKept, PTL DEF Spec
<1>5. Spec => []SettleInv
  BY <1>2, <1>4, SettleStep, ReaderKept, PTL DEF Spec
<1> QED BY <1>3, <1>5, ReaderKept, PTL

-----------------------------------------------------------------------------
(* The list of tired pitchers. *)

\* A set of places of a list has a last one.
LEMMA LastThere ==
  ASSUME NEW n \in Nat, NEW S \in SUBSET (1 .. n), S # {}
  PROVE  Max(S) \in S /\ \A s \in S : s <= Max(S)
<1> DEFINE B == {b \in Nat : \A s \in S : s <= b}
           less == {ss \in Nat \X Nat : ss[1] < ss[2]}
<1>1. IsWellFoundedOn(less, Nat)
  BY NatLessThanWellFounded DEF OpToRel
<1>2. PICK b \in B : \A c \in B : ~ (<<c, b>> \in less)
  <2>1. B \subseteq Nat /\ n \in B
    OBVIOUS
  <2> HIDE DEF B, less
  <2> QED BY <1>1, <2>1, WFMin
<1>3. b \in S
  <2> SUFFICES ASSUME b \notin S PROVE FALSE
    OBVIOUS
  <2>1. b \in Nat /\ \A s \in S : s \in Nat \ {0} /\ s <= b - 1
    OBVIOUS
  <2>2. PICK s \in S : s \in Nat \ {0} /\ s <= b - 1
    BY <2>1
  <2>3. b - 1 \in Nat /\ b - 1 \in B /\ <<b - 1, b>> \in less
    BY <2>1, <2>2
  <2> QED BY <1>2, <2>3
<1>4. \E m \in S : \A s \in S : m >= s
  BY <1>3
<1> QED BY <1>4 DEF Max

\* SetToSeq lists a finite set, each member once.
LEMMA SetListed ==
  ASSUME NEW S, IsFiniteSet(S)
  PROVE  /\ SetToSeq(S) \in Seq(S)
         /\ \A x \in S : \E i \in DOMAIN SetToSeq(S) : SetToSeq(S)[i] = x
         /\ \A i, j \in DOMAIN SetToSeq(S) : SetToSeq(S)[i] = SetToSeq(S)[j] => i = j
<1>1. PICK n \in Nat : n = Cardinality(S)
  BY FS_CardinalityType
<1>2. PICK b \in Bijection(1 .. n, S) : TRUE
  BY <1>1, FS_CardinalityType DEF ExistsBijection
<1>3. \E f \in [1 .. n -> S] : IsInjective(f)
  BY <1>2 DEF Bijection, Injection
<1>4. SetToSeq(S) = CHOOSE f \in [1 .. n -> S] : IsInjective(f)
  BY <1>1 DEF SetToSeq
<1> DEFINE list == SetToSeq(S)
<1>5. list \in [1 .. n -> S] /\ IsInjective(list)
  BY <1>3, <1>4
<1> HIDE DEF list
<1>6. list \in Injection(1 .. n, S)
  BY <1>5 DEF Injection
<1>7. IsFiniteSet(1 .. n) /\ Cardinality(1 .. n) = n
  <2>1. IsFiniteSet(1 .. n) /\ Cardinality(1 .. n) = IF 1 > n THEN 0 ELSE n - 1 + 1
    BY <1>1, 1 \in Int, n \in Int, FS_Interval, Zenon
  <2> QED BY <2>1
<1>8. list \in Surjection(1 .. n, S)
  BY <1>1, <1>6, <1>7, FS_Injection
<1>9. list \in Seq(S) /\ DOMAIN list = 1 .. n
  BY <1>5
<1>10. \A x \in S : \E i \in 1 .. n : list[i] = x
  BY <1>8 DEF Surjection
<1> QED BY <1>5, <1>9, <1>10 DEF IsInjective, list

EntryType == [id : Pitcher, left : Nat]

\* A pitcher who is on the list has a last entry.
LEMMA EntriesLast ==
  ASSUME NEW list \in Seq(EntryType), NEW p, EntriesOf(p, list) # {}
  PROVE  /\ Max(EntriesOf(p, list)) \in EntriesOf(p, list)
         /\ Max(EntriesOf(p, list)) \in DOMAIN list
         /\ \A i \in EntriesOf(p, list) : i <= Max(EntriesOf(p, list))
<1>1. PICK n \in Nat : DOMAIN list = 1 .. n
  BY LenProperties
<1>2. EntriesOf(p, list) \in SUBSET (1 .. n)
  BY <1>1 DEF EntriesOf
<1> QED BY <1>1, <1>2, LastThere

\* A pitcher's row in the evening: the last entry for him, or the morning's.
LEMMA RowInEvening ==
  ASSUME NEW list \in Seq(EntryType), NEW left, NEW p \in Pitcher
  PROVE  \/ UpdateStamina(left, list)[p] = left[p] /\ EntriesOf(p, list) = {}
         \/ \E i \in DOMAIN list : list[i].id = p /\ UpdateStamina(left, list)[p] = list[i].left
<1>1. CASE EntriesOf(p, list) = {}
  BY <1>1 DEF UpdateStamina
<1>2. CASE EntriesOf(p, list) # {}
  <2>1. UpdateStamina(left, list)[p] = list[Max(EntriesOf(p, list))].left
    BY <1>2 DEF UpdateStamina
  <2>2. Max(EntriesOf(p, list)) \in DOMAIN list /\ list[Max(EntriesOf(p, list))].id = p
    BY <1>2, EntriesLast DEF EntriesOf
  <2> QED BY <2>1, <2>2
<1> QED BY <1>1, <1>2

\* The entries of a game go to the end of the list, and so replace those of
\* the games before.
LEMMA LastGameWins ==
  ASSUME NEW list \in Seq(EntryType), NEW new \in Seq(EntryType), NEW left, NEW p \in Pitcher,
         \A i, j \in DOMAIN new : new[i].id = new[j].id => i = j
  PROVE  /\ (\A i \in DOMAIN new : new[i].id # p) =>
              UpdateStamina(left, list \o new)[p] = UpdateStamina(left, list)[p]
         /\ \A i \in DOMAIN new : new[i].id = p =>
              UpdateStamina(left, list \o new)[p] = new[i].left
<1> DEFINE both == list \o new
<1>1. /\ both \in Seq(EntryType) /\ DOMAIN both = 1 .. (Len(list) + Len(new))
      /\ Len(list) \in Nat /\ Len(new) \in Nat
      /\ DOMAIN list = 1 .. Len(list) /\ DOMAIN new = 1 .. Len(new)
      /\ \A i \in 1 .. Len(list) : both[i] = list[i]
      /\ \A i \in 1 .. Len(new) : both[Len(list) + i] = new[i]
  BY ConcatProperties, LenProperties
<1>2. \A i \in DOMAIN both : i \notin DOMAIN list => i - Len(list) \in DOMAIN new
      /\ both[i] = new[i - Len(list)]
  BY <1>1
<1> HIDE DEF both
<1>3. ASSUME \A i \in DOMAIN new : new[i].id # p
      PROVE  UpdateStamina(left, both)[p] = UpdateStamina(left, list)[p]
  <2>1. EntriesOf(p, both) = EntriesOf(p, list)
    <3>1. \A i \in DOMAIN list : i \in DOMAIN both /\ both[i] = list[i]
      BY <1>1
    <3>2. \A i \in DOMAIN both : i \notin DOMAIN list => both[i].id # p
      BY <1>2, <1>3
    <3> QED BY <3>1, <3>2 DEF EntriesOf
  <2>2. CASE EntriesOf(p, list) = {}
    BY <2>1, <2>2 DEF UpdateStamina
  <2>3. CASE EntriesOf(p, list) # {}
    <3>1. Max(EntriesOf(p, list)) \in DOMAIN list
      BY <2>3, EntriesLast
    <3> QED BY <1>1, <2>1, <2>3, <3>1 DEF UpdateStamina
  <2> QED BY <2>2, <2>3
<1>4. ASSUME NEW i \in DOMAIN new, new[i].id = p
      PROVE  UpdateStamina(left, both)[p] = new[i].left
  <2> DEFINE k == Len(list) + i
  <2>1. k \in EntriesOf(p, both) /\ both[k] = new[i]
    BY <1>1, <1>4 DEF EntriesOf
  <2>2. \A j \in EntriesOf(p, both) : j <= k
    <3> TAKE j \in EntriesOf(p, both)
    <3>1. j \in DOMAIN both /\ both[j].id = p
      BY DEF EntriesOf
    <3>2. CASE j \in DOMAIN list
      BY <1>1, <3>2
    <3>3. CASE j \notin DOMAIN list
      <4>1. j - Len(list) \in DOMAIN new /\ new[j - Len(list)].id = p
        BY <1>2, <3>1, <3>3
      <4>2. j - Len(list) = i
        BY <1>4, <4>1
      <4> QED BY <1>1, <3>1, <4>2
    <3> QED BY <3>2, <3>3
  <2>3. /\ Max(EntriesOf(p, both)) \in EntriesOf(p, both)
        /\ \A j \in EntriesOf(p, both) : j <= Max(EntriesOf(p, both))
    BY <1>1, <2>1, EntriesLast
  <2>4. Max(EntriesOf(p, both)) \in Nat /\ k \in Nat
    BY <1>1, <2>3 DEF EntriesOf
  <2>5. Max(EntriesOf(p, both)) = k
    <3>1. Max(EntriesOf(p, both)) <= k /\ k <= Max(EntriesOf(p, both))
      BY <2>1, <2>2, <2>3
    <3> HIDE DEF k
    <3> QED BY <2>4, <3>1
  <2> QED BY <2>1, <2>5 DEF UpdateStamina
<1> QED BY <1>3, <1>4 DEF both

-----------------------------------------------------------------------------
(* Use and rest. *)

\* What is left of a pitcher in memory.
Left(p) == IF hash[p].tired THEN 0 ELSE hash[p].left
Working == pc \notin {"exit", "broken"}
SkillType == [left : Nat, tired : BOOLEAN]

\* Nobody has more left than in the morning, in memory or on the list; days
\* played one by one begin with what the table says.
StaffInv ==
  /\ hash \in [Pitcher -> SkillType]
  /\ tired_pitchers \in Seq(EntryType)
  /\ batters_left \in [Pitcher -> Nat] /\ fresh \in [Pitcher -> Nat]
  /\ \A p \in Pitcher : batters_left[p] <= MaxBatters[p] /\ fresh[p] <= MaxBatters[p]
  /\ \A i \in DOMAIN tired_pitchers :
       tired_pitchers[i].left <= MaxBatters[tired_pitchers[i].id]
  /\ Working => \A p \in Pitcher : Left(p) <= fresh[p]
  /\ ~Season => fresh = batters_left
  /\ ~Season /\ Working => \A i \in DOMAIN tired_pitchers :
                             tired_pitchers[i].left <= fresh[tired_pitchers[i].id]

\* A game leaves a pitcher it uses with fewer batters.
LEMMA UseTires ==
  ASSUME NEW p \in Pitcher, hash[p] \in SkillType, NEW skill \in AfterUse(p)
  PROVE  /\ skill \in SkillType
         /\ Entry(p, skill) \in EntryType /\ Entry(p, skill).id = p
         /\ Entry(p, skill).left = IF skill.tired THEN 0 ELSE skill.left
         /\ Entry(p, skill).left <= Left(p)
<1>1. Refill[p] \in Nat \ {0} /\ hash[p].left \in Nat /\ hash[p].tired \in BOOLEAN
  BY DayAssumption DEF SkillType
<1>2. CASE \E l \in 1 .. (hash[p].left - 1) : skill = [left |-> l, tired |-> hash[p].tired]
  BY <1>1, <1>2 DEF Entry, EntryType, SkillType, Left
<1>3. CASE \E l \in 1 .. Refill[p] : skill = [left |-> l, tired |-> TRUE]
  BY <1>1, <1>3 DEF Entry, EntryType, SkillType, Left
<1> QED BY <1>2, <1>3 DEF AfterUse

\* What a game does to the staff: those it used have fewer batters left than
\* before, the list gets an entry for some of them, for all when it is played
\* out, and nobody else is touched.
LEMMA GameTires ==
  ASSUME StaffInv, ReaderInv, NEW ok \in BOOLEAN, NEW used \in SUBSET PitchersOf[game],
         NEW listed \in SUBSET used, Play(ok, used, listed)
  PROVE  \E new \in Seq(EntryType) :
           /\ tired_pitchers' = tired_pitchers \o new
           /\ hash' \in [Pitcher -> SkillType]
           /\ \A i, j \in DOMAIN new : new[i].id = new[j].id => i = j
           /\ \A i \in DOMAIN new : new[i].left = Left(new[i].id)'
           /\ \A p \in Pitcher : Left(p)' <= Left(p)
           /\ ok => \A p \in Pitcher : (\A i \in DOMAIN new : new[i].id # p) => Left(p)' = Left(p)
<1>0. /\ used \subseteq Pitcher /\ IsFiniteSet(used)
      /\ listed \subseteq used /\ IsFiniteSet(listed)
      /\ ok => listed = used
  <2>1. used \subseteq Pitcher
    BY DayAssumption DEF ReaderInv, BookTypes
  <2> QED BY <2>1, DayAssumption, FS_Subset DEF Play
<1>1. PICK skill \in [used -> UNION {AfterUse(p) : p \in used}] :
       /\ \A p \in used : skill[p] \in AfterUse(p)
       /\ hash' = [p \in Pitcher |-> IF p \in used THEN skill[p] ELSE hash[p]]
       /\ tired_pitchers' =
            Appended(tired_pitchers, SetToSeq({Entry(p, skill[p]) : p \in listed}))
  BY DEF Play
<1> DEFINE entries == {Entry(p, skill[p]) : p \in listed}
           new == SetToSeq(entries)
<1>2. \A p \in used : /\ skill[p] \in SkillType
                      /\ Entry(p, skill[p]) \in EntryType /\ Entry(p, skill[p]).id = p
                      /\ Entry(p, skill[p]).left = IF skill[p].tired THEN 0 ELSE skill[p].left
                      /\ Entry(p, skill[p]).left <= Left(p)
  <2> TAKE p \in used
  <2>1. p \in Pitcher /\ hash[p] \in SkillType /\ skill[p] \in AfterUse(p)
    BY <1>0, <1>1 DEF StaffInv
  <2> QED BY <2>1, UseTires
<1>3. IsFiniteSet(entries)
  <2> DEFINE f == [p \in listed |-> Entry(p, skill[p])]
  <2>1. f \in Surjection(listed, entries)
    BY DEF Surjection
  <2>2. IsFiniteSet(listed)
    BY <1>0
  <2> HIDE DEF f, entries
  <2> QED BY <2>1, <2>2, FS_Surjection
<1>4. entries \subseteq EntryType
  BY <1>0, <1>2
<1>5. /\ new \in Seq(entries)
      /\ \A x \in entries : \E i \in DOMAIN new : new[i] = x
      /\ \A i, j \in DOMAIN new : new[i] = new[j] => i = j
  <2> HIDE DEF entries
  <2> QED BY <1>3, SetListed
<1>6. /\ hash' \in [Pitcher -> SkillType]
      /\ \A p \in used : Left(p)' = Entry(p, skill[p]).left
      /\ \A p \in Pitcher \ used : Left(p)' = Left(p)
  <2>1. hash \in [Pitcher -> SkillType]
    BY DEF StaffInv
  <2>2. \A p \in Pitcher : hash'[p] = IF p \in used THEN skill[p] ELSE hash[p]
    BY <1>1
  <2>3. hash' \in [Pitcher -> SkillType]
    BY <1>1, <1>2, <2>1
  <2>4. \A p \in used : Left(p)' = IF skill[p].tired THEN 0 ELSE skill[p].left
    BY <1>0, <2>2 DEF Left
  <2>5. \A p \in Pitcher \ used : Left(p)' = Left(p)
    BY <2>2 DEF Left
  <2> QED BY <1>2, <2>3, <2>4, <2>5
<1>7. \A p \in Pitcher : Left(p)' <= Left(p)
  <2> TAKE p \in Pitcher
  <2>1. CASE p \in used
    BY <1>2, <1>6, <2>1
  <2>2. CASE p \notin used
    <3>1. Left(p) \in Nat
      BY DEF Left, StaffInv, SkillType
    <3> QED BY <1>6, <2>2, <3>1
  <2> QED BY <2>1, <2>2
<1>8. \A i \in DOMAIN new : \E p \in listed : new[i] = Entry(p, skill[p])
  <2> SUFFICES ASSUME NEW i \in DOMAIN new PROVE new[i] \in entries
    OBVIOUS
  <2> HIDE DEF entries, new
  <2> QED BY <1>5, ElementOfSeq, LenProperties
<1>9. tired_pitchers' = tired_pitchers \o new
  BY <1>1 DEF Appended
<1>10. new \in Seq(EntryType)
  <2> HIDE DEF entries, new
  <2> QED BY <1>4, <1>5
<1>11. ok => \A p \in Pitcher : (\A i \in DOMAIN new : new[i].id # p) => Left(p)' = Left(p)
  <2> SUFFICES ASSUME ok, NEW p \in used PROVE \E i \in DOMAIN new : new[i].id = p
    BY <1>6
  <2>1. p \in listed
    BY <1>0
  <2>2. Entry(p, skill[p]) \in entries
    BY <2>1
  <2> HIDE DEF entries, new
  <2> QED BY <1>2, <1>5, <2>2
<1> HIDE DEF new, entries
<1>12. \A i \in DOMAIN new : new[i].left = Left(new[i].id)'
  BY <1>0, <1>2, <1>6, <1>8
<1>13. \A i, j \in DOMAIN new : new[i].id = new[j].id => i = j
  <2> TAKE i, j \in DOMAIN new
  <2>1. PICK p \in listed : new[i] = Entry(p, skill[p])
    BY <1>8
  <2>2. PICK q \in listed : new[j] = Entry(q, skill[q])
    BY <1>8
  <2> QED BY <1>0, <1>2, <1>5, <2>1, <2>2
<1> QED BY <1>6, <1>7, <1>9, <1>10, <1>11, <1>12, <1>13

\* divide_ceiling(n, 4) is DailyRest, and rest is between what was left and
\* what the pitcher can face.
LEMMA RestBounds ==
  ASSUME NEW p \in Pitcher, NEW left \in Nat, left <= MaxBatters[p]
  PROVE  /\ Rested(p, left) \in Nat
         /\ left <= Rested(p, left) /\ Rested(p, left) <= MaxBatters[p]
         /\ Rested(p, left) = Staff!Rested(p, left)
<1>1. MaxBatters[p] \in Nat
  BY DayAssumption
<1>2. PICK m \in Nat : m = left + DivideCeiling(MaxBatters[p], 4)
  BY <1>1 DEF DivideCeiling
<1>3. left <= m
  BY <1>1, <1>2 DEF DivideCeiling
<1>4. Rested(p, left) = Min({MaxBatters[p], m})
  BY <1>2 DEF Rested
<1>5. Min({MaxBatters[p], m}) = IF MaxBatters[p] <= m THEN MaxBatters[p] ELSE m
  BY <1>1 DEF Min
<1>6. Staff!Rested(p, left) = Rested(p, left)
  <2>1. DivideCeiling(MaxBatters[p], 4) = Staff!DailyRest(p)
    BY <1>1 DEF Staff!DailyRest, DivideCeiling
  <2> QED BY <2>1 DEF Staff!Rested, Rested, Staff!Min, Min
<1> QED BY <1>1, <1>3, <1>4, <1>5, <1>6

\* The evening rows are between nothing and what the pitcher can face; when the
\* day began with the table, they are at most what it began with.
LEMMA EveningRows ==
  ASSUME StaffInv, NEW p \in Pitcher
  PROVE  LET row == UpdateStamina(batters_left, tired_pitchers)[p]
         IN  /\ row \in Nat /\ row <= MaxBatters[p]
             /\ ~Season /\ Working => row <= fresh[p]
<1> DEFINE row == UpdateStamina(batters_left, tired_pitchers)[p]
<1>1. tired_pitchers \in Seq(EntryType)
  BY DEF StaffInv
<1>2. CASE row = batters_left[p]
  BY <1>2 DEF StaffInv
<1>3. CASE \E i \in DOMAIN tired_pitchers :
             tired_pitchers[i].id = p /\ row = tired_pitchers[i].left
  <2>1. PICK i \in DOMAIN tired_pitchers :
             tired_pitchers[i].id = p /\ row = tired_pitchers[i].left
    BY <1>3
  <2>2. tired_pitchers[i] \in EntryType
    BY <1>1, ElementOfSeq, LenProperties
  <2> HIDE DEF row
  <2>3. row \in Nat
    BY <2>1, <2>2 DEF EntryType
  <2>4. row <= MaxBatters[p] /\ (~Season /\ Working => row <= fresh[p])
    BY <2>1 DEF StaffInv
  <2> QED BY <2>3, <2>4 DEF row
<1> HIDE DEF row
<1>4. row = batters_left[p] \/ \E i \in DOMAIN tired_pitchers :
             tired_pitchers[i].id = p /\ row = tired_pitchers[i].left
  BY <1>1, RowInEvening DEF row
<1> QED BY <1>2, <1>3, <1>4 DEF row

\* The first morning.
LEMMA StaffStarts == Init => StaffInv
<1> SUFFICES ASSUME Init PROVE StaffInv
  OBVIOUS
<1>1. MaxBatters \in [Pitcher -> Nat]
  BY DayAssumption
<1>2. /\ hash = [p \in Pitcher |-> [left |-> MaxBatters[p], tired |-> FALSE]]
      /\ tired_pitchers = <<>> /\ batters_left = MaxBatters /\ fresh = MaxBatters
  BY DEF Init, Loaded
<1>3. hash \in [Pitcher -> SkillType]
  BY <1>1, <1>2 DEF SkillType
<1>4. \A p \in Pitcher : Left(p) = MaxBatters[p] /\ MaxBatters[p] \in Nat
  BY <1>1, <1>2 DEF Left
<1>5. tired_pitchers \in Seq(EntryType) /\ DOMAIN tired_pitchers = {}
  BY <1>2
<1> QED BY <1>1, <1>2, <1>3, <1>4, <1>5 DEF StaffInv

\* A game, played out or given up.
LEMMA StaffPlay ==
  ASSUME StaffInv, ReaderInv, NEW ok \in BOOLEAN, NEW used \in SUBSET PitchersOf[game],
         NEW listed \in SUBSET used, Play(ok, used, listed)
  PROVE  StaffInv'
<1>1. PICK new \in Seq(EntryType) :
           /\ tired_pitchers' = tired_pitchers \o new
           /\ hash' \in [Pitcher -> SkillType]
           /\ \A i \in DOMAIN new : new[i].left = Left(new[i].id)'
           /\ \A p \in Pitcher : Left(p)' <= Left(p)
  BY GameTires
<1>2. /\ batters_left' = batters_left /\ fresh' = fresh /\ Working /\ Working'
  BY DEF Play, table, Working
<1>3. \A p \in Pitcher : Left(p)' \in Nat /\ Left(p) \in Nat /\ fresh[p] \in Nat
                         /\ MaxBatters[p] \in Nat
  BY <1>1, DayAssumption DEF StaffInv, Left, SkillType
<1>4. \A p \in Pitcher : Left(p)' <= fresh[p] /\ Left(p)' <= MaxBatters[p]
  BY <1>1, <1>2, <1>3 DEF StaffInv
<1> DEFINE both == tired_pitchers \o new
<1>5. /\ tired_pitchers \in Seq(EntryType) /\ both \in Seq(EntryType)
      /\ Len(tired_pitchers) \in Nat /\ Len(new) \in Nat
      /\ DOMAIN tired_pitchers = 1 .. Len(tired_pitchers) /\ DOMAIN new = 1 .. Len(new)
      /\ DOMAIN both = 1 .. (Len(tired_pitchers) + Len(new))
      /\ \A i \in 1 .. Len(tired_pitchers) : both[i] = tired_pitchers[i]
      /\ \A i \in 1 .. Len(new) : both[Len(tired_pitchers) + i] = new[i]
  BY ConcatProperties, LenProperties DEF StaffInv
<1> HIDE DEF both
<1>6. \A i \in DOMAIN both :
        \/ i \in DOMAIN tired_pitchers /\ both[i] = tired_pitchers[i]
        \/ i - Len(tired_pitchers) \in DOMAIN new /\ both[i] = new[i - Len(tired_pitchers)]
  BY <1>5
<1>7. \A i \in DOMAIN new : new[i].id \in Pitcher
  <2> TAKE i \in DOMAIN new
  <2>1. new[i] \in EntryType
    BY <1>5, ElementOfSeq
  <2> QED BY <2>1 DEF EntryType
<1>8. ASSUME NEW i \in DOMAIN both
      PROVE  /\ both[i].left <= MaxBatters[both[i].id]
             /\ ~Season => both[i].left <= fresh[both[i].id]
  BY <1>1, <1>2, <1>4, <1>6, <1>7 DEF StaffInv
<1> QED BY <1>1, <1>2, <1>4, <1>5, <1>8 DEF StaffInv, both

\* Everything that happens keeps StaffInv: the evening rests what a game has
\* left, and a new start of the program reads what the evening wrote.
LEMMA StaffStep == ReaderInv /\ StaffInv /\ [Next]_vars => StaffInv'
<1> SUFFICES ASSUME ReaderInv, StaffInv, [Next]_vars PROVE StaffInv'
  OBVIOUS
<1>1. ASSUME UNCHANGED <<hash, tired_pitchers, batters_left, fresh>>, Working' => Working
      PROVE  StaffInv'
  BY <1>1 DEF StaffInv, Left
<1>2. CASE Fork \/ Broken \/ Close \/ Kill \/ Wait
  <2>1. UNCHANGED <<hash, tired_pitchers, batters_left, fresh>>
    BY <1>2 DEF Fork, Broken, Close, Kill, Wait, memory, table, history
  <2>2. Working' => Working
    BY <1>2 DEF Fork, Broken, Close, Kill, Wait, Working
  <2> QED BY <1>1, <2>1, <2>2
<1>3. ASSUME NEW ok \in BOOLEAN, NEW used \in SUBSET PitchersOf[game],
             NEW listed \in SUBSET used, Play(ok, used, listed)
      PROVE  StaffInv'
  BY <1>3, StaffPlay
<1>4. CASE SettleSeason
  <2> DEFINE row(p) == UpdateStamina(batters_left, tired_pitchers)[p]
  <2>1. /\ Season /\ Working /\ hash' = RestPitchersSpeed
        /\ fresh' = [p \in Pitcher |-> hash'[p].left]
        /\ batters_left' = UpdateStamina(batters_left, tired_pitchers)
        /\ tired_pitchers' = tired_pitchers
    BY <1>4 DEF SettleSeason, Working
  <2>2. \A p \in Pitcher : Left(p) \in Nat /\ Left(p) <= MaxBatters[p]
    BY <2>1, DayAssumption DEF StaffInv, Left, SkillType
  <2>3. hash' = [p \in Pitcher |-> [left |-> Rested(p, Left(p)), tired |-> FALSE]]
    BY <2>1 DEF RestPitchersSpeed, Left
  <2>4. \A p \in Pitcher : /\ Rested(p, Left(p)) \in Nat
                           /\ Rested(p, Left(p)) <= MaxBatters[p]
    BY <2>2, RestBounds
  <2>5. hash' \in [Pitcher -> SkillType]
    BY <2>3, <2>4 DEF SkillType
  <2>6. \A p \in Pitcher : /\ fresh'[p] = Rested(p, Left(p))
                           /\ Left(p)' = Rested(p, Left(p))
    BY <2>1, <2>3 DEF Left
  <2>7. fresh' \in [Pitcher -> Nat]
    BY <2>1, <2>3, <2>4
  <2>8. batters_left' \in [Pitcher -> Nat]
        /\ \A p \in Pitcher : batters_left'[p] <= MaxBatters[p]
    <3>1. \A p \in Pitcher : row(p) \in Nat /\ row(p) <= MaxBatters[p]
      BY EveningRows
    <3> QED BY <2>1, <3>1 DEF UpdateStamina
  <2>9. \A p \in Pitcher : Left(p)' <= fresh'[p] /\ fresh'[p] <= MaxBatters[p]
    BY <2>4, <2>6
  <2> QED BY <2>1, <2>5, <2>7, <2>8, <2>9 DEF StaffInv
<1>5. CASE SettleDay
  <2> DEFINE row(p) == UpdateStamina(batters_left, tired_pitchers)[p]
  <2>1. /\ ~Season /\ pc' = "exit" /\ hash' = hash /\ tired_pitchers' = tired_pitchers
        /\ batters_left' = RestPitchers(UpdateStamina(batters_left, tired_pitchers))
        /\ fresh' = batters_left'
    BY <1>5 DEF SettleDay, memory, Evening
  <2>2. \A p \in Pitcher : row(p) \in Nat /\ row(p) <= MaxBatters[p]
    BY EveningRows
  <2>3. \A p \in Pitcher : Rested(p, row(p)) \in Nat /\ Rested(p, row(p)) <= MaxBatters[p]
    BY <2>2, RestBounds
  <2>4. batters_left' = [p \in Pitcher |-> Rested(p, row(p))]
    BY <2>1 DEF RestPitchers
  <2> HIDE DEF row
  <2>5. batters_left' \in [Pitcher -> Nat]
        /\ \A p \in Pitcher : batters_left'[p] <= MaxBatters[p]
    BY <2>3, <2>4
  <2>6. ~Working'
    BY <2>1 DEF Working
  <2> QED BY <2>1, <2>5, <2>6 DEF StaffInv
<1>6. CASE Launch
  <2>1. /\ ~Season /\ UNCHANGED <<batters_left, fresh>> /\ tired_pitchers' = <<>>
        /\ hash' = [p \in Pitcher |-> [left |-> batters_left[p], tired |-> FALSE]]
    BY <1>6 DEF Launch, Loaded, table, history
  <2>2. hash' \in [Pitcher -> SkillType]
    BY <2>1 DEF StaffInv, SkillType
  <2>3. \A p \in Pitcher : Left(p)' = fresh[p]
    BY <2>1 DEF Left, StaffInv
  <2>4. tired_pitchers' \in Seq(EntryType) /\ DOMAIN tired_pitchers' = {}
    BY <2>1
  <2>5. \A p \in Pitcher : Left(p)' <= fresh'[p]
    BY <2>1, <2>3 DEF StaffInv
  <2> QED BY <2>1, <2>2, <2>4, <2>5 DEF StaffInv
<1>7. CASE ChildStart \/ EndOfFile \/ ChildFails
  <2>1. UNCHANGED <<hash, tired_pitchers, batters_left, fresh, pc>>
    BY <1>7 DEF ChildStart, EndOfFile, ChildFails, program, memory, table, history
  <2> QED BY <1>1, <2>1 DEF Working
<1>8. CASE Over \/ UNCHANGED vars
  <2>1. UNCHANGED <<hash, tired_pitchers, batters_left, fresh, pc>>
    BY <1>8 DEF Over, vars, program, memory, table, history
  <2> QED BY <1>1, <2>1 DEF Working
<1> QED BY <1>2, <1>3, <1>4, <1>5, <1>6, <1>7, <1>8 DEF Next, Program, Child

LEMMA StaffKept == Spec => []StaffInv
BY StaffStarts, StaffStep, ReaderKept, PTL DEF Spec

\* The staff in memory and the staff in the table are used and rested by the
\* same rules, for any pitchers, games and days, however days are broken off.
THEOREM StaffIsRested == Spec => RestsLikeStaff
<1>1. Init => Staff!RestInit
  BY DEF Init, Staff!RestInit
<1>2. ASSUME StaffInv, NEW f \in [Pitcher -> Nat],
             \A p \in Pitcher : f[p] <= fresh[p] /\ f[p] <= MaxBatters[p],
             fresh' = [p \in Pitcher |-> Rested(p, f[p])]
      PROVE  Staff!RestNext
  <2>1. f \in [Pitcher -> UNION {0 .. fresh[p] : p \in Pitcher}]
    <3>1. \A p \in Pitcher : f[p] \in 0 .. fresh[p]
      BY <1>2 DEF StaffInv
    <3> QED BY <3>1
  <2>2. fresh' = [p \in Pitcher |-> Staff!Rested(p, f[p])]
    <3>1. \A p \in Pitcher : Rested(p, f[p]) = Staff!Rested(p, f[p])
      BY <1>2, RestBounds
    <3> QED BY <1>2, <3>1
  <2>3. Staff!Day(f)
    BY <1>2, <2>2 DEF Staff!Day
  <2> QED BY <2>1, <2>3 DEF Staff!RestNext
<1>3. StaffInv /\ [Next]_vars => [Staff!RestNext]_fresh
  <2> SUFFICES ASSUME StaffInv, [Next]_vars PROVE Staff!RestNext \/ fresh' = fresh
    OBVIOUS
  <2>1. CASE SettleSeason
    <3> DEFINE f == [p \in Pitcher |-> Left(p)]
    <3>1. hash' = RestPitchersSpeed /\ Working
          /\ fresh' = [p \in Pitcher |-> hash'[p].left]
      BY <2>1 DEF SettleSeason, Working
    <3>2. fresh' = [p \in Pitcher |-> Rested(p, f[p])]
      BY <3>1 DEF RestPitchersSpeed, Left
    <3>3. \A p \in Pitcher : f[p] \in Nat /\ f[p] <= fresh[p] /\ f[p] <= MaxBatters[p]
      BY <3>1, DayAssumption DEF StaffInv, Left, SkillType
    <3>4. f \in [Pitcher -> Nat]
      BY <3>3
    <3> HIDE DEF f
    <3> QED BY <1>2, <3>2, <3>3, <3>4
  <2>2. CASE SettleDay
    <3> DEFINE f == UpdateStamina(batters_left, tired_pitchers)
    <3>1. ~Season /\ Working /\ fresh' = RestPitchers(f)
      BY <2>2 DEF SettleDay, Evening, Working
    <3>2. fresh' = [p \in Pitcher |-> Rested(p, f[p])]
      BY <3>1 DEF RestPitchers
    <3>3. \A p \in Pitcher : f[p] \in Nat /\ f[p] <= fresh[p] /\ f[p] <= MaxBatters[p]
      BY <3>1, EveningRows
    <3>4. f \in [Pitcher -> Nat]
      BY <3>3 DEF UpdateStamina
    <3> HIDE DEF f
    <3> QED BY <1>2, <3>2, <3>3, <3>4
  <2>3. CASE ~SettleSeason /\ ~SettleDay
    BY <2>3 DEF Next, Program, Child, Fork, Play, Broken, Close, Kill, Wait, ChildStart,
                EndOfFile, ChildFails, Launch, Over, vars, history
  <2> QED BY <2>1, <2>2, <2>3
<1> QED BY <1>1, <1>3, StaffKept, PTL DEF Spec, RestsLikeStaff, Staff!RestSpec

\* The types no invariant above needs.
PlainTypes ==
  /\ launches \in Nat
  /\ writers \subseteq {"parent", "child"}
  /\ pipe \subseteq Game /\ buffer \subseteq Game
  /\ settled \subseteq Day

LEMMA PlainStep == ReaderInv /\ PlainTypes /\ [Next]_vars => PlainTypes'
<1> SUFFICES ASSUME ReaderInv, PlainTypes, [Next]_vars PROVE PlainTypes'
  OBVIOUS
<1> USE DEF PlainTypes
<1>0. day \in Day /\ game \in Game
  BY DEF ReaderInv, BookTypes
<1>1. CASE Fork \/ Broken \/ Close \/ Kill \/ Wait
  BY <1>1 DEF Fork, Broken, Close, Kill, Wait, memory, table, reader
<1>2. ASSUME NEW ok \in BOOLEAN, NEW used, NEW listed, Play(ok, used, listed)
      PROVE  PlainTypes'
  BY <1>0, <1>2 DEF Play, table, Flushed, LeftBehind
<1>3. CASE SettleSeason \/ SettleDay
  BY <1>0, <1>3 DEF SettleSeason, SettleDay, reader, memory
<1>4. CASE Launch
  BY <1>4 DEF Launch, table
<1>5. CASE ChildStart \/ EndOfFile \/ ChildFails
  BY <1>5 DEF ChildStart, EndOfFile, ChildFails, Inherited, program, memory, table
<1>6. CASE Over \/ UNCHANGED vars
  BY <1>6 DEF Over, vars, program, reader, memory, table
<1> QED BY <1>1, <1>2, <1>3, <1>4, <1>5, <1>6 DEF Next, Program, Child

\* The variables keep their types; a pitcher in the table has between none and
\* all of the batters he can face.
THEOREM DayTypes == Spec => []TypeOK
<1>1. Init => PlainTypes
  BY DEF Init, PlainTypes
<1>2. ReaderInv /\ StaffInv /\ PlainTypes => TypeOK
  <2> SUFFICES ASSUME ReaderInv, StaffInv, PlainTypes PROVE TypeOK
    OBVIOUS
  <2>1. \A i \in DOMAIN tired_pitchers : tired_pitchers[i] \in [id : Pitcher, left : Nat]
    <3> TAKE i \in DOMAIN tired_pitchers
    <3>1. tired_pitchers \in Seq(EntryType)
      BY DEF StaffInv
    <3> QED BY <3>1, ElementOfSeq, LenProperties DEF EntryType
  <2>2. \A p \in Pitcher : batters_left[p] \in 0 .. MaxBatters[p]
    BY DayAssumption DEF StaffInv
  <2>3. {record, stats, finished} \subseteq [Day -> [Game -> Nat]]
    BY DEF ReaderInv, BookTypes, Book
  <2>4. hash \in [Pitcher -> [left : Nat, tired : BOOLEAN]]
    BY DEF StaffInv, SkillType
  <2> QED BY <2>1, <2>2, <2>3, <2>4 DEF TypeOK, PlainTypes, ReaderInv, BookTypes
<1>3. Spec => []PlainTypes
  BY <1>1, PlainStep, ReaderKept, PTL DEF Spec
<1> QED BY <1>2, <1>3, ReaderKept, StaffKept, PTL

-----------------------------------------------------------------------------
(* With --season the table is written every evening, and rested never. *)

\* The rows of this evening, if it were evening now.
Evened == UpdateStamina(batters_left, tired_pitchers)

\* Whatever the day has brought so far, the table will not promise more than
\* there is; when it is morning it does not now.
LagInv ==
  /\ pc \in {"fork", "play", "wait", "settle"} \/ (pc = "close" /\ rc = 0) =>
       \A p \in Pitcher : Evened[p] <= Left(p)
  /\ pc = "fork" /\ game = 1 => \A p \in Pitcher : batters_left[p] <= hash[p].left

LEMMA LagStarts == Init => LagInv
<1> SUFFICES ASSUME Init PROVE LagInv
  OBVIOUS
<1>1. MaxBatters \in [Pitcher -> Nat]
  BY DayAssumption
<1>2. /\ hash = [p \in Pitcher |-> [left |-> MaxBatters[p], tired |-> FALSE]]
      /\ tired_pitchers = <<>> /\ batters_left = MaxBatters
  BY DEF Init, Loaded
<1>3. \A p \in Pitcher : Evened[p] = MaxBatters[p]
  BY <1>2 DEF Evened, UpdateStamina, EntriesOf
<1>4. \A p \in Pitcher : Left(p) = MaxBatters[p] /\ hash[p].left = MaxBatters[p]
  BY <1>1, <1>2 DEF Left
<1> QED BY <1>1, <1>2, <1>3, <1>4 DEF LagInv

\* A game takes from the table, in the evening, what it takes from memory; rest
\* adds to memory alone.
LEMMA LagStep ==
  ASSUME Season
  PROVE  ReaderInv /\ StaffInv /\ LagInv /\ [Next]_vars => LagInv'
<1> SUFFICES ASSUME ReaderInv, StaffInv, LagInv, [Next]_vars PROVE LagInv'
  OBVIOUS
<1>1. CASE Fork \/ Broken \/ Close \/ Kill
  BY <1>1 DEF Fork, Broken, Close, Kill, memory, table, LagInv, Evened, Left
<1>2. CASE Wait
  <2>1. pc = "wait" /\ UNCHANGED <<hash, tired_pitchers, batters_left>>
    BY <1>2 DEF Wait, memory, table
  <2>2. pc' = "fork" => game' # 1
    BY <1>2 DEF Wait, ReaderInv, BookTypes, Game
  <2>3. \A p \in Pitcher : (Evened[p] <= Left(p))'
    BY <2>1 DEF LagInv, Evened, Left
  <2> QED BY <2>2, <2>3 DEF LagInv
<1>3. ASSUME NEW ok \in BOOLEAN, NEW used \in SUBSET PitchersOf[game],
             NEW listed \in SUBSET used, Play(ok, used, listed)
      PROVE  LagInv'
  <2>1. PICK new \in Seq(EntryType) :
           /\ tired_pitchers' = tired_pitchers \o new
           /\ hash' \in [Pitcher -> SkillType]
           /\ \A i, j \in DOMAIN new : new[i].id = new[j].id => i = j
           /\ \A i \in DOMAIN new : new[i].left = Left(new[i].id)'
           /\ ok => \A p \in Pitcher : (\A i \in DOMAIN new : new[i].id # p) => Left(p)' = Left(p)
    BY <1>3, GameTires
  <2>2. /\ pc = "play" /\ pc' = "close" /\ batters_left' = batters_left
        /\ rc' = 0 => ok
    BY <1>3 DEF Play, table, Returned
  <2>3. ASSUME ok, NEW p \in Pitcher PROVE (Evened[p] <= Left(p))'
    <3>1. tired_pitchers \in Seq(EntryType)
      BY DEF StaffInv
    <3>2. Evened' = UpdateStamina(batters_left, tired_pitchers \o new)
      BY <2>1, <2>2 DEF Evened
    <3>3. CASE \A i \in DOMAIN new : new[i].id # p
      <4>1. Evened'[p] = Evened[p]
        BY <2>1, <3>1, <3>2, <3>3, LastGameWins DEF Evened
      <4> QED BY <2>1, <2>2, <2>3, <3>3, <4>1 DEF LagInv
    <3>4. CASE \E i \in DOMAIN new : new[i].id = p
      <4>1. PICK i \in DOMAIN new : new[i].id = p
        BY <3>4
      <4>2. Evened'[p] = new[i].left
        BY <2>1, <3>1, <3>2, <4>1, LastGameWins
      <4>3. Left(p)' \in Nat /\ new[i].left = Left(p)'
        BY <2>1, <4>1 DEF Left, SkillType
      <4> QED BY <4>2, <4>3
    <3> QED BY <3>3, <3>4
  <2> QED BY <2>2, <2>3 DEF LagInv
<1>4. CASE SettleSeason
  <2>1. /\ pc = "settle" /\ pc' \in {"fork", "exit"} /\ hash' = RestPitchersSpeed
        /\ batters_left' = Evened /\ tired_pitchers' = tired_pitchers
    BY <1>4 DEF SettleSeason, Evened
  <2>2. \A p \in Pitcher : /\ Left(p) \in Nat /\ Left(p) <= MaxBatters[p]
                           /\ Evened[p] <= Left(p) /\ Evened[p] \in Nat
    <3> TAKE p \in Pitcher
    <3>1. Left(p) \in Nat /\ Left(p) <= MaxBatters[p]
      BY <2>1, DayAssumption DEF StaffInv, Left, SkillType, Working
    <3>2. Evened[p] \in Nat
      BY EveningRows DEF Evened
    <3> QED BY <2>1, <3>1, <3>2 DEF LagInv
  <2>3. \A p \in Pitcher : hash'[p].left = Rested(p, Left(p)) /\ ~hash'[p].tired
    BY <2>1 DEF RestPitchersSpeed, Left
  <2>4. \A p \in Pitcher : Rested(p, Left(p)) \in Nat /\ Left(p) <= Rested(p, Left(p))
    BY <2>2, RestBounds
  <2>5. \A p \in Pitcher : /\ batters_left'[p] <= hash'[p].left
                           /\ batters_left'[p] <= Left(p)'
    BY <2>1, <2>2, <2>3, <2>4 DEF Left
  <2>6. \A p \in Pitcher : Evened'[p] = Evened[p]
    BY <2>1 DEF Evened, UpdateStamina
  <2> QED BY <2>1, <2>5, <2>6 DEF LagInv
<1>5. CASE SettleDay \/ Launch
  BY <1>5 DEF SettleDay, Launch
<1>6. CASE ChildStart \/ EndOfFile \/ ChildFails \/ Over \/ UNCHANGED vars
  <2>1. UNCHANGED <<pc, game, rc, hash, tired_pitchers, batters_left>>
    BY <1>6 DEF ChildStart, EndOfFile, ChildFails, Over, vars, program, memory, table
  <2> QED BY <2>1 DEF LagInv, Evened, Left
<1> QED BY <1>1, <1>2, <1>3, <1>4, <1>5, <1>6 DEF Next, Program, Child

\* Each morning of a season t_skill_pitcher promises no pitcher more batters
\* than the hash has for him, though the list of tired pitchers is never
\* emptied and every evening writes all of it once more.
THEOREM TableAlwaysLags == Spec => []TableLagsMemory
<1>1. CASE Season
  <2>1. LagInv => TableLagsMemory
    BY DEF LagInv, TableLagsMemory
  <2>2. ReaderInv /\ StaffInv /\ LagInv /\ [Next]_vars => LagInv'
    BY <1>1, LagStep
  <2> QED BY <2>1, <2>2, LagStarts, ReaderKept, StaffKept, PTL DEF Spec
<1>2. CASE ~Season
  <2>1. TRUE => TableLagsMemory
    BY <1>2 DEF TableLagsMemory
  <2> QED BY <2>1, PTL
<1> QED BY <1>1, <1>2

-----------------------------------------------------------------------------
(* The button of fbs-gtk. *)

Playing == pc \in {"fork", "play", "close", "kill", "wait"}

\* The first active team has decided one game of each day before this one,
\* none of a later day, and its game of this day only when it has been on.
ButtonInv ==
  /\ pc \in {"settle", "exit", "broken"} => ~Running
  /\ \A d \in Day : d < day => record[d][FirstGame] = 1
  /\ \A d \in Day, k \in Game : d > day => record[d][k] = 0
  /\ record[day][FirstGame] \in {0, 1}
  /\ Playing /\ (game < FirstGame \/ (game = FirstGame /\ (pc = "fork" \/ Running)))
       => record[day][FirstGame] = 0

\* So the games it has decided tell the day.
LEMMA DayCounted ==
  ASSUME ReaderInv, ButtonInv
  PROVE  NextDayNumber = day + record[day][FirstGame]
<1> DEFINE m == day - 1 + record[day][FirstGame]
           f == [d \in 1 .. m |-> <<d, 1>>]
<1>1. day \in Day /\ FirstGame \in Game /\ LastDay \in Nat /\ day \in Nat \ {0}
      /\ record[day][FirstGame] \in {0, 1}
  BY DayAssumption DEF ReaderInv, BookTypes, ButtonInv, Day
<1>2. m \in Nat
  BY <1>1
<1>3. \A d \in Day : record[d][FirstGame] = IF d <= m THEN 1 ELSE 0
  <2> TAKE d \in Day
  <2>1. d \in Nat
    BY DEF Day
  <2>2. CASE d < day
    BY <1>1, <2>1, <2>2 DEF ButtonInv
  <2>3. CASE d = day
    BY <1>1, <2>1, <2>3
  <2>4. CASE d > day
    BY <1>1, <2>1, <2>4 DEF ButtonInv
  <2> QED BY <1>1, <2>1, <2>2, <2>3, <2>4
<1>4. 1 .. m \subseteq Day /\ \A d \in Day : d <= m <=> d \in 1 .. m
  BY <1>1, DayAssumption DEF Day
<1> HIDE DEF m
<1>5. Decided = {<<d, 1>> : d \in 1 .. m}
  <2>1. 1 .. 1 = {1} /\ 1 .. 0 = {}
    OBVIOUS
  <2>2. \A d \in 1 .. m : {d} \X (1 .. record[d][FirstGame]) = {<<d, 1>>}
    <3> TAKE d \in 1 .. m
    <3>1. 1 .. record[d][FirstGame] = {1}
      BY <1>3, <1>4, <2>1
    <3> QED BY <3>1
  <2>3. \A d \in Day \ (1 .. m) : {d} \X (1 .. record[d][FirstGame]) = {}
    <3> TAKE d \in Day \ (1 .. m)
    <3>1. 1 .. record[d][FirstGame] = {}
      BY <1>3, <1>4, <2>1
    <3> QED BY <3>1
  <2>4. ASSUME NEW x \in Decided PROVE \E d \in 1 .. m : x = <<d, 1>>
    <3>1. PICK d \in Day : x \in {d} \X (1 .. record[d][FirstGame])
      BY DEF Decided
    <3>2. d \in 1 .. m
      BY <2>3, <3>1
    <3> QED BY <2>2, <3>1, <3>2
  <2>5. ASSUME NEW d \in 1 .. m PROVE <<d, 1>> \in Decided
    <3>1. <<d, 1>> \in {d} \X (1 .. record[d][FirstGame]) /\ d \in Day
      BY <1>4, <2>2
    <3> QED BY <3>1 DEF Decided
  <2> QED BY <2>4, <2>5
<1>6. f \in Bijection(1 .. m, Decided)
  BY <1>5 DEF Bijection, Injection, Surjection, IsInjective
<1>7. IsFiniteSet(1 .. m) /\ Cardinality(1 .. m) = m
  <2>1. IsFiniteSet(1 .. m) /\ Cardinality(1 .. m) = IF 1 > m THEN 0 ELSE m - 1 + 1
    BY <1>2, 1 \in Int, m \in Int, FS_Interval, Zenon
  <2> QED BY <1>2, <2>1
<1>8. Cardinality(Decided) = m
  BY <1>6, <1>7, FS_Bijection DEF ExistsBijection
<1> QED BY <1>1, <1>8 DEF NextDayNumber, m

\* A day adds one game of the first active team at most, and the next start
\* moves on exactly when it did.
LEMMA ButtonStep == ReaderInv /\ ButtonInv /\ ~Season /\ [Next]_vars => ButtonInv'
<1> SUFFICES ASSUME ReaderInv, ButtonInv, ~Season, [Next]_vars PROVE ButtonInv'
  OBVIOUS
<1> USE DEF ButtonInv, Running, Playing
<1>0. /\ day \in Day /\ game \in Game /\ FirstGame \in Game
      /\ record \in Book
      /\ \A g \in Game : g \in Nat
      /\ \A d \in Day : d \in Nat
  BY DayAssumption DEF ReaderInv, BookTypes, Game, Day
<1>1. CASE Fork
  BY <1>0, <1>1 DEF Fork, books
<1>2. ASSUME NEW ok \in BOOLEAN, NEW used, NEW listed, Play(ok, used, listed)
      PROVE  ButtonInv'
  BY <1>0, <1>2 DEF Play, books
<1>3. CASE Broken
  BY <1>0, <1>3 DEF Broken, books
<1>4. CASE Close
  BY <1>0, <1>4 DEF Close, books
<1>5. CASE Kill
  BY <1>0, <1>5 DEF Kill, books
<1>6. CASE Wait
  <2>1. pc = "wait" /\ ~Running /\ UNCHANGED <<day, child, record>>
    BY <1>6 DEF Wait, reader, books
  <2>2. \/ game' = game + 1 /\ pc' = "fork"
        \/ pc' = "settle"
    BY <1>6 DEF Wait
  <2>3. game < game + 1 /\ (game + 1 <= FirstGame => game < FirstGame)
    BY <1>0
  <2>4. game + 1 < FirstGame \/ game + 1 = FirstGame => game < FirstGame
    BY <1>0
  <2>5. CASE pc' = "settle"
    BY <2>1, <2>5
  <2>6. CASE game' = game + 1 /\ pc' = "fork"
    <3>1. game' < FirstGame \/ game' = FirstGame => record[day][FirstGame] = 0
      BY <2>1, <2>4, <2>6
    <3> QED BY <2>1, <2>6, <3>1
  <2> QED BY <2>2, <2>5, <2>6
<1>7. CASE SettleSeason \/ SettleDay
  BY <1>7 DEF SettleSeason, SettleDay, reader, books
<1>8. CASE ChildStart
  BY <1>0, <1>8 DEF ChildStart, program, books
<1>9. CASE EndOfFile
  <2>1. /\ child = "reading" /\ ~Running'
        /\ UNCHANGED <<pc, day, game>>
        /\ Playing /\ pc # "fork"
    BY <1>9 DEF EndOfFile, program, ReaderInv, BookTypes
  <2>2. CASE pipe # {}
    <3> DEFINE more == [record EXCEPT ![day][game] = @ + 1]
    <3>1. record' = more
      BY <1>9, <2>2 DEF EndOfFile
    <3>2. /\ more[day][game] = record[day][game] + 1
          /\ \A e \in Day, j \in Game :
               e # day \/ j # game => more[e][j] = record[e][j]
      <4>1. record \in Book /\ day \in Day /\ game \in Game
        BY <1>0
      <4> QED BY <4>1 DEF Book
    <3> HIDE DEF more
    <3>3. \A d \in Day : d # day => \A k \in Game : more[d][k] = record[d][k]
      BY <1>0, <3>2
    <3>4. \A d \in Day : (d < day \/ d > day) => d # day
      BY <1>0
    <3>5. CASE game = FirstGame
      <4>1. record[day][FirstGame] = 0
        BY <2>1, <3>5
      <4>2. more[day][FirstGame] = 1
        BY <3>2, <3>5, <4>1
      <4>3. ~(game < FirstGame)
        BY <1>0, <3>5
      <4> QED BY <1>0, <2>1, <3>1, <3>3, <3>4, <4>2, <4>3
    <3>6. CASE game # FirstGame
      <4>1. more[day][FirstGame] = record[day][FirstGame]
        BY <1>0, <3>2, <3>6
      <4> QED BY <1>0, <2>1, <3>1, <3>3, <3>4, <4>1
    <3> QED BY <3>5, <3>6
  <2>3. CASE pipe = {}
    BY <1>9, <2>1, <2>3 DEF EndOfFile, books
  <2> QED BY <2>2, <2>3
<1>10. CASE ChildFails
  BY <1>0, <1>10 DEF ChildFails, program, books
<1>11. CASE Launch
  <2>1. /\ day' = NextDayNumber /\ day' \in Day /\ game' = 1 /\ pc' = "fork"
        /\ child' = "none" /\ record' = record
    BY <1>11 DEF Launch, books
  <2>2. day' = day + record[day][FirstGame]
    BY <2>1, DayCounted
  <2>3. CASE record[day][FirstGame] = 0
    <3>1. day' = day
      BY <1>0, <2>2, <2>3
    <3> QED BY <2>1, <2>3, <3>1
  <2>4. CASE record[day][FirstGame] = 1
    <3>1. day' = day + 1
      BY <2>2, <2>4
    <3>2. \A d \in Day : /\ d < day' => d < day \/ d = day
                         /\ d >= day' => d > day
      BY <1>0, <3>1
    <3>3. \A k \in Game : record[day'][k] = 0
      BY <1>0, <2>1, <3>1, <3>2
    <3> QED BY <1>0, <2>1, <2>4, <3>2, <3>3
  <2> QED BY <2>3, <2>4
<1>12. CASE Over \/ UNCHANGED vars
  BY <1>12 DEF Over, vars, program, reader, books
<1> QED BY <1>1, <1>2, <1>3, <1>4, <1>5, <1>6, <1>7, <1>8, <1>9, <1>10, <1>11, <1>12
        DEF Next, Program, Child

\* As long as each day is in the database whole or not at all, the day the
\* button starts is one of which nothing is: whatever was broken off, and for
\* any place of the first active team's game in the day.
THEOREM ButtonStartsNewDays == Spec => NextDayIsNew
<1>1. CASE Season
  <2>1. [Next]_vars => [Launch /\ (\A d \in Day : Whole(d)) => \A k \in Game : record[day'][k] = 0]_vars
    BY <1>1 DEF Launch
  <2> QED BY <2>1, PTL DEF Spec, NextDayIsNew
<1>2. CASE ~Season
  <2>1. Init => ButtonInv
    <3> SUFFICES ASSUME Init PROVE ButtonInv
      OBVIOUS
    <3>1. /\ day = 1 /\ 1 \in Day /\ FirstGame \in Game /\ pc = "fork"
          /\ record = [d \in Day |-> [k \in Game |-> 0]]
      BY DayAssumption DEF Init, Day
    <3>2. \A d \in Day : ~(d < 1)
      BY DEF Day
    <3> QED BY <3>1, <3>2 DEF ButtonInv, Running
  <2>2. ReaderInv /\ ButtonInv /\ Launch /\ (\A d \in Day : Whole(d))
          => \A k \in Game : record[day'][k] = 0
    <3> SUFFICES ASSUME ReaderInv, ButtonInv, Launch, \A d \in Day : Whole(d),
                        NEW k \in Game
                 PROVE  record[day'][k] = 0
      OBVIOUS
    <3>1. day' = day + record[day][FirstGame] /\ day' \in Day
      BY DayCounted DEF Launch
    <3>2. day \in Nat /\ day \in Day /\ FirstGame \in Game
      BY DayAssumption DEF ReaderInv, BookTypes, Day
    <3>3. CASE record[day][FirstGame] = 0
      <4>1. day' = day
        BY <3>1, <3>2, <3>3
      <4> QED BY <3>2, <3>3, <4>1 DEF Whole
    <3>4. CASE record[day][FirstGame] = 1
      <4>1. day' > day
        BY <3>1, <3>2, <3>4
      <4> QED BY <3>1, <4>1 DEF ButtonInv
    <3> QED BY <3>3, <3>4 DEF ButtonInv
  <2>3. ReaderInv /\ ButtonInv /\ [Next]_vars => ButtonInv'
    BY <1>2, ButtonStep
  <2> QED BY <2>1, <2>2, <2>3, ReaderKept, PTL DEF Spec, NextDayIsNew
<1> QED BY <1>1, <1>2
=============================================================================
