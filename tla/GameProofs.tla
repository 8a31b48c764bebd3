----------------------------- MODULE GameProofs -----------------------------
(***************************************************************************)
(* Theorems about Game, for every lineup, number of innings and endurance. *)
(***************************************************************************)
EXTENDS Game, SequenceTheorems, FiniteSetTheorems, TLAPS

(***************************************************************************)
(* Lemmas about the operators.                                             *)
(***************************************************************************)

\* What Linked_List_remove_value leaves: the other entries, in their order.
LEMMA PenWithoutProperties ==
  ASSUME NEW S, NEW s \in Seq(S), NEW k \in 1 .. Len(s)
  PROVE  /\ PenWithout(s, k) \in Seq(S)
         /\ DOMAIN PenWithout(s, k) = 1 .. (Len(s) - 1)
         /\ \A j \in 1 .. (Len(s) - 1) :
              PenWithout(s, k)[j] = IF j < k THEN s[j] ELSE s[j + 1]
<1> DEFINE a == SubSeq(s, 1, k - 1)
           b == SubSeq(s, k + 1, Len(s))
<1>0. Len(s) \in Nat /\ k \in Int /\ \A i \in 1 .. Len(s) : s[i] \in S
  BY LenProperties, ElementOfSeq
<1>1. /\ a \in Seq(S) /\ Len(a) = k - 1
      /\ \A i \in 1 .. k - 1 : a[i] = s[i]
  <2>1. \A i \in 1 .. (k - 1) : s[i] \in S
    BY <1>0
  <2>2. /\ a \in Seq(S)
        /\ Len(a) = IF 1 <= k - 1 THEN k - 1 - 1 + 1 ELSE 0
        /\ \A i \in 1 .. k - 1 - 1 + 1 : a[i] = s[1 + i - 1]
    BY <1>0, <2>1, SubSeqProperties, k - 1 \in Int, 1 \in Int
  <2> QED
    BY <1>0, <2>2
<1>2. /\ b \in Seq(S) /\ Len(b) = Len(s) - k
      /\ \A i \in 1 .. (Len(s) - k) : b[i] = s[k + i]
  <2>1. \A i \in (k + 1) .. Len(s) : s[i] \in S
    BY <1>0
  <2>2. /\ b \in Seq(S)
        /\ Len(b) = IF k + 1 <= Len(s) THEN Len(s) - (k + 1) + 1 ELSE 0
        /\ \A i \in 1 .. Len(s) - (k + 1) + 1 : b[i] = s[k + 1 + i - 1]
    BY <1>0, <2>1, SubSeqProperties, k + 1 \in Int
  <2> QED
    BY <1>0, <2>2
<1>3. PenWithout(s, k) = a \o b
  BY DEF PenWithout, RemoveAt
<1> HIDE DEF a, b
<1>4. /\ a \o b \in Seq(S)
      /\ Len(a \o b) = Len(a) + Len(b)
      /\ \A i \in 1 .. Len(a) + Len(b) :
           (a \o b)[i] = IF i <= Len(a) THEN a[i] ELSE b[i - Len(a)]
  BY <1>1, <1>2, ConcatProperties
<1>5. DOMAIN (a \o b) = 1 .. (Len(s) - 1)
  BY <1>0, <1>1, <1>2, <1>4, LenProperties
<1>6. ASSUME NEW j \in 1 .. (Len(s) - 1)
      PROVE  (a \o b)[j] = IF j < k THEN s[j] ELSE s[j + 1]
  <2>1. j \in 1 .. Len(a) + Len(b)
    BY <1>0, <1>1, <1>2
  <2>2. CASE j < k
    BY <2>1, <2>2, <1>0, <1>1, <1>4
  <2>3. CASE ~(j < k)
    <3>1. (a \o b)[j] = b[j - (k - 1)]
      BY <2>1, <2>3, <1>0, <1>1, <1>4
    <3>2. j - (k - 1) \in 1 .. (Len(s) - k) /\ k + (j - (k - 1)) = j + 1
      BY <2>3, <1>0
    <3> QED
      BY <2>3, <3>1, <3>2, <1>2
  <2> QED
    BY <2>2, <2>3
<1> QED
  BY <1>3, <1>4, <1>5, <1>6

\* A nonempty set of corners has a least element.
LEMMA MinCorner ==
  ASSUME NEW C \in SUBSET Corner, C # {}
  PROVE  Min(C) \in C
<1>1. \E x \in C : \A y \in C : x <= y
  <2>1. CASE 0 \in C
    BY <2>1 DEF Corner
  <2>2. CASE 0 \notin C /\ 1 \in C
    BY <2>2 DEF Corner
  <2>3. CASE 0 \notin C /\ 1 \notin C /\ 2 \in C
    BY <2>3 DEF Corner
  <2>4. CASE 0 \notin C /\ 1 \notin C /\ 2 \notin C
    <3>1. \A x \in C : x = 3
      BY <2>4 DEF Corner
    <3> QED
      BY <3>1
  <2> QED
    BY <2>1, <2>2, <2>3, <2>4
<1> QED
  BY <1>1 DEF Min

\* Wherever the runners are sent, a base holds a player or nobody.
LEMMA BasesAfterType ==
  ASSUME NEW to, NEW bases \in [Base -> Player \cup {Nobody}],
         NEW batter \in Player \cup {Nobody}
  PROVE  BasesAfter(to, bases, batter) \in [Base -> Player \cup {Nobody}]
<1> SUFFICES ASSUME NEW b \in Base, Arrivals(to, bases, b) # {}
             PROVE  WhoIs(Min(Arrivals(to, bases, b)), bases, batter)
                      \in Player \cup {Nobody}
  BY DEF BasesAfter
<1>1. Arrivals(to, bases, b) \in SUBSET Corner
  BY DEF Arrivals, Manned, Occupied, Base, Corner
<1>2. Min(Arrivals(to, bases, b)) \in Corner
  BY <1>1, MinCorner
<1> QED
  BY <1>2 DEF WhoIs, Corner, Base

\* The runs of a play are a natural number.
LEMMA RunsOnType ==
  ASSUME NEW to, NEW bases
  PROVE  RunsOn(to, bases) \in Nat
<1>1. IsFiniteSet(0 .. 3)
  BY FS_Interval, 0 \in Int, 3 \in Int
<1>2. Arrivals(to, bases, HomePlate) \subseteq 0 .. 3
  BY DEF Arrivals, Manned, Occupied, Base
<1>3. IsFiniteSet(Arrivals(to, bases, HomePlate))
  BY <1>1, <1>2, FS_Subset
<1> QED
  BY <1>3, FS_CardinalityType DEF RunsOn

-----------------------------------------------------------------------------
(***************************************************************************)
(* The inductive invariant behind TypeOK, CardsInOrder and                 *)
(* BatterFacesMound.  A substitution replaces the pitcher of a sound card  *)
(* by a reliever of the bullpen, which needs that no reliever waits in a   *)
(* bullpen and stands on a card (a starter may do both, but never comes    *)
(* in); and the local pitcher is the man on the mound from the moment a    *)
(* half begins until its last out.                                         *)
(***************************************************************************)
CardsKept ==
  /\ Complete(Card0) => SoundCard(Card0)
  /\ pc \in {"top", "bat", "over"} => Complete(Card0)

MoundKept == HalfGoesOn => pitcher = defense[Fielding][Mound]

IInv == TypeOK /\ CardsKept /\ MoundKept

\* What the invariant says of the two pitchers while the game is on.
LEMMA MoundFacts ==
  ASSUME IInv, pc \in {"top", "bat", "over"}
  PROVE  /\ SoundCard(Card0)
         /\ Fielding \in Team /\ team_hitting \in Team
         /\ Mound \in Slot
         /\ \A t \in Team : defense[t][Mound] \in Pitcher
         /\ pc = "top" => Current = defense[Fielding][Mound]
         /\ pc = "bat" => pitcher \in Pitcher
<1>1. SoundCard(Card0)
  BY DEF IInv, CardsKept
<1>2. Fielding \in Team /\ team_hitting \in Team
  BY DEF IInv, TypeOK, Fielding, Other, Team, HOME_TEAM, AWAY_TEAM
<1>3. Mound \in Slot
  BY NumberAssumption DEF Mound, Slot
<1>4. \A t \in Team : defense[t][Mound] \in Pitcher
  BY <1>1 DEF SoundCard, Card0
<1>5. pc = "top" => Current = defense[Fielding][Mound]
  BY DEF IInv, MoundKept, HalfGoesOn, Current
<1>6. pc = "bat" => pitcher \in Pitcher
  BY <1>2, <1>4 DEF IInv, MoundKept, HalfGoesOn
<1> QED
  BY <1>1, <1>2, <1>3, <1>4, <1>5, <1>6

\* The entry of a pitcher is typed.
LEMMA EntryType ==
  ASSUME TypeOK, NEW p \in Pitcher
  PROVE  Entry(p) \in [id : Pitcher, left : Nat]
  BY DEF TypeOK, Entry

\* tire_pitcher leaves numbers of the right kind.
LEMMA TireType ==
  ASSUME TypeOK, pitcher \in Pitcher, Tire
  PROVE  batters_left' \in [Pitcher -> Nat] /\ stamina' \in [Pitcher -> Int]
<1>1. batters_left[pitcher] \in Nat /\ stamina[pitcher] \in Int
  BY DEF TypeOK
<1>2. Refill[pitcher] \in Nat
  BY PlayerAssumption
<1>3. LeftAfter \in Nat
  BY <1>1, <1>2 DEF LeftAfter, Spent
<1>4. StaminaAfter \in Int
  BY <1>1 DEF StaminaAfter
<1> QED
  BY <1>3, <1>4 DEF TypeOK, Tire

\* The invariant holds before the lineups are verified.
LEMMA InitIInv == Init => IInv
<1> SUFFICES ASSUME Init PROVE IInv
  OBVIOUS
<1>1. PICK c \in Card : offense = c.offense /\ defense = c.defense
                                          /\ bullpen = c.bullpen
  BY DEF Init
<1>2. c \in CardType /\ (Complete(c) => SoundCard(c))
  BY CardAssumption
<1>3. /\ offense \in [Team -> [Slot -> Player \cup {Nobody}]]
      /\ defense \in [Team -> [Slot -> Player \cup {Nobody}]]
      /\ bullpen \in [Team -> Seq(Pitcher)]
  BY <1>1, <1>2 DEF CardType
<1>4. Card0 = c
  BY <1>1, <1>2 DEF Card0, CardType
<1>5. TypeOK
  <2>1. stamina \in [Pitcher -> Int] /\ batters_left \in [Pitcher -> Nat]
    BY PlayerAssumption DEF Init
  <2>2. tired_pitchers \in Seq([id : Pitcher, left : Nat])
    BY EmptySeq DEF Init
  <2>3. base_runners \in [Base -> Player \cup {Nobody}]
    BY DEF Init, EmptyBases
  <2>4. /\ runs \in [Team -> Nat] /\ pitcher_runs \in [Team -> Nat]
        /\ order_at_bat \in [Team -> Slot]
    BY NumberAssumption DEF Init, Slot
  <2>5. outs \in 0 .. (OutsPerHalf - 1)
    BY NumberAssumption DEF Init
  <2>6. /\ inning \in Nat \ {0} /\ team_hitting \in Team
        /\ pc \in {"start", "top", "bat", "over", "aborted"}
        /\ pitcher \in Pitcher \cup {Nobody}
    BY DEF Init, Team
  <2>7. inning_over \in BOOLEAN
    BY DEF Init
  <2> QED
    BY <1>3, <2>1, <2>2, <2>3, <2>4, <2>5, <2>6, <2>7 DEF TypeOK
<1>6. CardsKept /\ MoundKept
  BY <1>2, <1>4 DEF CardsKept, MoundKept, HalfGoesOn, Init
<1> QED
  BY <1>5, <1>6 DEF IInv

\* An action that leaves the cards alone keeps CardsKept, if it starts only
\* complete games.
LEMMA SameCards ==
  ASSUME CardsKept, UNCHANGED cards,
         pc' \in {"top", "bat", "over"} =>
           pc \in {"top", "bat", "over"} \/ Complete(Card0)
  PROVE  CardsKept'
<1>1. Card0' = Card0
  BY DEF cards, Card0
<1> QED
  BY <1>1 DEF CardsKept

\* verify_lineups and the first UPDATE_PITCHER keep the invariant.
LEMMA StartIInv == ASSUME IInv, StartGame PROVE IInv'
<1>1. SoundCard(Card0) /\ Complete(Card0)
  BY DEF IInv, CardsKept, StartGame
<1>2. Fielding \in Team
  BY DEF IInv, TypeOK, Fielding, Other, Team, HOME_TEAM, AWAY_TEAM
<1>3. defense[Fielding][Mound] \in Pitcher
  BY <1>1, <1>2 DEF SoundCard, Card0
<1>4. TypeOK'
  BY <1>3 DEF IInv, TypeOK, StartGame, clock, cards, skills
<1>5. CardsKept'
  BY <1>1, SameCards DEF IInv, StartGame
<1>6. MoundKept'
  BY DEF StartGame, MoundKept, HalfGoesOn, Fielding, cards, clock
<1> QED
  BY <1>4, <1>5, <1>6 DEF IInv

\* A rejected lineup keeps the invariant.
LEMMA RejectIInv == ASSUME IInv, RejectLineups PROVE IInv'
<1>1. TypeOK'
  BY DEF IInv, TypeOK, RejectLineups, clock, cards, skills
<1>2. CardsKept'
  BY SameCards DEF IInv, RejectLineups
<1>3. MoundKept'
  BY DEF RejectLineups, MoundKept, HalfGoesOn
<1> QED
  BY <1>1, <1>2, <1>3 DEF IInv

\* An iteration that leaves the pitcher in keeps the invariant.
LEMMA KeepIInv == ASSUME IInv, KeepPitcher PROVE IInv'
<1>0. pc = "top" /\ pc' = "bat"
  BY DEF KeepPitcher
<1>1. pitcher' = defense[Fielding][Mound] /\ pitcher' \in Pitcher
  BY <1>0, MoundFacts DEF KeepPitcher
<1>2. base_runners' \in [Base -> Player \cup {Nobody}]
  BY DEF IInv, TypeOK, KeepPitcher, NextHalf, EmptyBases
<1>3. TypeOK'
  BY <1>0, <1>1, <1>2 DEF IInv, TypeOK, KeepPitcher, clock, cards, skills
<1>4. CardsKept'
  BY <1>0, SameCards DEF IInv, KeepPitcher
<1>5. MoundKept'
  BY <1>1 DEF KeepPitcher, MoundKept, Fielding, cards, clock
<1> QED
  BY <1>3, <1>4, <1>5 DEF IInv

\* A game given up for an exhausted pitcher keeps the invariant.
LEMMA AbortIInv ==
  ASSUME IInv, NEW type, NEW sentHome, NEW extraBase,
         AbortGame(type, sentHome, extraBase)
  PROVE  IInv'
<1>0. pc = "bat" /\ pc' = "aborted"
  BY DEF AbortGame
<1>1. pitcher \in Pitcher
  BY <1>0, MoundFacts
<1>2. base_runners' \in [Base -> Player \cup {Nobody}]
  <2>1. Hitter \in Player \cup {Nobody}
    BY DEF IInv, TypeOK, Hitter
  <2> QED
    BY <2>1, BasesAfterType DEF IInv, TypeOK, AbortGame, Advance
<1>3. batters_left' \in [Pitcher -> Nat] /\ stamina' \in [Pitcher -> Int]
  BY <1>1, TireType DEF IInv, AbortGame
<1>4. TypeOK'
  BY <1>0, <1>2, <1>3 DEF IInv, TypeOK, AbortGame, clock, cards
<1>5. CardsKept'
  BY <1>0, SameCards DEF IInv, AbortGame
<1>6. MoundKept'
  BY <1>0 DEF MoundKept, HalfGoesOn
<1> QED
  BY <1>4, <1>5, <1>6 DEF IInv

\* The end of the game keeps the invariant.
LEMMA EndIInv == ASSUME IInv, EndGame PROVE IInv'
<1>0. pc = "top" /\ pc' = "over"
  BY DEF EndGame
<1>1. tired_pitchers' \in Seq([id : Pitcher, left : Nat])
  <2>1. /\ defense[HOME_TEAM][Mound] \in Pitcher
        /\ defense[AWAY_TEAM][Mound] \in Pitcher
    BY <1>0, MoundFacts DEF Team
  <2>2. /\ Entry(defense[HOME_TEAM][Mound]) \in [id : Pitcher, left : Nat]
        /\ Entry(defense[AWAY_TEAM][Mound]) \in [id : Pitcher, left : Nat]
    BY <2>1, EntryType DEF IInv
  <2> QED
    BY <2>2, AppendProperties DEF IInv, TypeOK, EndGame, FinalList
<1>2. TypeOK'
  BY <1>0, <1>1 DEF IInv, TypeOK, EndGame, clock, cards, skills
<1>3. CardsKept'
  BY <1>0, SameCards DEF IInv, EndGame
<1>4. MoundKept'
  BY <1>0 DEF MoundKept, HalfGoesOn
<1> QED
  BY <1>2, <1>3, <1>4 DEF IInv

\* The card after a change: the k-th man of the bullpen stands where the
\* pitcher stood.
Substituted(card, f, i, k) ==
  [offense |-> [card.offense EXCEPT ![f][i] = card.bullpen[f][k]],
   defense |-> [card.defense EXCEPT ![f][Mound] = card.bullpen[f][k]],
   bullpen |-> [card.bullpen EXCEPT ![f] = PenWithout(@, k)]]

\* A substitution by a reliever keeps a sound card sound.
LEMMA SubstitutionIsSound ==
  ASSUME NEW card \in CardType, Complete(card), SoundCard(card),
         NEW f \in Team, NEW i \in Slot, NEW k \in DOMAIN card.bullpen[f],
         card.bullpen[f][k] \in Reliever,
         card.offense[f][i] = card.defense[f][Mound]
  PROVE  /\ Substituted(card, f, i, k) \in CardType
         /\ Complete(Substituted(card, f, i, k))
         /\ SoundCard(Substituted(card, f, i, k))
         /\ \A t \in Team, j \in Slot :
              Substituted(card, f, i, k).offense[t][j]
                \in {card.bullpen[f][k], card.offense[t][j]} \ {card.defense[f][Mound]}
         /\ \A t \in Team : ToSet(Substituted(card, f, i, k).bullpen[t])
                              \subseteq ToSet(card.bullpen[t])
<1> DEFINE new == Substituted(card, f, i, k)
           pen == card.bullpen[f]
           sub == pen[k]
<1>1. /\ card.offense \in [Team -> [Slot -> Player \cup {Nobody}]]
      /\ card.defense \in [Team -> [Slot -> Player \cup {Nobody}]]
      /\ card.bullpen \in [Team -> Seq(Pitcher)]
  BY DEF CardType
<1>2. /\ pen \in Seq(Pitcher) /\ Len(pen) \in Nat
      /\ DOMAIN pen = 1 .. Len(pen)
  BY <1>1, LenProperties
<1>3. sub \in Pitcher /\ sub \in Player /\ sub # Nobody
  BY <1>2, PlayerAssumption, ElementOfSeq
<1>4. /\ PenWithout(pen, k) \in Seq(Pitcher)
      /\ DOMAIN PenWithout(pen, k) = 1 .. (Len(pen) - 1)
      /\ \A j \in 1 .. (Len(pen) - 1) :
           PenWithout(pen, k)[j] = IF j < k THEN pen[j] ELSE pen[j + 1]
  BY <1>2, PenWithoutProperties
<1>5. Mound \in Slot
  BY NumberAssumption DEF Mound, Slot
<1>6. /\ new.offense = [card.offense EXCEPT ![f][i] = sub]
      /\ new.defense = [card.defense EXCEPT ![f][Mound] = sub]
      /\ new.bullpen = [card.bullpen EXCEPT ![f] = PenWithout(pen, k)]
  BY DEF Substituted
<1>7. /\ \A t \in Team, j \in Slot :
           new.offense[t][j] = IF t = f /\ j = i THEN sub ELSE card.offense[t][j]
      /\ \A t \in Team, j \in Slot :
           new.defense[t][j] = IF t = f /\ j = Mound THEN sub ELSE card.defense[t][j]
      /\ \A t \in Team :
           new.bullpen[t] = IF t = f THEN PenWithout(pen, k) ELSE card.bullpen[t]
  BY <1>1, <1>5, <1>6
\* Nobody leaves a bullpen but the substitute.
<1>8. /\ \A t \in Team : ToSet(new.bullpen[t]) \subseteq ToSet(card.bullpen[t])
      /\ sub \notin ToSet(new.bullpen[f])
      /\ IsInjective(new.bullpen[f])
  <2>1. \A j \in 1 .. (Len(pen) - 1) :
          \E l \in 1 .. Len(pen) : /\ PenWithout(pen, k)[j] = pen[l] /\ l # k
                                  /\ l = IF j < k THEN j ELSE j + 1
    <3> TAKE j \in 1 .. (Len(pen) - 1)
    <3>1. CASE j < k
      <4>1. j \in 1 .. Len(pen) /\ j # k
        BY <3>1, <1>2
      <4> QED
        BY <3>1, <4>1, <1>4
    <3>2. CASE ~(j < k)
      <4>1. j + 1 \in 1 .. Len(pen) /\ j + 1 # k
        BY <3>2, <1>2
      <4> QED
        BY <3>2, <4>1, <1>4
    <3> QED
      BY <3>1, <3>2
  <2>2. \A a, b \in 1 .. Len(pen) : pen[a] = pen[b] => a = b
    BY <1>2 DEF SoundCard, IsInjective
  <2>6. \A x \in ToSet(PenWithout(pen, k)) :
          \E l \in 1 .. Len(pen) : x = pen[l] /\ l # k
    <3> TAKE x \in ToSet(PenWithout(pen, k))
    <3>1. PICK j \in 1 .. (Len(pen) - 1) : x = PenWithout(pen, k)[j]
      BY <1>4 DEF ToSet
    <3> QED
      BY <3>1, <2>1
  <2>3. ToSet(PenWithout(pen, k)) \subseteq ToSet(pen)
    BY <2>6, <1>2 DEF ToSet
  <2>4. sub \notin ToSet(PenWithout(pen, k))
    <3> SUFFICES ASSUME sub \in ToSet(PenWithout(pen, k)) PROVE FALSE
      OBVIOUS
    <3>1. PICK l \in 1 .. Len(pen) : sub = pen[l] /\ l # k
      BY <2>6
    <3> QED
      BY <3>1, <2>2, <1>2
  <2>5. IsInjective(PenWithout(pen, k))
    <3> SUFFICES ASSUME NEW a \in 1 .. (Len(pen) - 1), NEW b \in 1 .. (Len(pen) - 1),
                        PenWithout(pen, k)[a] = PenWithout(pen, k)[b]
                 PROVE  a = b
      BY <1>4 DEF IsInjective
    <3>1. PICK x \in 1 .. Len(pen) : /\ PenWithout(pen, k)[a] = pen[x]
                                     /\ x = IF a < k THEN a ELSE a + 1
      BY <2>1
    <3>2. PICK y \in 1 .. Len(pen) : /\ PenWithout(pen, k)[b] = pen[y]
                                     /\ y = IF b < k THEN b ELSE b + 1
      BY <2>1
    <3>3. x = y
      BY <3>1, <3>2, <2>2
    <3> QED
      BY <3>1, <3>2, <3>3, <1>2
  <2> QED
    BY <2>3, <2>4, <2>5, <1>7
<1>9. new \in CardType
  BY <1>1, <1>3, <1>4, <1>6 DEF CardType, Substituted
<1>10. Complete(new)
  BY <1>3, <1>7 DEF Complete
<1>11. \A t \in Team : /\ new.defense[t][Mound] \in Pitcher
                        /\ \E j \in Slot : new.offense[t][j] = new.defense[t][Mound]
                        /\ IsInjective(new.bullpen[t])
  <2> TAKE t \in Team
  <2>1. CASE t = f
    BY <2>1, <1>3, <1>5, <1>7, <1>8
  <2>2. CASE t # f
    BY <2>2, <1>5, <1>7 DEF SoundCard
  <2> QED
    BY <2>1, <2>2
<1>12. sub \in Reliever /\ \A t \in Team, j \in Slot : card.offense[t][j] # sub
  BY DEF SoundCard
<1>13. \A t, u \in Team, j, l \in Slot :
         new.offense[t][j] = new.offense[u][l] => t = u /\ j = l
  BY <1>7, <1>12 DEF SoundCard
<1>14. \A t, u \in Team : \A j \in Slot, l \in DOMAIN new.bullpen[u] :
         new.offense[t][j] = new.bullpen[u][l] => new.offense[t][j] \notin Reliever
  <2> SUFFICES ASSUME NEW t \in Team, NEW u \in Team, NEW j \in Slot,
                      new.offense[t][j] \in Reliever
               PROVE  new.offense[t][j] \notin ToSet(new.bullpen[u])
    BY DEF ToSet
  <2>1. card.offense[t][j] \in Reliever => card.offense[t][j] \notin ToSet(card.bullpen[u])
    BY DEF SoundCard, ToSet
  <2>2. CASE t = f /\ j = i
    <3>1. new.offense[t][j] = sub /\ sub \in ToSet(card.bullpen[f])
      BY <2>2, <1>7 DEF ToSet
    <3>2. u # f => sub \notin ToSet(card.bullpen[u])
      BY <3>1 DEF SoundCard
    <3> QED
      BY <3>1, <3>2, <1>8
  <2>3. CASE ~(t = f /\ j = i)
    BY <2>1, <2>3, <1>7, <1>8
  <2> QED
    BY <2>2, <2>3
<1>15. \A t, u \in Team :
         t # u => ToSet(new.bullpen[t]) \cap ToSet(new.bullpen[u]) = {}
  BY <1>8 DEF SoundCard
<1>16. SoundCard(new)
  BY <1>11, <1>13, <1>14, <1>15 DEF SoundCard
<1>17. \A t \in Team, j \in Slot :
         new.offense[t][j] \in {sub, card.offense[t][j]} \ {card.defense[f][Mound]}
  <2> TAKE t \in Team, j \in Slot
  <2>1. CASE t = f /\ j = i
    BY <2>1, <1>7, <1>12
  <2>2. CASE ~(t = f /\ j = i)
    BY <2>2, <1>7 DEF SoundCard
  <2> QED
    BY <2>1, <2>2
<1> QED
  BY <1>8, <1>9, <1>10, <1>16, <1>17

\* A pitching change is a substitution on the card.
LEMMA ChangeIsSubstitution ==
  ASSUME IInv, ChangePitcher
  PROVE  \E i \in Slot, k \in DOMAIN bullpen[Fielding] :
           /\ offense[Fielding][i] = defense[Fielding][Mound]
           /\ bullpen[Fielding][k] \in Reliever
           /\ Card0' = Substituted(Card0, Fielding, i, k)
           /\ pitcher' = bullpen[Fielding][k]
<1>1. PICK k \in First(Warm(Fielding)),
           i \in First(SlotsOf(Fielding, defense[Fielding][Mound])) :
        /\ offense' = [offense EXCEPT ![Fielding][i] = bullpen[Fielding][k]]
        /\ defense' = [defense EXCEPT ![Fielding][Mound] = bullpen[Fielding][k]]
        /\ bullpen' = [bullpen EXCEPT ![Fielding] = PenWithout(@, k)]
        /\ pitcher' = bullpen[Fielding][k]
  BY DEF ChangePitcher
<1>2. k \in DOMAIN bullpen[Fielding] /\ bullpen[Fielding][k] \in Reliever
  BY DEF First, Warm
<1>3. i \in Slot /\ offense[Fielding][i] = defense[Fielding][Mound]
  BY DEF First, SlotsOf
<1>4. Card0' = Substituted(Card0, Fielding, i, k)
  BY <1>1 DEF Card0, Substituted
<1> QED
  BY <1>1, <1>2, <1>3, <1>4

\* sub_pitcher keeps the invariant.
LEMMA ChangeIInv == ASSUME IInv, ChangePitcher PROVE IInv'
<1>0. pc = "top" /\ pc' = "bat"
  BY DEF ChangePitcher
<1>1. PICK i \in Slot, k \in DOMAIN bullpen[Fielding] :
        /\ offense[Fielding][i] = defense[Fielding][Mound]
        /\ bullpen[Fielding][k] \in Reliever
        /\ Card0' = Substituted(Card0, Fielding, i, k)
        /\ pitcher' = bullpen[Fielding][k]
  BY ChangeIsSubstitution
<1>2. /\ SoundCard(Card0) /\ Fielding \in Team /\ Mound \in Slot
      /\ Current \in Pitcher
  BY <1>0, MoundFacts
<1>3. Complete(Card0)
  BY <1>0 DEF IInv, CardsKept
<1>4. Card0 \in CardType
  BY DEF IInv, TypeOK, Card0, CardType
<1>5. Card0' \in CardType /\ Complete(Card0') /\ SoundCard(Card0')
  <2>1. /\ Card0.offense = offense /\ Card0.defense = defense
        /\ Card0.bullpen = bullpen
    BY DEF Card0
  <2> QED
    BY <1>1, <1>2, <1>3, <1>4, <2>1, SubstitutionIsSound
<1>6. /\ offense' \in [Team -> [Slot -> Player \cup {Nobody}]]
      /\ defense' \in [Team -> [Slot -> Player \cup {Nobody}]]
      /\ bullpen' \in [Team -> Seq(Pitcher)]
  BY <1>5 DEF Card0, CardType
<1>7. pitcher' = defense'[Fielding][Mound] /\ pitcher' \in Pitcher
  <2>1. defense' = [defense EXCEPT ![Fielding][Mound] = pitcher']
    BY <1>1 DEF Card0, Substituted
  <2>2. pitcher' = defense'[Fielding][Mound]
    BY <1>2, <2>1 DEF IInv, TypeOK
  <2> QED
    BY <2>2, <1>2, <1>5 DEF SoundCard, Card0
<1>8. tired_pitchers' \in Seq([id : Pitcher, left : Nat])
  BY <1>2, EntryType, AppendProperties DEF ChangePitcher, IInv, TypeOK
<1>9. base_runners' \in [Base -> Player \cup {Nobody}]
  BY DEF IInv, TypeOK, ChangePitcher, NextHalf, EmptyBases
<1>10. pitcher_runs' \in [Team -> Nat]
  BY DEF IInv, TypeOK, ChangePitcher
<1>11. TypeOK'
  BY <1>0, <1>6, <1>7, <1>8, <1>9, <1>10
     DEF IInv, TypeOK, ChangePitcher, clock, skills
<1>12. CardsKept'
  BY <1>5 DEF CardsKept
<1>13. MoundKept'
  BY <1>7 DEF ChangePitcher, MoundKept, Fielding, clock
<1> QED
  BY <1>11, <1>12, <1>13 DEF IInv

\* A plate appearance keeps the invariant.
LEMMA AppearanceIInv ==
  ASSUME IInv, NEW type \in ResultType, NEW sentHome, NEW extraBase,
         PlateAppearance(type, sentHome, extraBase)
  PROVE  IInv'
<1> DEFINE scored == RunsOn(Destination(type, base_runners, sentHome, extraBase),
                            base_runners)
           o == outs + OutsOn(type)
<1>0. pc = "bat" /\ pc' = "top"
  BY DEF PlateAppearance
<1>1. pitcher \in Pitcher /\ Fielding \in Team /\ team_hitting \in Team
  BY <1>0, MoundFacts
<1>2. scored \in Nat
  BY RunsOnType
<1>3. base_runners' \in [Base -> Player \cup {Nobody}]
  <2>1. Hitter \in Player \cup {Nobody}
    BY DEF IInv, TypeOK, Hitter
  <2> QED
    BY <2>1, BasesAfterType DEF IInv, TypeOK, PlateAppearance, Advance
<1>4. batters_left' \in [Pitcher -> Nat] /\ stamina' \in [Pitcher -> Int]
  BY <1>1, TireType DEF IInv, PlateAppearance
<1>5. order_at_bat' \in [Team -> Slot]
  <2>1. order_at_bat[team_hitting] \in Slot
    BY <1>1 DEF IInv, TypeOK
  <2>2. NextInOrder(order_at_bat[team_hitting]) \in Slot
    BY <2>1, NumberAssumption DEF NextInOrder, Slot
  <2> QED
    BY <2>2 DEF IInv, TypeOK, PlateAppearance
<1>6. runs' \in [Team -> Nat] /\ pitcher_runs' \in [Team -> Nat]
  <2>1. /\ runs[team_hitting] + scored \in Nat
        /\ pitcher_runs[Fielding] + scored \in Nat
    BY <1>1, <1>2 DEF IInv, TypeOK
  <2>2. /\ runs' = [runs EXCEPT ![team_hitting] = runs[team_hitting] + scored]
        /\ pitcher_runs' = [pitcher_runs EXCEPT ![Fielding] =
                              pitcher_runs[Fielding] + scored]
    BY DEF PlateAppearance
  <2> HIDE DEF scored
  <2> QED
    BY <2>1, <2>2 DEF IInv, TypeOK
<1>7. /\ outs' \in 0 .. (OutsPerHalf - 1)
      /\ inning' \in Nat \ {0}
      /\ team_hitting' \in Team
  <2>1. outs \in 0 .. (OutsPerHalf - 1) /\ inning \in Nat \ {0}
    BY DEF IInv, TypeOK
  <2>2. OutsOn(type) \in {0, 1}
    BY DEF OutsOn
  <2>3. CASE o # OutsPerHalf /\ outs' = o
             /\ UNCHANGED <<inning, team_hitting, inning_over>>
    BY <2>1, <2>2, <2>3, <1>1, NumberAssumption
  <2>4. CASE /\ o = OutsPerHalf /\ outs' = 0
             /\ team_hitting' = Other(team_hitting)
             /\ inning' = IF team_hitting = HOME_TEAM THEN inning + 1 ELSE inning
    BY <2>1, <2>4, <1>1, NumberAssumption DEF Other, Team, HOME_TEAM, AWAY_TEAM
  <2> QED
    BY <2>3, <2>4 DEF PlateAppearance, CountOuts
<1>8. inning_over' \in BOOLEAN
  BY DEF PlateAppearance, CountOuts, IInv, TypeOK
<1>9. TypeOK'
  BY <1>0, <1>3, <1>4, <1>5, <1>6, <1>7, <1>8 DEF IInv, TypeOK, PlateAppearance, cards
<1>10. CardsKept'
  BY <1>0, SameCards DEF IInv, PlateAppearance
<1>11. MoundKept'
  <2>1. CASE UNCHANGED <<inning, team_hitting, inning_over>>
    BY <2>1, <1>0 DEF IInv, MoundKept, HalfGoesOn, PlateAppearance, Fielding, cards
  <2>2. CASE inning_over' = TRUE
    BY <2>2, <1>0 DEF MoundKept, HalfGoesOn
  <2> QED
    BY <2>1, <2>2 DEF PlateAppearance, CountOuts
<1> QED
  BY <1>9, <1>10, <1>11 DEF IInv

\* Every step of sim_game_batch keeps the invariant.
LEMMA NextIInv == ASSUME IInv, [Next]_vars PROVE IInv'
<1>1. CASE StartGame
  BY <1>1, StartIInv
<1>2. CASE RejectLineups
  BY <1>2, RejectIInv
<1>3. CASE ChangePitcher
  BY <1>3, ChangeIInv
<1>4. CASE KeepPitcher
  BY <1>4, KeepIInv
<1>5. ASSUME NEW type \in ResultType, NEW sentHome \in BOOLEAN,
             NEW extraBase \in BOOLEAN,
             \/ PlateAppearance(type, sentHome, extraBase)
             \/ AbortGame(type, sentHome, extraBase)
      PROVE  IInv'
  BY <1>5, AppearanceIInv, AbortIInv
<1>6. CASE EndGame
  BY <1>6, EndIInv
<1>7. CASE UNCHANGED vars
  <2>1. TypeOK'
    BY <1>7 DEF IInv, TypeOK, vars, clock, cards, skills
  <2>2. CardsKept'
    BY <1>7, SameCards DEF IInv, vars
  <2>3. MoundKept'
    BY <1>7 DEF IInv, MoundKept, HalfGoesOn, Fielding, vars, clock, cards
  <2> QED
    BY <2>1, <2>2, <2>3 DEF IInv
<1> QED
  BY <1>1, <1>2, <1>3, <1>4, <1>5, <1>6, <1>7 DEF Next

\* The inductive invariant holds in every game: types, cards, mound.
THEOREM Invariance == Spec => []IInv
<1>1. Init => IInv
  BY InitIInv
<1>2. IInv /\ [Next]_vars => IInv'
  BY NextIInv
<1> QED
  BY <1>1, <1>2, PTL DEF Spec

\* The variables keep their types in every game.
THEOREM TypeCorrect == Spec => []TypeOK
<1>1. IInv => TypeOK
  BY DEF IInv
<1> QED
  BY <1>1, Invariance, PTL

\* No sequence of substitutions puts a player on a card twice, takes the
\* pitcher out of the batting order, or leaves a reliever on the card in a
\* bullpen.
THEOREM CardsStayInOrder == Spec => []CardsInOrder
<1>1. IInv => CardsInOrder
  BY DEF IInv, CardsKept, CardsInOrder
<1> QED
  BY <1>1, Invariance, PTL

\* Every batter faces, and tires, the man on the mound.
THEOREM BatterAlwaysFacesMound == Spec => []BatterFacesMound
<1>1. IInv => BatterFacesMound
  BY DEF IInv, MoundKept, HalfGoesOn, BatterFacesMound
<1> QED
  BY <1>1, Invariance, PTL

-----------------------------------------------------------------------------
(***************************************************************************)
(* The list of tired pitchers.  While the game is on, the list holds those *)
(* who have been taken out: none of them is on a card or can come in once  *)
(* more, so their entries stay true, and a man who threw a pitch is either *)
(* on the list or on a mound.                                              *)
(***************************************************************************)
Ids(list) == {list[k].id : k \in DOMAIN list}

\* A list without repeats whose entries say what the skill hash says.
TrueList(list) ==
  /\ list \in Seq([id : Pitcher, left : Nat])
  /\ \A k, l \in DOMAIN list : list[k].id = list[l].id => k = l
  /\ \A k \in DOMAIN list : list[k] = Entry(list[k].id)

Used(p) == batters_left[p] # FreshLeft[p] \/ stamina[p] # 0

UsedKnown ==
  \A p \in Pitcher : Used(p) =>
    p \in Recorded \cup {defense[t][Mound] : t \in Team}

ListInv ==
  /\ pc = "start" => /\ tired_pitchers = <<>>
                     /\ \A p \in Pitcher : ~Used(p)
  /\ TakenOutForGood
  /\ pc \in {"top", "bat"} => TrueList(tired_pitchers) /\ UsedKnown
  /\ ListMatchesHash

\* An entry names its pitcher.
LEMMA EntryId == \A p : Entry(p).id = p
  BY DEF Entry

\* What one more entry does to a list of entries.
LEMMA OneMoreEntry ==
  ASSUME NEW S, NEW s \in Seq(S), NEW e \in S
  PROVE  /\ Len(s) \in Nat /\ DOMAIN s = 1 .. Len(s)
         /\ Append(s, e) \in Seq(S)
         /\ DOMAIN Append(s, e) = 1 .. (Len(s) + 1)
         /\ \A k \in 1 .. (Len(s) + 1) :
              Append(s, e)[k] = IF k \in 1 .. Len(s) THEN s[k] ELSE e
<1>1. /\ Append(s, e) \in Seq(S)
      /\ Len(Append(s, e)) = Len(s) + 1
      /\ \A k \in 1 .. Len(s) : Append(s, e)[k] = s[k]
      /\ Append(s, e)[Len(s) + 1] = e
  BY AppendProperties
<1>2. Len(s) \in Nat /\ DOMAIN s = 1 .. Len(s)
  BY LenProperties
<1>3. DOMAIN Append(s, e) = 1 .. (Len(s) + 1)
  BY <1>1, LenProperties
<1> QED
  BY <1>1, <1>2, <1>3

\* Adding a pitcher who is not on the list keeps it true and without repeats.
LEMMA RecordOne ==
  ASSUME TypeOK, NEW list, TrueList(list), NEW p \in Pitcher, p \notin Ids(list)
  PROVE  /\ TrueList(Append(list, Entry(p)))
         /\ Ids(Append(list, Entry(p))) = Ids(list) \cup {p}
<1> DEFINE more == Append(list, Entry(p))
<1> DEFINE E == [id : Pitcher, left : Nat]
<1>0. Entry(p) \in E /\ Entry(p).id = p
  BY EntryType, EntryId
<1>a. /\ \A k \in DOMAIN list : list[k].id # p
      /\ \A k, l \in DOMAIN list : list[k].id = list[l].id => k = l
      /\ \A k \in DOMAIN list : list[k] = Entry(list[k].id)
  BY DEF TrueList, Ids
<1>1. /\ Len(list) \in Nat /\ DOMAIN list = 1 .. Len(list)
      /\ more \in Seq(E)
      /\ DOMAIN more = 1 .. (Len(list) + 1)
      /\ \A k \in 1 .. (Len(list) + 1) :
           more[k] = IF k \in 1 .. Len(list) THEN list[k] ELSE Entry(p)
  <2>1. list \in Seq(E)
    BY DEF TrueList
  <2> HIDE DEF E
  <2> QED
    BY <1>0, <2>1, OneMoreEntry
<1>2. \A k \in DOMAIN more :
        \/ k \in DOMAIN list /\ more[k] = list[k]
        \/ k = Len(list) + 1 /\ k \notin DOMAIN list /\ more[k] = Entry(p)
  BY <1>1
<1>3. DOMAIN list \subseteq DOMAIN more /\ Len(list) + 1 \in DOMAIN more
  BY <1>1
<1>4. ASSUME NEW k \in DOMAIN more, NEW l \in DOMAIN more, more[k].id = more[l].id
      PROVE  k = l
  BY <1>0, <1>a, <1>2, <1>4
<1>5. \A k \in DOMAIN more : more[k] = Entry(more[k].id)
  BY <1>0, <1>a, <1>2
<1>6. {more[k].id : k \in DOMAIN more} = {list[k].id : k \in DOMAIN list} \cup {p}
  <2>1. \A k \in DOMAIN more : more[k].id \in {list[l].id : l \in DOMAIN list} \cup {p}
    BY <1>0, <1>2
  <2>2. \A k \in DOMAIN list : more[k].id = list[k].id
    BY <1>1, <1>3
  <2>3. more[Len(list) + 1].id = p
    BY <1>0, <1>1, <1>3
  <2> QED
    BY <2>1, <2>2, <2>3, <1>3
<1> QED
  BY <1>1, <1>4, <1>5, <1>6 DEF TrueList, Ids

\* The list of tired pitchers starts empty and true.
LEMMA ListInit == Init => ListInv
<1> SUFFICES ASSUME Init PROVE ListInv
  OBVIOUS
<1>1. pc = "start" /\ tired_pitchers = <<>>
  BY DEF Init
<1>2. \A p \in Pitcher : ~Used(p)
  BY DEF Init, Used
<1> QED
  BY <1>1, <1>2 DEF ListInv, TakenOutForGood, ListMatchesHash

\* The start of the game leaves the list alone.
LEMMA ListStart == ASSUME IInv, ListInv, StartGame PROVE ListInv'
<1>1. pc' = "top" /\ tired_pitchers' = <<>>
  BY DEF ListInv, StartGame
<1>2. DOMAIN tired_pitchers' = {}
  BY <1>1
<1>3. Recorded' = {}
  BY <1>2 DEF Recorded
<1>4. UsedKnown'
  <2>1. \A p \in Pitcher : Used(p)' = Used(p)
    BY DEF StartGame, skills, Used
  <2> QED
    BY <2>1 DEF UsedKnown, ListInv, StartGame
<1>5. <<>> \in Seq([id : Pitcher, left : Nat])
  BY EmptySeq
<1> QED
  BY <1>1, <1>2, <1>3, <1>4, <1>5
     DEF ListInv, TakenOutForGood, TrueList, ListMatchesHash

\* On a mound, and not yet on the list.
LEMMA MoundNotRecorded ==
  ASSUME IInv, ListInv, pc \in {"top", "bat"}, NEW t \in Team
  PROVE  defense[t][Mound] \notin Recorded /\ defense[t][Mound] \in Pitcher
<1>1. PICK i \in Slot : offense[t][i] = defense[t][Mound]
  BY MoundFacts DEF SoundCard, Card0
<1> QED
  BY <1>1, MoundFacts DEF ListInv, TakenOutForGood

\* An iteration without a pitching change leaves the list alone.
LEMMA ListKeep == ASSUME IInv, ListInv, KeepPitcher PROVE ListInv'
<1>0. pc = "top" /\ pc' = "bat"
  BY DEF KeepPitcher
<1>1. UNCHANGED <<tired_pitchers, batters_left, stamina, offense, defense, bullpen>>
  BY DEF KeepPitcher, cards, skills
<1>2. Recorded' = Recorded
  BY <1>1 DEF Recorded
<1>3. TakenOutForGood'
  BY <1>0, <1>1, <1>2 DEF ListInv, TakenOutForGood
<1>4. TrueList(tired_pitchers)' /\ UsedKnown'
  BY <1>0, <1>1, <1>2 DEF ListInv, TrueList, UsedKnown, Entry, Used
<1> QED
  BY <1>0, <1>3, <1>4 DEF ListInv, ListMatchesHash

\* sub_pitcher records the man it takes out, and only him.
LEMMA ListChange == ASSUME IInv, ListInv, ChangePitcher PROVE ListInv'
<1>0. pc = "top" /\ pc' = "bat"
  BY DEF ChangePitcher
<1>1. /\ Current = defense[Fielding][Mound] /\ Current \in Pitcher
      /\ Fielding \in Team /\ Current \notin Recorded
  BY <1>0, MoundFacts, MoundNotRecorded
<1>2. /\ tired_pitchers' = Append(tired_pitchers, Entry(Current))
      /\ UNCHANGED <<batters_left, stamina>>
  BY DEF ChangePitcher, skills
<1>3. /\ TypeOK /\ TrueList(tired_pitchers) /\ UsedKnown
      /\ Recorded = Ids(tired_pitchers) /\ Recorded' = Ids(tired_pitchers')
  BY <1>0 DEF IInv, ListInv, Recorded, Ids
<1>4. /\ TrueList(Append(tired_pitchers, Entry(Current)))
      /\ Recorded' = Recorded \cup {Current}
  BY <1>1, <1>2, <1>3, RecordOne
<1>5. \A p : Entry(p)' = Entry(p) /\ Used(p)' = Used(p)
  BY <1>2 DEF Entry, Used
<1>6. PICK i \in Slot, k \in DOMAIN bullpen[Fielding] :
        /\ offense[Fielding][i] = defense[Fielding][Mound]
        /\ bullpen[Fielding][k] \in Reliever
        /\ Card0' = Substituted(Card0, Fielding, i, k)
        /\ pitcher' = bullpen[Fielding][k]
  BY ChangeIsSubstitution
<1> DEFINE sub == bullpen[Fielding][k]
<1>7. /\ \A t \in Team, j \in Slot :
           offense'[t][j] \in {sub, offense[t][j]} \ {Current}
      /\ \A t \in Team : ToSet(bullpen'[t]) \subseteq ToSet(bullpen[t])
  <2>1. Card0 \in CardType /\ Complete(Card0) /\ SoundCard(Card0)
    BY <1>0, MoundFacts DEF IInv, CardsKept, TypeOK, Card0, CardType
  <2>2. /\ Card0.offense = offense /\ Card0.defense = defense
        /\ Card0.bullpen = bullpen
    BY DEF Card0
  <2>3. /\ Card0'.offense = offense' /\ Card0'.bullpen = bullpen'
    BY DEF Card0
  <2> QED
    BY <1>1, <1>6, <2>1, <2>2, <2>3, SubstitutionIsSound
<1>8. sub \in ToSet(bullpen[Fielding]) /\ sub \in Reliever
  BY <1>6 DEF ToSet
<1>9. /\ \A t \in Team, j \in Slot : offense[t][j] \notin Recorded
      /\ \A t \in Team : ToSet(bullpen[t]) \cap Recorded \cap Reliever = {}
  BY <1>0 DEF ListInv, TakenOutForGood
<1>10. \A t \in Team : Current \in Reliever => Current \notin ToSet(bullpen[t])
  BY <1>0, <1>1, <1>6, MoundFacts DEF SoundCard, Card0, ToSet
<1>11. TakenOutForGood'
  <2> HIDE DEF sub
  <2>1. \A t \in Team, j \in Slot : offense'[t][j] \notin Recorded'
    BY <1>1, <1>4, <1>7, <1>8, <1>9
  <2>2. \A t \in Team : ToSet(bullpen'[t]) \cap Recorded' \cap Reliever = {}
    BY <1>4, <1>7, <1>9, <1>10
  <2> QED
    BY <2>1, <2>2 DEF TakenOutForGood
<1>12. UsedKnown'
  <2> SUFFICES ASSUME NEW p \in Pitcher, Used(p)
               PROVE  p \in Recorded' \cup {defense'[t][Mound] : t \in Team}
    BY <1>5 DEF UsedKnown
  <2>1. CASE p \in Recorded \/ p = Current
    BY <2>1, <1>4
  <2>2. CASE p \notin Recorded /\ p # Current
    <3>1. PICK t \in Team : p = defense[t][Mound]
      BY <2>2, <1>3 DEF UsedKnown
    <3>2. t # Fielding
      BY <2>2, <3>1, <1>1
    <3>3. defense'[t] = defense[t]
      <4>1. defense' = [defense EXCEPT ![Fielding][Mound] = sub]
        BY <1>6 DEF Card0, Substituted
      <4> QED
        BY <4>1, <3>2 DEF IInv, TypeOK
    <3> QED
      BY <3>1, <3>3
  <2> QED
    BY <2>1, <2>2
<1>13. TrueList(tired_pitchers)'
  BY <1>2, <1>4, <1>5 DEF TrueList
<1> QED
  BY <1>0, <1>11, <1>12, <1>13 DEF ListInv, ListMatchesHash

\* A batter tires the man on the mound, who is not on the list yet.
LEMMA ListAppearance ==
  ASSUME IInv, ListInv, NEW type, NEW sentHome, NEW extraBase,
         PlateAppearance(type, sentHome, extraBase)
  PROVE  ListInv'
<1>0. pc = "bat" /\ pc' = "top"
  BY DEF PlateAppearance
<1>1. UNCHANGED <<tired_pitchers, offense, defense, bullpen>>
  BY DEF PlateAppearance, cards
<1>2. Recorded' = Recorded
  BY <1>1 DEF Recorded
<1>3. TakenOutForGood'
  BY <1>0, <1>1, <1>2 DEF ListInv, TakenOutForGood
<1>4. Fielding \in Team /\ pitcher = defense[Fielding][Mound]
  BY <1>0, MoundFacts DEF IInv, MoundKept, HalfGoesOn
<1>5. pitcher \notin Recorded
  BY <1>0, <1>4, MoundNotRecorded
<1>6. \A p \in Pitcher : p # pitcher => Entry(p)' = Entry(p) /\ Used(p)' = Used(p)
  <2> TAKE p \in Pitcher
  <2> HAVE p # pitcher
  <2>1. batters_left'[p] = batters_left[p] /\ stamina'[p] = stamina[p]
    BY DEF PlateAppearance, Tire, IInv, TypeOK
  <2> QED
    BY <2>1 DEF Entry, Used
<1>7. TrueList(tired_pitchers)'
  <2>1. TrueList(tired_pitchers)
    BY <1>0 DEF ListInv
  <2>2. \A k \in DOMAIN tired_pitchers :
          tired_pitchers[k].id \in Pitcher /\ tired_pitchers[k].id # pitcher
    <3> TAKE k \in DOMAIN tired_pitchers
    <3>1. k \in 1 .. Len(tired_pitchers)
      BY <2>1, LenProperties DEF TrueList
    <3>2. tired_pitchers[k] \in [id : Pitcher, left : Nat]
      BY <2>1, <3>1, ElementOfSeq DEF TrueList
    <3> QED
      BY <3>2, <1>5 DEF Recorded
  <2>3. \A k \in DOMAIN tired_pitchers :
          Entry(tired_pitchers[k].id)' = Entry(tired_pitchers[k].id)
    BY <2>2, <1>1, <1>6
  <2> QED
    BY <2>1, <2>3, <1>1 DEF TrueList
<1>8. UsedKnown'
  <2>1. UsedKnown
    BY <1>0 DEF ListInv
  <2> SUFFICES ASSUME NEW p \in Pitcher, Used(p)'
               PROVE  p \in Recorded \cup {defense[t][Mound] : t \in Team}
    BY <1>1, <1>2 DEF UsedKnown
  <2>2. CASE p = pitcher
    BY <2>2, <1>4
  <2>3. CASE p # pitcher
    BY <2>1, <2>3, <1>6 DEF UsedKnown
  <2> QED
    BY <2>2, <2>3
<1> QED
  BY <1>0, <1>3, <1>7, <1>8 DEF ListInv, ListMatchesHash

\* The end of the game records the two men still on the mounds.
LEMMA ListEnd == ASSUME IInv, ListInv, EndGame PROVE ListInv'
<1> DEFINE home == defense[HOME_TEAM][Mound]
           away == defense[AWAY_TEAM][Mound]
           half == Append(tired_pitchers, Entry(home))
<1>0. pc = "top" /\ pc' = "over" /\ TypeOK
  BY DEF EndGame, IInv
<1>1. HOME_TEAM \in Team /\ AWAY_TEAM \in Team /\ HOME_TEAM # AWAY_TEAM
  BY DEF Team, HOME_TEAM, AWAY_TEAM
<1>2. /\ home \in Pitcher /\ home \notin Ids(tired_pitchers)
      /\ away \in Pitcher /\ away \notin Ids(tired_pitchers)
  BY <1>0, <1>1, MoundNotRecorded DEF Recorded, Ids
<1>3. home # away
  <2>1. PICK i \in Slot : offense[HOME_TEAM][i] = home
    BY <1>0, <1>1, MoundFacts DEF SoundCard, Card0
  <2>2. PICK j \in Slot : offense[AWAY_TEAM][j] = away
    BY <1>0, <1>1, MoundFacts DEF SoundCard, Card0
  <2> QED
    BY <1>0, <1>1, <2>1, <2>2, MoundFacts DEF SoundCard, Card0
<1>4. TrueList(tired_pitchers) /\ UsedKnown
  BY <1>0 DEF ListInv
<1>5. TrueList(half) /\ Ids(half) = Ids(tired_pitchers) \cup {home}
  BY <1>0, <1>2, <1>4, RecordOne
<1>6. tired_pitchers' = Append(half, Entry(away))
  BY DEF EndGame, FinalList
<1>7. /\ TrueList(Append(half, Entry(away)))
      /\ Ids(Append(half, Entry(away))) = Ids(half) \cup {away}
  <2>1. away \notin Ids(half)
    BY <1>2, <1>3, <1>5
  <2> HIDE DEF half, home, away
  <2> QED
    BY <2>1, <1>0, <1>2, <1>5, RecordOne
<1>8. \A p : Entry(p)' = Entry(p) /\ Used(p)' = Used(p)
  BY DEF EndGame, skills, Entry, Used
<1>9. Recorded' = Recorded \cup {home, away} /\ TrueList(tired_pitchers)'
  <2>1. Recorded = Ids(tired_pitchers) /\ Recorded' = Ids(tired_pitchers')
    BY DEF Recorded, Ids
  <2>2. Recorded' = Recorded \cup {home, away}
    BY <2>1, <1>5, <1>6, <1>7
  <2>3. TrueList(tired_pitchers')
    BY <1>6, <1>7
  <2>4. TrueList(tired_pitchers)'
    BY <2>3, <1>8 DEF TrueList
  <2> QED
    BY <2>2, <2>4
<1>10. \A p \in Pitcher : Used(p)' => p \in Recorded'
  <2> SUFFICES ASSUME NEW p \in Pitcher, Used(p) PROVE p \in Recorded'
    BY <1>8
  <2>1. CASE p \in Recorded
    BY <2>1, <1>9
  <2>2. CASE p \notin Recorded
    <3>1. PICK t \in Team : p = defense[t][Mound]
      BY <2>2, <1>4 DEF UsedKnown
    <3> QED
      BY <3>1, <1>9 DEF Team
  <2> QED
    BY <2>1, <2>2
<1>11. ListMatchesHash'
  BY <1>9, <1>10 DEF ListMatchesHash, TrueList, Used
<1> QED
  BY <1>0, <1>11 DEF ListInv, TakenOutForGood

\* Every step of sim_game_batch keeps the list true.
LEMMA ListNext == ASSUME IInv, ListInv, [Next]_vars PROVE ListInv'
<1>1. CASE StartGame
  BY <1>1, ListStart
<1>2. CASE RejectLineups
  BY <1>2 DEF RejectLineups, ListInv, TakenOutForGood, ListMatchesHash
<1>3. CASE ChangePitcher
  BY <1>3, ListChange
<1>4. CASE KeepPitcher
  BY <1>4, ListKeep
<1>5. ASSUME NEW type \in ResultType, NEW sentHome \in BOOLEAN,
             NEW extraBase \in BOOLEAN, PlateAppearance(type, sentHome, extraBase)
      PROVE  ListInv'
  BY <1>5, ListAppearance
<1>6. ASSUME NEW type \in ResultType, NEW sentHome \in BOOLEAN,
             NEW extraBase \in BOOLEAN, AbortGame(type, sentHome, extraBase)
      PROVE  ListInv'
  BY <1>6 DEF AbortGame, ListInv, TakenOutForGood, ListMatchesHash
<1>7. CASE EndGame
  BY <1>7, ListEnd
<1>8. CASE UNCHANGED vars
  <2>1. UNCHANGED <<pc, tired_pitchers, batters_left, stamina, offense, defense, bullpen>>
    BY <1>8 DEF vars, cards, skills
  <2>2. \A p : Entry(p)' = Entry(p) /\ Used(p)' = Used(p)
    BY <2>1 DEF Entry, Used
  <2>3. Recorded' = Recorded
    BY <2>1 DEF Recorded
  <2>4. TakenOutForGood'
    BY <2>1, <2>3 DEF ListInv, TakenOutForGood
  <2>5. (TrueList(tired_pitchers) => TrueList(tired_pitchers)')
    BY <2>1, <2>2 DEF TrueList
  <2>6. UsedKnown => UsedKnown'
    BY <2>1, <2>2, <2>3 DEF UsedKnown
  <2>7. ListMatchesHash'
    BY <2>1, <2>2, <2>3 DEF ListInv, ListMatchesHash
  <2> QED
    BY <2>1, <2>2, <2>4, <2>5, <2>6, <2>7 DEF ListInv
<1> QED
  BY <1>1, <1>2, <1>3, <1>4, <1>5, <1>6, <1>7, <1>8 DEF Next

\* The list of tired pitchers is true at every step of every game.
THEOREM ListInvariance == Spec => []ListInv
<1>1. Init => ListInv
  BY ListInit
<1>2. IInv /\ ListInv /\ [Next]_vars => ListInv'
  BY ListNext
<1> QED
  BY <1>1, <1>2, Invariance, PTL DEF Spec

\* A pitcher who has been taken out does not come back, though a starter may
\* be found in the bullpen once more.
THEOREM TakenOutStaysOut == Spec => []TakenOutForGood
<1>1. ListInv => TakenOutForGood
  BY DEF ListInv
<1> QED
  BY <1>1, ListInvariance, PTL

\* At the end of a game the list of tired pitchers and the skill hash agree,
\* and no pitcher who faced a batter is missing or listed twice.
THEOREM ListAlwaysMatchesHash == Spec => []ListMatchesHash
<1>1. ListInv => ListMatchesHash
  BY DEF ListInv
<1> QED
  BY <1>1, ListInvariance, PTL


-----------------------------------------------------------------------------
(***************************************************************************)
(* Why a game is given up only when a bullpen has run dry: a pitcher who   *)
(* bats on with a reliever behind him is not tired yet, and a reliever     *)
(* comes in fresh, because whoever has been used stands on a mound or on   *)
(* the list (ListInv).                                                     *)
(***************************************************************************)
FitKept ==
  /\ pc = "bat" => NoRelief(Fielding) \/ stamina[pitcher] >= -1
  /\ AbortOnlyWithoutRelief

\* The scan of sub_pitcher finds nobody exactly when the bullpen has no reliever.
LEMMA NoReliefMeans ==
  ASSUME IInv, NEW t \in Team
  PROVE  NoRelief(t) <=> ToSet(bullpen[t]) \cap Reliever = {}
<1>1. bullpen[t] \in Seq(Pitcher)
  BY DEF IInv, TypeOK
<1> QED
  BY <1>1 DEF NoRelief, Warm, ToSet

\* Every step keeps it.
LEMMA FitNext ==
  ASSUME IInv, IInv', ListInv, FitKept, [Next]_vars PROVE FitKept'
<1>0. /\ stamina \in [Pitcher -> Int] /\ pitcher \in Pitcher \cup {Nobody}
      /\ Fielding \in Team
  <2>1. stamina \in [Pitcher -> Int] /\ pitcher \in Pitcher \cup {Nobody}
    BY DEF IInv, TypeOK
  <2>2. team_hitting \in Team
    BY DEF IInv, TypeOK
  <2>3. Fielding \in Team
    BY <2>2 DEF Fielding, Other, Team, HOME_TEAM, AWAY_TEAM
  <2> QED
    BY <2>1, <2>3
<1>1. CASE StartGame
  BY <1>1 DEF StartGame, FitKept, AbortOnlyWithoutRelief
<1>2. CASE RejectLineups
  BY <1>2 DEF RejectLineups, FitKept, AbortOnlyWithoutRelief, cards, Complete, Card0
<1>3. CASE ChangePitcher
  <2>1. /\ pc = "top" /\ pc' = "bat" /\ UNCHANGED stamina
        /\ \E k \in DOMAIN bullpen[Fielding] :
             pitcher' = bullpen[Fielding][k] /\ bullpen[Fielding][k] \in Reliever
    BY <1>3 DEF ChangePitcher, skills, First, Warm
  <2>2. PICK k \in DOMAIN bullpen[Fielding] :
          pitcher' = bullpen[Fielding][k] /\ bullpen[Fielding][k] \in Reliever
    BY <2>1
  <2>3. bullpen[Fielding] \in Seq(Pitcher)
    BY <1>0 DEF IInv, TypeOK
  <2>4. pitcher' \in ToSet(bullpen[Fielding]) /\ pitcher' \in Pitcher /\ pitcher' \in Reliever
    BY <2>2, <2>3 DEF ToSet
  <2>5. pitcher' \notin Recorded
    BY <1>0, <2>1, <2>4 DEF ListInv, TakenOutForGood
  <2>6. SoundCard(Card0)
    BY <2>1, MoundFacts
  <2>7. \A t \in Team : pitcher' # defense[t][Mound]
    BY <1>0, <2>2, <2>3, <2>6 DEF SoundCard, Card0
  <2>8. stamina[pitcher'] = 0
    BY <2>1, <2>4, <2>5, <2>7 DEF ListInv, UsedKnown, Used
  <2> QED
    BY <2>1, <2>8 DEF FitKept, AbortOnlyWithoutRelief
<1>4. CASE KeepPitcher
  <2>1. /\ pc = "top" /\ pc' = "bat" /\ UNCHANGED <<stamina, bullpen, team_hitting>>
        /\ pitcher' = Current
        /\ ~IsPitcherTired(Current) \/ NoRelief(Fielding)
    BY <1>4 DEF KeepPitcher, skills, cards, clock
  <2>2. Current \in Pitcher
    BY <2>1, MoundFacts DEF Current, IInv, MoundKept, HalfGoesOn
  <2>3. NoRelief(Fielding) \/ stamina[Current] >= -1
    BY <1>0, <2>1, <2>2 DEF IsPitcherTired
  <2>4. NoRelief(Fielding)' <=> NoRelief(Fielding)
    BY <2>1 DEF NoRelief, Warm, Fielding
  <2> QED
    BY <2>1, <2>3, <2>4 DEF FitKept, AbortOnlyWithoutRelief
<1>5. ASSUME NEW type \in ResultType, NEW s \in BOOLEAN, NEW e \in BOOLEAN,
             PlateAppearance(type, s, e)
      PROVE  FitKept'
  BY <1>5 DEF PlateAppearance, FitKept, AbortOnlyWithoutRelief
<1>6. ASSUME NEW type \in ResultType, NEW s \in BOOLEAN, NEW e \in BOOLEAN,
             AbortGame(type, s, e)
      PROVE  FitKept'
  <2>1. /\ pc = "bat" /\ pc' = "aborted" /\ UNCHANGED <<bullpen, team_hitting>>
        /\ StaminaAfter <= -Exhausted
    BY <1>6 DEF AbortGame, cards, clock
  <2>2. pitcher \in Pitcher
    BY <2>1, MoundFacts DEF IInv, MoundKept, HalfGoesOn
  <2>3. stamina[pitcher] < -1
    BY <1>0, <2>1, <2>2, NumberAssumption DEF StaminaAfter
  <2>4. NoRelief(Fielding)
    BY <1>0, <2>1, <2>2, <2>3 DEF FitKept
  <2>5. ToSet(bullpen[Fielding]) \cap Reliever = {}
    BY <1>0, <2>4, NoReliefMeans
  <2> QED
    BY <2>1, <2>5 DEF FitKept, AbortOnlyWithoutRelief, Fielding
<1>7. CASE EndGame
  BY <1>7 DEF EndGame, FitKept, AbortOnlyWithoutRelief
<1>8. CASE UNCHANGED vars
  BY <1>8 DEF vars, cards, clock, skills, FitKept, AbortOnlyWithoutRelief,
              NoRelief, Warm, Fielding, Complete, Card0
<1> QED
  BY <1>1, <1>2, <1>3, <1>4, <1>5, <1>6, <1>7, <1>8 DEF Next

\* "Pitcher is too tired" is printed only when the fielding team has no
\* reliever left, whatever the numbers of batters a pitcher can face.
THEOREM AbortsOnlyWithoutRelief == Spec => []AbortOnlyWithoutRelief
<1>1. Init => FitKept
  BY DEF Init, FitKept, AbortOnlyWithoutRelief
<1>2. FitKept => AbortOnlyWithoutRelief
  BY DEF FitKept
<1> QED
  BY <1>1, <1>2, FitNext, Invariance, ListInvariance, PTL DEF Spec
=============================================================================
