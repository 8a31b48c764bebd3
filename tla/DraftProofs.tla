----------------------------- MODULE DraftProofs -----------------------------
(***************************************************************************)
(* A draft by run_draft, whoever may be drafted, in how many rounds, by    *)
(* how many teams and with how many of them missing: nobody is drafted     *)
(* twice, and the best come first.                                         *)
(***************************************************************************)
EXTENDS Draft, FiniteSetTheorems, TLAPS

draft_vars == <<db, tables, drafting>>

\* A preference list holds players of one position, the best first.
Ranked(s, p) ==
  /\ s \in Seq(Player)
  /\ \A i \in 1 .. Len(s) : s[i].position = p
  /\ \A i, k \in 1 .. Len(s) : i < k => s[i].rank < s[k].rank

\* What holds between two picks: all teams have the same lists, and whoever
\* is still in one comes after everybody who was drafted at his position.
PickInv ==
  /\ before[2] = {}
  /\ position \in Position /\ round \in Nat \ {0} /\ next \in 1 .. NumberOfTeams
  /\ \A d \in t_draft :
       /\ d.player \in Player /\ d.pick \in Int /\ d.player.position <= position
       /\ d.player.position = position => d.pick < next + (round - 1) * NumberOfTeams
  /\ teams \in Seq(TeamId) /\ DOMAIN prefs = 1 .. Len(teams)
  /\ \A i, j \in DOMAIN prefs : prefs[i] = prefs[j]
  /\ \A j \in DOMAIN prefs : /\ DOMAIN prefs[j] = Position
                             /\ \A p \in Position : Ranked(prefs[j][p], p)
  /\ \A d \in t_draft, j \in DOMAIN prefs :
       \A i \in 1 .. Len(prefs[j][d.player.position]) :
         d.player.rank < prefs[j][d.player.position][i].rank

DraftInv ==
  /\ NobodyTwice /\ BestTaken
  /\ draft = "off" => t_draft = {}
  /\ draft = "pick" => PickInv

-----------------------------------------------------------------------------

\* Linked_List_remove_value of the head leaves what follows it.
LEMMA RemoveHead ==
  ASSUME NEW S, NEW list \in Seq(S), list # <<>>
  PROVE  /\ RemoveValue(list, Head(list)) \in Seq(S)
         /\ Len(RemoveValue(list, Head(list))) = Len(list) - 1
         /\ \A i \in 1 .. Len(list) - 1 : RemoveValue(list, Head(list))[i] = list[i + 1]
<1>1. Len(list) \in Nat \ {0} /\ Head(list) = list[1]
  OBVIOUS
<1>2. \A i \in 1 .. Len(list) : ~(\A j \in 1 .. i : list[j] # Head(list))
  BY <1>1
<1>3. RemoveValue(list, Head(list)) = [i \in 1 .. Len(list) - 1 |-> list[i + 1]]
  <2> DEFINE Before(i) == \A j \in 1 .. i : list[j] # Head(list)
             rest == [i \in 1 .. Len(list) - 1 |->
                        IF Before(i) THEN list[i] ELSE list[i + 1]]
  <2>1. RemoveValue(list, Head(list)) = IF Before(Len(list)) THEN list ELSE rest
    BY Zenon DEF RemoveValue
  <2>2. \A i \in 1 .. Len(list) : ~Before(i)
    BY <1>2
  <2>3. Len(list) \in 1 .. Len(list) /\ \A i \in 1 .. Len(list) - 1 : i \in 1 .. Len(list)
    BY <1>1
  <2> HIDE DEF Before
  <2>4. rest = [i \in 1 .. Len(list) - 1 |-> list[i + 1]]
    BY <2>2, <2>3
  <2> QED BY <2>1, <2>2, <2>3, <2>4
<1>4. \A i \in 1 .. Len(list) - 1 : list[i + 1] \in S
  BY <1>1
<1> QED BY <1>1, <1>3, <1>4

LEMMA RankedRest ==
  ASSUME NEW p \in Position, NEW s, Ranked(s, p), s # <<>>
  PROVE  /\ Ranked(RemoveValue(s, Head(s)), p)
         /\ \A i \in 1 .. Len(RemoveValue(s, Head(s))) :
              Head(s).rank < RemoveValue(s, Head(s))[i].rank
<1> DEFINE rest == RemoveValue(s, Head(s))
<1>1. /\ s \in Seq(Player) /\ Len(s) \in Nat \ {0} /\ Head(s) = s[1]
      /\ \A i \in 1 .. Len(s) : s[i].position = p
      /\ \A i, k \in 1 .. Len(s) : i < k => s[i].rank < s[k].rank
  BY DEF Ranked
<1>2. /\ rest \in Seq(Player) /\ Len(rest) = Len(s) - 1
      /\ \A i \in 1 .. Len(s) - 1 : rest[i] = s[i + 1]
  BY <1>1, RemoveHead
<1> HIDE DEF rest
<1>3. \A i \in 1 .. Len(rest) : rest[i].position = p
  BY <1>1, <1>2
<1>4. \A i, k \in 1 .. Len(rest) : i < k => rest[i].rank < rest[k].rank
  BY <1>1, <1>2
<1>5. \A i \in 1 .. Len(rest) : Head(s).rank < rest[i].rank
  BY <1>1, <1>2
<1>6. Ranked(rest, p)
  BY <1>2, <1>3, <1>4 DEF Ranked
<1> QED BY <1>5, <1>6 DEF rest

\* What select_draft_prefs_for_league reads is such a list.
LEMMA FinitePlayers == IsFiniteSet(Player)
<1> DEFINE Places == Position \X (1 .. MaxRank)
           Triples == Year \X Places
           f == [t \in Triples |-> [year |-> t[1], position |-> t[2][1], rank |-> t[2][2]]]
<1>1. IsFiniteSet(Year) /\ LastPosition \in Int /\ MaxRank \in Int /\ 0 \in Int /\ 1 \in Int
  BY DraftAssumption
<1>2. IsFiniteSet(Position) /\ IsFiniteSet(1 .. MaxRank)
  BY <1>1, FS_Interval DEF Position
<1>3. IsFiniteSet(Places)
  BY <1>2, FS_Product
<1>4. IsFiniteSet(Triples)
  BY <1>1, <1>3, FS_Product
<1> HIDE DEF f
<1>5. ASSUME NEW x \in Player PROVE \E t \in Triples : f[t] = x
  <2> DEFINE t == <<x.year, <<x.position, x.rank>>>>
  <2>1. x = [year |-> x.year, position |-> x.position, rank |-> x.rank]
    BY DEF Player
  <2>2. t \in Triples
    BY DEF Player
  <2>3. x = f[t]
    BY <2>1, <2>2 DEF f
  <2> QED BY <2>2, <2>3
<1>6. f \in [Triples -> Player]
  BY DEF f, Player
<1>7. f \in Surjection(Triples, Player)
  BY <1>5, <1>6 DEF Surjection
<1> QED BY <1>4, <1>7, FS_Surjection

LEMMA BestFirstRanked ==
  ASSUME NEW p \in Position, NEW s \in BestFirst(Draftees(p))
  PROVE  Ranked(s, p)
<1> DEFINE n == Cardinality(Draftees(p))
<1>1. Draftees(p) \subseteq Player /\ \A x \in Draftees(p) : x.position = p
  BY DEF Draftees
<1>2. n \in Nat
  BY <1>1, FinitePlayers, FS_Subset, FS_CardinalityType
<1>3. /\ s \in [1 .. n -> Draftees(p)]
      /\ \A i, j \in 1 .. n : i < j => s[i].rank < s[j].rank
  BY DEF BestFirst
<1> HIDE DEF n
<1>4. s \in Seq(Player) /\ Len(s) = n
  BY <1>1, <1>2, <1>3
<1> QED BY <1>1, <1>3, <1>4 DEF Ranked

-----------------------------------------------------------------------------

LEMMA DraftStarts == DraftInit => DraftInv
  BY DEF DraftInit, DraftStart, DraftInv, NobodyTwice, BestTaken

LEMMA BeginKeeps ==
  ASSUME DraftInv, draft = "off", NEW ids \in Seq(TeamId), DraftBegin(ids),
         UNCHANGED <<db, tables>>
  PROVE  DraftInv'
<1>1. PICK order \in [Position -> UNION {BestFirst(Draftees(p)) : p \in Position}] :
        /\ \A p \in Position : order[p] \in BestFirst(Draftees(p))
        /\ prefs' = [j \in DOMAIN ids |-> order]
  BY DEF DraftBegin
<1>2. \A p \in Position : Ranked(order[p], p)
  BY <1>1, BestFirstRanked
<1>3. /\ t_draft = {} /\ t_draft' = {} /\ before'[2] = {}
  BY DEF DraftInv, DraftBegin, tables
<1>4. /\ teams' = ids /\ position' = 0 /\ round' = 1 /\ next' = 1 /\ draft' = "pick"
  BY DEF DraftBegin
<1>5. /\ DOMAIN prefs' = 1 .. Len(teams') /\ teams' \in Seq(TeamId)
      /\ \A j \in DOMAIN prefs' : prefs'[j] = order
  BY <1>1, <1>4
<1>6. 0 \in Position /\ 1 \in 1 .. NumberOfTeams
  BY DraftAssumption DEF Position
<1>7. /\ \A i, j \in DOMAIN prefs' : prefs'[i] = prefs'[j]
      /\ \A j \in DOMAIN prefs' : /\ DOMAIN prefs'[j] = Position
                                  /\ \A p \in Position : Ranked(prefs'[j][p], p)
  BY <1>1, <1>2, <1>5
<1>8. PickInv'
  BY <1>3, <1>4, <1>5, <1>6, <1>7 DEF PickInv, Ranked
<1> QED BY <1>3, <1>4, <1>8 DEF DraftInv, NobodyTwice, BestTaken

LEMMA PickKeeps ==
  ASSUME DraftInv, NEW year, Pick(year)
  PROVE  DraftInv'
<1> DEFINE list == prefs[next][position]
           x == Head(list)
           N == NumberOfTeams
           number == next + (round - 1) * N
           entry == [team |-> teams[next], player |-> x, round |-> overall, pick |-> number]
<1>1. /\ PickInv /\ draft = "pick" /\ List # <<>>
      /\ t_draft' = t_draft \cup {entry}
      /\ prefs' = Removed(x) /\ Advance
      /\ UNCHANGED <<teams, before>>
  <2>1. draft = "pick" /\ List # <<>> /\ PickInv
    BY DEF Pick, DraftInv
  <2>2. List = list
    BY <2>1 DEF List
  <2> QED BY <2>1, <2>2 DEF Pick, DraftPick
<1>2. /\ next \in DOMAIN prefs /\ list # <<>>
  <2>1. Len(teams) \in Nat /\ next \in Nat \ {0} /\ next <= Len(teams) /\ list # <<>>
    BY <1>1, DraftAssumption DEF PickInv, List
  <2> QED BY <1>1, <2>1 DEF PickInv
<1>3. /\ N \in Nat \ {0} /\ round \in Nat \ {0} /\ next \in 1 .. N
      /\ position \in Position /\ LastPosition \in Nat
  BY <1>1, DraftAssumption DEF PickInv
<1>4. Ranked(list, position)
  BY <1>1, <1>2 DEF PickInv
<1>5. /\ x \in Player /\ x.position = position
      /\ Len(list) \in Nat \ {0} /\ 1 \in 1 .. Len(list) /\ x = list[1]
  <2>1. list \in Seq(Player)
    BY <1>4 DEF Ranked
  <2>2. Len(list) \in Nat \ {0} /\ x = list[1] /\ x \in Player
    BY <1>2, <2>1
  <2> QED BY <1>4, <2>2 DEF Ranked
\* Whoever was drafted at this position was better, and earlier.
<1>6. \A d \in t_draft : d.player.position = position =>
        d.player.rank < x.rank /\ d.pick < number
  BY <1>1, <1>2, <1>5 DEF PickInv
<1>7. /\ \A d \in t_draft : d.player \in Player /\ d.pick \in Int
      /\ number \in Int
  <2>1. (round - 1) * N \in Int
    BY <1>3
  <2> QED BY <1>1, <1>3, <2>1 DEF PickInv
<1>8. /\ entry.player = x /\ entry.pick = number
      /\ \A y \in Player : y.rank \in Int
  BY DEF Player
<1> HIDE DEF entry, number, x
<1>9. NobodyTwice'
  <2> SUFFICES ASSUME NEW a \in t_draft', NEW b \in t_draft', a.player = b.player
               PROVE  a = b
    BY DEF NobodyTwice
  <2>1. \A d \in t_draft : d.player # x
    BY <1>5, <1>6, <1>8
  <2> QED BY <1>1, <1>8, <2>1 DEF DraftInv, NobodyTwice
<1>10. BestTaken'
  <2> SUFFICES ASSUME NEW a \in t_draft', NEW b \in t_draft',
                      a.player.position = b.player.position, a.pick < b.pick
               PROVE  a.player.rank < b.player.rank
    BY DEF BestTaken
  <2>1. CASE a \in t_draft /\ b \in t_draft
    BY <2>1 DEF DraftInv, BestTaken
  <2>2. CASE a \in t_draft /\ b = entry
    BY <1>5, <1>6, <1>8, <2>2
  <2>3. CASE a = entry /\ b \in t_draft
    <3>1. b.pick < number
      BY <1>5, <1>6, <1>8, <2>3
    <3> QED BY <1>7, <1>8, <2>3, <3>1
  <2>4. CASE a = entry /\ b = entry
    BY <1>7, <1>8, <2>4
  <2> QED BY <1>1, <2>1, <2>2, <2>3, <2>4
<1>11. draft' \in {"pick", "end"}
  BY <1>1 DEF Advance
<1>12. ASSUME draft' = "pick" PROVE PickInv'
  <2> DEFINE rest == RemoveValue(list, x)
  <2>1. /\ \A j \in DOMAIN prefs : prefs[j] = prefs[next]
        /\ DOMAIN prefs[next] = Position
        /\ \A p \in Position : Ranked(prefs[next][p], p)
    BY <1>1, <1>2 DEF PickInv
  <2>2. /\ DOMAIN prefs' = DOMAIN prefs
        /\ \A j \in DOMAIN prefs :
             prefs'[j] = [prefs[next] EXCEPT ![position] = rest]
    BY <1>1, <2>1 DEF Removed
  <2>3. /\ Ranked(rest, position)
        /\ \A i \in 1 .. Len(rest) : x.rank < rest[i].rank
    BY <1>2, <1>3, <1>4, RankedRest DEF x
  <2> HIDE DEF rest, list
  <2>4. \A j \in DOMAIN prefs : /\ DOMAIN prefs'[j] = Position
                                /\ prefs'[j][position] = rest
                                /\ \A p \in Position : p # position =>
                                     prefs'[j][p] = prefs[j][p]
    BY <1>3, <2>1, <2>2
  <2>5. \A j \in DOMAIN prefs' : /\ DOMAIN prefs'[j] = Position
                                 /\ \A p \in Position : Ranked(prefs'[j][p], p)
    BY <2>1, <2>2, <2>3, <2>4
  <2>6. \A i, j \in DOMAIN prefs' : prefs'[i] = prefs'[j]
    BY <2>2
  <2>7. \A d \in t_draft', j \in DOMAIN prefs' :
          \A i \in 1 .. Len(prefs'[j][d.player.position]) :
            d.player.rank < prefs'[j][d.player.position][i].rank
    <3> SUFFICES ASSUME NEW d \in t_draft', NEW j \in DOMAIN prefs,
                        NEW i \in 1 .. Len(prefs'[j][d.player.position])
                 PROVE  d.player.rank < prefs'[j][d.player.position][i].rank
      BY <2>2
    <3>1. d.player \in Player /\ d.player.position \in Position
      BY <1>1, <1>5, <1>7, <1>8 DEF Player
    <3>2. CASE d.player.position # position
      <4>1. d \in t_draft
        BY <1>1, <1>5, <1>8, <3>2
      <4> QED BY <1>1, <2>4, <3>1, <3>2, <4>1 DEF PickInv
    <3>3. CASE d.player.position = position
      <4>1. d.player.rank <= x.rank /\ d.player.rank \in Int /\ x.rank \in Int
        BY <1>1, <1>5, <1>6, <1>8, <3>1, <3>3
      <4>2. /\ prefs'[j][d.player.position] = rest /\ i \in 1 .. Len(rest)
            /\ rest[i] \in Player
        BY <2>3, <2>4, <3>3 DEF Ranked
      <4>3. x.rank < rest[i].rank /\ rest[i].rank \in Int
        BY <1>8, <2>3, <4>2
      <4> QED BY <4>1, <4>2, <4>3
    <3> QED BY <3>2, <3>3
  \* The number of the next pick is one more.
  <2>8. /\ next' \in 1 .. N /\ round' \in Nat \ {0} /\ position' \in Position
        /\ position <= position' /\ position' \in Int
        /\ position' = position => next' + (round' - 1) * N = number + 1
    <3>1. CASE next < N
      <4>1. next' = next + 1 /\ round' = round /\ position' = position
        BY <1>1, <3>1 DEF Advance
      <4>2. (round - 1) * N \in Int
        BY <1>3
      <4> QED BY <1>3, <3>1, <4>1, <4>2 DEF Position, number
    <3>2. CASE ~(next < N)
      <4>1. /\ next' = 1 /\ next = N
            /\ \/ round' = round + 1 /\ position' = position
               \/ round' = 1 /\ position < LastPosition /\ position' = position + 1
        BY <1>1, <1>3, <1>12, <3>2 DEF Advance
      <4>2. (round - 1) * N + N = round * N /\ (round - 1) * N \in Int
        BY <1>3
      <4>3. CASE round' = round + 1 /\ position' = position
        <5>1. round' - 1 = round
          BY <1>3, <4>3
        <5> QED BY <1>3, <4>1, <4>2, <4>3, <5>1 DEF Position, number
      <4>4. CASE round' = 1 /\ position < LastPosition /\ position' = position + 1
        BY <1>3, <4>1, <4>4 DEF Position
      <4> QED BY <4>1, <4>3, <4>4
    <3> QED BY <3>1, <3>2
  <2>9. \A d \in t_draft' :
          /\ d.player \in Player /\ d.pick \in Int /\ d.player.position <= position'
          /\ d.player.position = position' => d.pick < next' + (round' - 1) * N
    <3> SUFFICES ASSUME NEW d \in t_draft'
                 PROVE  /\ d.player \in Player /\ d.pick \in Int
                        /\ d.player.position <= position'
                        /\ d.player.position = position' =>
                             d.pick < next' + (round' - 1) * N
      OBVIOUS
    <3>1. /\ d.player \in Player /\ d.pick \in Int
          /\ d.player.position <= position /\ d.player.position \in Int
          /\ position \in Int
          /\ d.player.position = position => d.pick <= number
      <4>1. CASE d \in t_draft
        BY <1>1, <1>3, <1>6, <1>7, <4>1 DEF PickInv, Position, Player
      <4>2. CASE d = entry
        BY <1>3, <1>5, <1>7, <1>8, <4>2 DEF Position
      <4> QED BY <1>1, <4>1, <4>2
    <3>2. CASE position' = position
      BY <1>7, <2>8, <3>1, <3>2
    <3>3. CASE position' # position
      BY <2>8, <3>1, <3>3
    <3> QED BY <3>2, <3>3
  <2>10. before'[2] = {} /\ teams' \in Seq(TeamId) /\ DOMAIN prefs' = 1 .. Len(teams')
    BY <1>1, <2>2 DEF PickInv
  <2> QED BY <2>5, <2>6, <2>7, <2>8, <2>9, <2>10 DEF PickInv
<1> QED BY <1>9, <1>10, <1>11, <1>12 DEF DraftInv

LEMMA FailKeeps ==
  ASSUME DraftInv, DraftFails
  PROVE  DraftInv'
<1>1. /\ draft' = "failed" /\ PickInv
      /\ t_draft' = before[2] \/ t_draft' = t_draft
  BY DEF DraftFails, GivenUp, tables, DraftInv
<1> QED BY <1>1 DEF DraftInv, PickInv, NobodyTwice, BestTaken

LEMMA EndKeeps ==
  ASSUME DraftInv, DraftEnd
  PROVE  DraftInv'
BY DEF DraftEnd, DraftInv, NobodyTwice, BestTaken

LEMMA DraftKeeps == DraftInv /\ [DraftNext]_draft_vars => DraftInv'
<1> SUFFICES ASSUME DraftInv, [DraftNext]_draft_vars PROVE DraftInv'
  OBVIOUS
<1>1. ASSUME draft = "off", NEW ids \in Seq(TeamId), DraftBegin(ids),
             UNCHANGED <<db, tables>>
      PROVE  DraftInv'
  BY <1>1, BeginKeeps
<1>2. ASSUME NEW year \in Year, Pick(year) PROVE DraftInv'
  BY <1>2, PickKeeps
<1>3. CASE DraftFails
  BY <1>3, FailKeeps
<1>4. CASE DraftEnd
  BY <1>4, EndKeeps
<1>5. CASE UNCHANGED draft_vars
  BY <1>5 DEF draft_vars, tables, drafting, DraftInv, PickInv, NobodyTwice, BestTaken
<1> QED BY <1>1, <1>2, <1>3, <1>4, <1>5 DEF DraftNext, DraftStep, draft_vars

LEMMA DraftInvKept == DraftSpec => []DraftInv
  BY DraftStarts, DraftKeeps, PTL DEF DraftSpec, draft_vars

\* Whatever players there are and however a draft ends, run_draft drafts
\* nobody twice: a pick is taken out of everybody's list.
THEOREM DraftsNobodyTwice == DraftSpec => []NobodyTwice
<1>1. DraftInv => NobodyTwice
  BY DEF DraftInv
<1> QED BY <1>1, DraftInvKept, PTL

\* At each position run_draft takes the players in the order of their rank.
THEOREM DraftTakesBest == DraftSpec => []BestTaken
<1>1. DraftInv => BestTaken
  BY DEF DraftInv
<1> QED BY <1>1, DraftInvKept, PTL
=============================================================================
