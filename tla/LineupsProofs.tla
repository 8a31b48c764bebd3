---------------------------- MODULE LineupsProofs ----------------------------
(***************************************************************************)
(* The rotation of a team, for rotations of any length and squads of any   *)
(* size, whatever owners do to its lineups: its starters take turns, every *)
(* evening leaves exactly one of them next and on the mound, and a lineup  *)
(* that was complete stays so.                                             *)
(***************************************************************************)
EXTENDS Lineups, FiniteSetTheorems, TLAPS

RotationRow == [team : {Team}, player : Pitchers, slot : 0 .. Turns, next : BOOLEAN]

\* The rows of t_rotation: each of the slots 1 .. Turns is somebody's, and
\* nobody else's.
SlotsTaken(rotation) ==
  /\ rotation \subseteq RotationRow
  /\ \A n \in 1 .. Turns :
       \E r \in rotation : r.slot = n /\ \A q \in rotation : q.slot = n => q = r

\* One starter is next: before update_rotation, while it has not yet reset him
\* and after it has set his successor.
OneNext ==
  \E r \in t_rotation :
    /\ r.slot \in 1 .. Turns /\ r.next
    /\ \A q \in t_rotation : q.next => q = r

\* In between nobody is, and the program alone knows whose turn it was.
TurnInv ==
  /\ SlotsTaken(t_rotation)
  /\ evening \in {"off", "next", "reset lineup", "set rotation", "set lineup"}
  /\ evening \in {"off", "next", "set lineup"} => OneNext
  /\ evening \in {"reset lineup", "set rotation"} =>
       turning \in 1 .. Turns /\ \A q \in t_rotation : ~q.next
  /\ evening # "next" => due = {}
  /\ evening = "next" => \A n \in due : \E q \in t_rotation : q.next /\ q.slot = n

-----------------------------------------------------------------------------
(* init_lineups gives each starter a slot of his own. *)

DraftedStarters == {r \in DraftedPitchers : r.player.position = 1}
NotBehind(r) == {q \in DraftedStarters : q.player.rank <= r.player.rank}

LEMMA StartersDrafted ==
  /\ IsFiniteSet(DraftedStarters) /\ Cardinality(DraftedStarters) = Turns
  /\ \A r, q \in DraftedStarters : r # q => r.player.rank # q.player.rank
  /\ \A r \in DraftedStarters : r.player.rank \in Nat /\ r.team = Team
<1> DEFINE Drawn(p) == [team |-> Team, player |-> p, slot |-> p.position, next |-> FALSE]
           f == [p \in Starters |-> Drawn(p)]
<1>1. DraftedStarters = {Drawn(p) : p \in Starters}
  BY DEF DraftedStarters, DraftedPitchers, Pitchers, Starters
<1>2. f \in Bijection(Starters, DraftedStarters)
  <2>1. f \in [Starters -> DraftedStarters]
    BY <1>1
  <2>2. \A p, q \in Starters : f[p] = f[q] => p = q
    OBVIOUS
  <2>3. \A r \in DraftedStarters : \E p \in Starters : f[p] = r
    BY <1>1
  <2> QED BY <2>1, <2>2, <2>3 DEF Bijection, Injection, Surjection, IsInjective
<1>3. IsFiniteSet(Starters)
  BY SquadAssumption, FS_Subset DEF Starters
<1>4. IsFiniteSet(DraftedStarters) /\ Cardinality(DraftedStarters) = Turns
  BY <1>2, <1>3, FS_Bijection, SquadAssumption DEF ExistsBijection
<1>5. \A p \in Starters : p \in [position : 0 .. Slots, rank : Nat] /\ p.position = 1
  BY SquadAssumption DEF Starters
<1>6. \A p, q \in Starters : p.rank = q.rank => p = q
  BY <1>5
<1>7. \A r \in DraftedStarters :
        r.player \in Starters /\ r.team = Team /\ r = Drawn(r.player)
  BY <1>1
<1>8. \A r, q \in DraftedStarters : r # q => r.player.rank # q.player.rank
  <2> HIDE DEF Drawn
  <2> QED BY <1>6, <1>7
<1> QED BY <1>4, <1>5, <1>7, <1>8

LEMMA TurnCounts ==
  ASSUME NEW r \in DraftedStarters
  PROVE  Turn(DraftedPitchers, r) = Cardinality(NotBehind(r))
<1>1. \A q \in DraftedPitchers : q.team = r.team
  BY DEF DraftedStarters, DraftedPitchers
<1>2. {q \in DraftedPitchers : /\ q.team = r.team /\ q.player.position = 1
                               /\ q.player.rank <= r.player.rank} = NotBehind(r)
  BY <1>1 DEF NotBehind, DraftedStarters
<1> QED BY <1>2 DEF Turn

LEMMA EachHasHisSlot ==
  /\ \A r \in DraftedStarters : Turn(DraftedPitchers, r) \in 1 .. Turns
  /\ \A n \in 1 .. Turns :
       \E r \in DraftedStarters :
         /\ Turn(DraftedPitchers, r) = n
         /\ \A q \in DraftedStarters : Turn(DraftedPitchers, q) = n => q = r
<1> DEFINE S == DraftedStarters
           f == [r \in S |-> Cardinality(NotBehind(r))]
<1>1. \A r \in S : /\ NotBehind(r) \in SUBSET S /\ r \in NotBehind(r)
                   /\ IsFiniteSet(NotBehind(r))
                   /\ Cardinality(NotBehind(r)) \in 1 .. Turns
  <2> SUFFICES ASSUME NEW r \in S
               PROVE  /\ NotBehind(r) \in SUBSET S /\ r \in NotBehind(r)
                      /\ IsFiniteSet(NotBehind(r))
                      /\ Cardinality(NotBehind(r)) \in 1 .. Turns
    OBVIOUS
  <2>1. NotBehind(r) \in SUBSET S /\ r \in NotBehind(r)
    BY StartersDrafted DEF NotBehind
  <2>2. IsFiniteSet(NotBehind(r)) /\ Cardinality(NotBehind(r)) <= Turns
    BY <2>1, StartersDrafted, FS_Subset
  <2>3. Cardinality(NotBehind(r)) \in Nat /\ Cardinality(NotBehind(r)) # 0
    BY <2>1, <2>2, FS_CardinalityType, FS_EmptySet
  <2> QED BY <2>1, <2>2, <2>3, SquadAssumption
<1>2. ASSUME NEW r \in S, NEW q \in S, r.player.rank < q.player.rank
      PROVE  f[r] # f[q]
  <2>1. r.player.rank \in Nat /\ q.player.rank \in Nat
    BY StartersDrafted
  <2>2. \A s \in S : s.player.rank \in Nat
    BY StartersDrafted
  <2>3. NotBehind(r) \in SUBSET NotBehind(q)
    BY <1>2, <2>1, <2>2 DEF NotBehind
  <2>4. q \notin NotBehind(r)
    BY <1>2, <2>1 DEF NotBehind
  <2>5. NotBehind(r) # NotBehind(q)
    BY <1>1, <2>4
  <2> QED BY <1>1, <2>3, <2>5, FS_Subset
<1>3. \A r, q \in S : f[r] = f[q] => r = q
  <2>1. \A r, q \in S : r # q => r.player.rank < q.player.rank \/ q.player.rank < r.player.rank
    BY StartersDrafted
  <2> QED BY <1>2, <2>1
<1>4. f \in Injection(S, 1 .. Turns)
  BY <1>1, <1>3 DEF Injection, IsInjective
<1>5. IsFiniteSet(1 .. Turns) /\ Cardinality(1 .. Turns) = Turns
  BY FS_Interval, SquadAssumption
<1>6. f \in Surjection(S, 1 .. Turns)
  BY <1>4, <1>5, StartersDrafted, FS_Injection
<1>7. \A n \in 1 .. Turns : \E r \in S : f[r] = n
  BY <1>6 DEF Surjection
<1>8. \A r \in S : f[r] = Turn(DraftedPitchers, r)
  BY TurnCounts
<1> QED BY <1>1, <1>3, <1>7, <1>8

LEMMA TurnStarts == Init => TurnInv
<1> SUFFICES ASSUME Init PROVE TurnInv
  OBVIOUS
<1> DEFINE T(r) == Turn(DraftedPitchers, r)
           Started(r) == [r EXCEPT !.slot = T(r), !.next = (T(r) = 1)]
<1>1. \A r \in DraftedPitchers :
        /\ r \in RotationRow
        /\ r.player.position # 1 => r.slot = 0 /\ r.next = FALSE
  <2>1. \A p \in Pitchers : p.position \in {0, 1} /\ p.position \in 0 .. Turns
    BY SquadAssumption DEF Pitchers
  <2> DEFINE Drawn(p) == [team |-> Team, player |-> p, slot |-> p.position, next |-> FALSE]
  <2>2. \A p \in Pitchers : /\ Drawn(p) \in RotationRow /\ Drawn(p).player = p
                            /\ Drawn(p).slot = p.position /\ Drawn(p).next = FALSE
    BY <2>1 DEF RotationRow
  <2>3. DraftedPitchers = {Drawn(p) : p \in Pitchers}
    BY DEF DraftedPitchers
  <2> HIDE DEF Drawn
  <2> QED BY <2>1, <2>2, <2>3
<1>2. t_rotation = {IF r.player.position = 1 THEN Started(r) ELSE r : r \in DraftedPitchers}
  <2>1. t_rotation = SetRotation(DraftedPitchers)
    BY DEF Init
  <2> QED BY Zenon, <2>1 DEF SetRotation
<1>3. \A r \in DraftedStarters :
        /\ Started(r) \in t_rotation /\ Started(r) \in RotationRow
        /\ Started(r).slot = T(r) /\ Started(r).next = (T(r) = 1)
  <2>1. \A r \in DraftedStarters :
          r \in DraftedPitchers /\ r.player.position = 1 /\ T(r) \in 1 .. Turns
    BY EachHasHisSlot DEF DraftedStarters
  <2>2. \A r \in DraftedStarters : Started(r) \in t_rotation
    BY <1>2, <2>1
  <2>3. ASSUME NEW r \in DraftedStarters
        PROVE  /\ Started(r) \in RotationRow
               /\ Started(r).slot = T(r) /\ Started(r).next = (T(r) = 1)
    <3>1. r \in RotationRow /\ T(r) \in 0 .. Turns
      BY <1>1, <2>1, SquadAssumption
    <3> HIDE DEF T
    <3> QED BY <3>1 DEF RotationRow
  <2> QED BY <2>2, <2>3
<1>4. \A q \in t_rotation :
        \/ \E r \in DraftedStarters : q = Started(r)
        \/ q \in RotationRow /\ q.slot = 0 /\ q.next = FALSE
  BY <1>1, <1>2 DEF DraftedStarters
<1> HIDE DEF T, Started
<1>5. \A n \in 1 .. Turns :
        \E r \in DraftedStarters : T(r) = n /\ \A q \in DraftedStarters : T(q) = n => q = r
  BY EachHasHisSlot DEF T
<1>6. SlotsTaken(t_rotation)
  <2>1. t_rotation \subseteq RotationRow
    BY <1>3, <1>4
  <2>2. ASSUME NEW n \in 1 .. Turns
        PROVE  \E r \in t_rotation : r.slot = n /\ \A q \in t_rotation : q.slot = n => q = r
    <3>1. PICK r \in DraftedStarters : T(r) = n /\ \A q \in DraftedStarters : T(q) = n => q = r
      BY <1>5
    <3>2. n # 0
      OBVIOUS
    <3> QED BY <1>3, <1>4, <3>1, <3>2
  <2> QED BY <2>1, <2>2 DEF SlotsTaken
<1>7. OneNext
  <2>1. 1 \in 1 .. Turns
    BY SquadAssumption
  <2>2. PICK r \in DraftedStarters : T(r) = 1 /\ \A q \in DraftedStarters : T(q) = 1 => q = r
    BY <1>5, <2>1
  <2>3. Started(r) \in t_rotation /\ Started(r).next /\ Started(r).slot \in 1 .. Turns
    BY <1>3, <2>1, <2>2
  <2>4. \A q \in t_rotation : q.next => q = Started(r)
    BY <1>3, <1>4, <2>2
  <2> QED BY <2>3, <2>4 DEF OneNext
<1> QED BY <1>6, <1>7 DEF Init, TurnInv

-----------------------------------------------------------------------------
(* Every statement keeps it. *)

LEMMA SlotsKept ==
  ASSUME SlotsTaken(t_rotation), NEW n \in 1 .. Turns
  PROVE  SlotsTaken(WithoutNext(t_rotation)) /\ SlotsTaken(WithNext(t_rotation, n))
<1> DEFINE Put(r, b) == [r EXCEPT !.next = b]
<1>1. \A r \in t_rotation, b \in BOOLEAN :
        Put(r, b) \in RotationRow /\ Put(r, b).slot = r.slot
  BY DEF SlotsTaken, RotationRow
<1>2. WithoutNext(t_rotation) = {Put(r, FALSE) : r \in t_rotation}
  BY DEF WithoutNext
<1>3. WithNext(t_rotation, n) = {IF r.slot = n THEN Put(r, TRUE) ELSE r : r \in t_rotation}
  BY DEF WithNext
<1> HIDE DEF Put
<1>4. SlotsTaken(WithoutNext(t_rotation))
  <2>1. WithoutNext(t_rotation) \subseteq RotationRow
    BY <1>1, <1>2
  <2>2. ASSUME NEW k \in 1 .. Turns
        PROVE  \E r \in WithoutNext(t_rotation) :
                 r.slot = k /\ \A q \in WithoutNext(t_rotation) : q.slot = k => q = r
    <3>1. PICK r \in t_rotation : r.slot = k /\ \A q \in t_rotation : q.slot = k => q = r
      BY DEF SlotsTaken
    <3>2. Put(r, FALSE) \in WithoutNext(t_rotation) /\ Put(r, FALSE).slot = k
      BY <1>1, <1>2, <3>1
    <3>3. \A q \in WithoutNext(t_rotation) : q.slot = k => q = Put(r, FALSE)
      <4>1. ASSUME NEW s \in t_rotation, Put(s, FALSE).slot = k
            PROVE  Put(s, FALSE) = Put(r, FALSE)
        BY <1>1, <3>1, <4>1
      <4> QED BY <1>2, <4>1
    <3> QED BY <3>2, <3>3
  <2> QED BY <2>1, <2>2 DEF SlotsTaken
<1>5. WithNext(t_rotation, n) \subseteq RotationRow
  <2>1. t_rotation \subseteq RotationRow
    BY DEF SlotsTaken
  <2> QED BY <1>1, <1>3, <2>1
<1>6. ASSUME NEW k \in 1 .. Turns
      PROVE  \E r \in WithNext(t_rotation, n) :
               r.slot = k /\ \A q \in WithNext(t_rotation, n) : q.slot = k => q = r
  <2>1. PICK r \in t_rotation : r.slot = k /\ \A q \in t_rotation : q.slot = k => q = r
    BY DEF SlotsTaken
  <2> DEFINE now == IF r.slot = n THEN Put(r, TRUE) ELSE r
  <2>2. now \in WithNext(t_rotation, n) /\ now.slot = k
    BY <1>1, <1>3, <2>1
  <2>3. \A q \in WithNext(t_rotation, n) : q.slot = k => q = now
    BY <1>1, <1>3, <2>1
  <2> QED BY <2>2, <2>3
<1>7. SlotsTaken(WithNext(t_rotation, n))
  <2> HIDE DEF WithNext
  <2> QED BY <1>5, <1>6 DEF SlotsTaken
<1> QED BY <1>4, <1>7

LEMMA SuccessorIsSlot ==
  ASSUME NEW n \in 1 .. Turns
  PROVE  Successor(n) \in 1 .. Turns
BY SquadAssumption DEF Successor

LEMMA TurnStep == TurnInv /\ [Next]_vars => TurnInv'
<1> SUFFICES ASSUME TurnInv, [Next]_vars PROVE TurnInv'
  OBVIOUS
<1>1. CASE Evening
  BY <1>1 DEF Evening, TurnInv, OneNext
<1>2. ASSUME NEW slot \in due, ResetRotation(slot) PROVE TurnInv'
  <2>1. evening = "next" /\ evening' = "reset lineup" /\ turning' = slot
        /\ due' = due \ {slot} /\ t_rotation' = WithoutNext(t_rotation)
    BY <1>2 DEF ResetRotation
  <2>2. PICK r \in t_rotation : /\ r.slot \in 1 .. Turns /\ r.next
                                /\ \A q \in t_rotation : q.next => q = r
    BY <2>1 DEF TurnInv, OneNext
  <2>3. \A n \in due : n = r.slot
    BY <2>1, <2>2 DEF TurnInv
  <2>4. slot = r.slot /\ due' = {}
    BY <2>1, <2>3
  <2>5. SlotsTaken(t_rotation')
    BY <2>1, <2>2, SlotsKept DEF TurnInv
  <2>6. \A q \in t_rotation' : ~q.next
    BY <2>1 DEF WithoutNext, TurnInv, SlotsTaken, RotationRow
  <2> QED BY <2>1, <2>2, <2>4, <2>5, <2>6 DEF TurnInv
<1>3. CASE ResetLineup
  BY <1>3 DEF ResetLineup, TurnInv, OneNext
<1>4. CASE SetNext
  <2>1. evening = "set rotation" /\ evening' = "set lineup" /\ due' = due
        /\ t_rotation' = WithNext(t_rotation, Successor(turning))
    BY <1>4 DEF SetNext
  <2>2. Successor(turning) \in 1 .. Turns /\ \A q \in t_rotation : ~q.next
    BY <2>1, SuccessorIsSlot DEF TurnInv
  <2>3. SlotsTaken(t_rotation')
    BY <2>1, <2>2, SlotsKept DEF TurnInv
  <2>4. PICK r \in t_rotation : /\ r.slot = Successor(turning)
                                /\ \A q \in t_rotation : q.slot = Successor(turning) => q = r
    BY <2>2 DEF TurnInv, SlotsTaken
  <2> DEFINE now == [r EXCEPT !.next = TRUE]
  <2>5. now \in t_rotation' /\ now.next /\ now.slot = Successor(turning)
    BY <2>1, <2>4 DEF WithNext, TurnInv, SlotsTaken, RotationRow
  <2>6. \A q \in t_rotation' : q.next => q = now
    BY <2>1, <2>2, <2>4 DEF WithNext
  <2>7. OneNext'
    BY <2>2, <2>5, <2>6 DEF OneNext
  <2> QED BY <2>1, <2>3, <2>7 DEF TurnInv
<1>5. CASE SetLineup
  BY <1>5 DEF SetLineup, TurnInv, OneNext
<1>6. CASE EveningOver
  BY <1>6 DEF EveningOver, TurnInv, OneNext
<1>7. CASE UNCHANGED <<t_rotation, rotating>>
  BY <1>7 DEF rotating, TurnInv, OneNext
<1>8. CASE LineupPage
  <2>1. UNCHANGED <<t_rotation, rotating>>
    BY <1>8 DEF LineupPage, Submit, WriteRow
  <2> QED BY <1>7, <2>1
<1>9. CASE UNCHANGED vars
  BY <1>7, <1>9 DEF vars
<1> QED BY <1>1, <1>2, <1>3, <1>4, <1>5, <1>6, <1>8, <1>9 DEF Next, UpdateRotation

LEMMA TurnKept == Spec => []TurnInv
BY TurnStarts, TurnStep, PTL DEF Spec

\* Between two evenings one starter of the team is next: select_lineups finds
\* a pitcher, and update_rotation will find the team.
THEOREM OneIsNext == Spec => []OneNextStarter
<1>1. TurnInv => OneNextStarter
  <2> SUFFICES ASSUME TurnInv, evening = "off"
               PROVE  Cardinality(NextStarters(t_rotation, Team)) = 1
    BY DEF OneNextStarter
  <2>1. PICK r \in t_rotation : r.next /\ \A q \in t_rotation : q.next => q = r
    BY DEF TurnInv, OneNext
  <2>2. r.team = Team
    BY DEF TurnInv, SlotsTaken, RotationRow
  <2>3. NextStarters(t_rotation, Team) = {r.player}
    BY <2>1, <2>2 DEF NextStarters
  <2> QED BY <2>3, FS_Singleton
<1> QED BY <1>1, TurnKept, PTL

-----------------------------------------------------------------------------
(* The refinement. *)

LEMMA TurnOf ==
  ASSUME TurnInv, NEW r \in t_rotation, r.next
  PROVE  OnTurn = r.slot
<1>1. \A q \in t_rotation : q.next => q = r
  BY DEF TurnInv, OneNext
<1>2. NextSlots = {r.slot}
  BY <1>1 DEF NextSlots
<1> QED BY <1>2 DEF OnTurn

\* update_rotation, statement after statement and whatever owners write in
\* between, makes the starters take turns: 1, 2, ..., Turns, 1, ...
THEOREM StartersTakeTurns == Spec => RotationTurns
<1>1. Init => Taking!RotationInit
  <2> SUFFICES ASSUME Init PROVE OnTurn = 1
    BY DEF Taking!RotationInit
  <2>1. TurnInv /\ OneNext
    BY TurnStarts DEF TurnInv, Init
  <2>2. PICK r \in t_rotation : r.slot \in 1 .. Turns /\ r.next
    BY <2>1 DEF OneNext
  <2>3. r.slot = 1
    <3>1. PICK d \in DraftedPitchers :
            r = IF d.player.position = 1
                  THEN [d EXCEPT !.slot = Turn(DraftedPitchers, d),
                                 !.next = Turn(DraftedPitchers, d) = 1]
                  ELSE d
      BY DEF Init, SetRotation
    <3>2. DOMAIN d = {"team", "player", "slot", "next"} /\ ~d.next
      BY DEF DraftedPitchers
    <3> QED BY <2>2, <3>1, <3>2 DEF DraftedPitchers
  <2> QED BY <2>1, <2>2, <2>3, TurnOf
<1>2. TurnInv /\ TurnInv' /\ [Next]_vars => [Taking!RotationNext]_OnTurn
  <2> SUFFICES ASSUME TurnInv, TurnInv', [Next]_vars
               PROVE  OnTurn' = OnTurn \/ OnTurn' = (OnTurn % Turns) + 1
    BY DEF Taking!RotationNext
  <2>1. ASSUME NEW slot \in due, ResetRotation(slot) PROVE OnTurn' = OnTurn
    <3>1. evening = "next" /\ turning' = slot /\ t_rotation' = WithoutNext(t_rotation)
          /\ evening' = "reset lineup"
      BY <2>1 DEF ResetRotation
    <3>2. PICK r \in t_rotation : r.next /\ r.slot = slot
      BY <3>1 DEF TurnInv
    <3>3. OnTurn = slot
      BY <3>2, TurnOf
    <3>4. NextSlots' = {}
      BY <3>1 DEF NextSlots, TurnInv
    <3> QED BY <3>1, <3>3, <3>4 DEF OnTurn
  <2>2. CASE SetNext
    <3>1. evening = "set rotation" /\ evening' = "set lineup"
      BY <2>2 DEF SetNext
    <3>2. NextSlots = {}
      BY <3>1 DEF NextSlots, TurnInv
    <3>3. OnTurn = turning
      BY <3>2 DEF OnTurn
    <3>4. PICK r \in t_rotation' : r.next /\ r.slot = Successor(turning)
      <4>1. PICK s \in t_rotation : s.slot = Successor(turning)
        BY <2>2 DEF SetNext
      <4>2. [s EXCEPT !.next = TRUE] \in t_rotation'
        BY <2>2, <4>1 DEF SetNext, WithNext
      <4>3. s \in RotationRow
        BY <4>1 DEF TurnInv, SlotsTaken
      <4> QED BY <4>1, <4>2, <4>3 DEF RotationRow
    <3>5. \A q \in t_rotation' : q.next => q = r
      BY <3>1, <3>4 DEF TurnInv, OneNext
    <3>6. NextSlots' = {r.slot}
      BY <3>4, <3>5 DEF NextSlots
    <3>7. OnTurn' = r.slot
      BY <3>6 DEF OnTurn
    <3> QED BY <3>3, <3>4, <3>7 DEF Successor
  <2>3. CASE UNCHANGED <<t_rotation, turning>>
    BY <2>3 DEF OnTurn, NextSlots
  <2>4. CASE Evening \/ ResetLineup \/ SetLineup \/ EveningOver \/ LineupPage
    BY <2>3, <2>4 DEF Evening, ResetLineup, SetLineup, EveningOver, LineupPage,
                      Submit, WriteRow, rotating
  <2>5. CASE UNCHANGED vars
    BY <2>3, <2>5 DEF vars, rotating
  <2> QED BY <2>1, <2>2, <2>4, <2>5 DEF Next, UpdateRotation
<1> QED BY <1>1, <1>2, TurnKept, PTL DEF Spec, RotationTurns, Taking!RotationSpec

-----------------------------------------------------------------------------
(* The rows of t_lineup: one for each player and hand. *)

LineupRow == [team : {Team}, player : Squad, hand : Hand,
              order : 0 .. Slots, position : 0 .. Slots]

OneRowEach(lineup) ==
  /\ lineup \subseteq LineupRow
  /\ \A p \in Squad, h \in Hand :
       \E r \in lineup : /\ r.player = p /\ r.hand = h
                         /\ \A q \in lineup : q.player = p /\ q.hand = h => q = r

LEMMA RowIs ==
  ASSUME NEW lineup, OneRowEach(lineup), NEW p \in Squad, NEW h \in Hand
  PROVE  /\ Row(lineup, p, h) \in lineup /\ Row(lineup, p, h) \in LineupRow
         /\ Row(lineup, p, h).player = p /\ Row(lineup, p, h).hand = h
         /\ \A q \in lineup : q.player = p /\ q.hand = h => q = Row(lineup, p, h)
<1>1. \E r \in lineup : r.player = p /\ r.hand = h
  BY DEF OneRowEach
<1> DEFINE r == Row(lineup, p, h)
<1>2. r \in lineup /\ r.player = p /\ r.hand = h
  BY <1>1 DEF Row
<1> HIDE DEF r
<1>3. \A q \in lineup : q.player = p /\ q.hand = h => q = r
  BY <1>2 DEF OneRowEach
<1> QED BY <1>2, <1>3 DEF OneRowEach, r

\* An update of each row that keeps its key.
Updated(lineup, f) == {f[r] : r \in lineup}

LEMMA RowsUpdated ==
  ASSUME NEW lineup, OneRowEach(lineup), NEW f \in [lineup -> LineupRow],
         \A r \in lineup : f[r].player = r.player /\ f[r].hand = r.hand
  PROVE  /\ OneRowEach(Updated(lineup, f))
         /\ \A p \in Squad, h \in Hand : Row(Updated(lineup, f), p, h) = f[Row(lineup, p, h)]
<1> DEFINE put == Updated(lineup, f)
<1>1. put \subseteq LineupRow
  BY DEF Updated
<1>2. ASSUME NEW p \in Squad, NEW h \in Hand, NEW r, r = Row(lineup, p, h)
      PROVE  /\ f[r] \in put /\ f[r].player = p /\ f[r].hand = h
             /\ \A q \in put : q.player = p /\ q.hand = h => q = f[r]
  <2>1. /\ r \in lineup /\ r.player = p /\ r.hand = h
        /\ \A q \in lineup : q.player = p /\ q.hand = h => q = r
    BY <1>2, RowIs
  <2>2. f[r] \in put /\ f[r].player = p /\ f[r].hand = h
    BY <2>1 DEF Updated
  <2>3. \A q \in lineup : f[q].player = p /\ f[q].hand = h => q = r
    BY <2>1
  <2>4. \A q \in put : q.player = p /\ q.hand = h => q = f[r]
    BY <2>3 DEF Updated
  <2> QED BY <2>2, <2>4
<1> HIDE DEF put
<1>3. OneRowEach(put)
  <2>1. \A p \in Squad, h \in Hand :
          \E r \in put : /\ r.player = p /\ r.hand = h
                         /\ \A q \in put : q.player = p /\ q.hand = h => q = r
    BY <1>2
  <2> QED BY <1>1, <2>1 DEF OneRowEach
<1>4. \A p \in Squad, h \in Hand : Row(put, p, h) = f[Row(lineup, p, h)]
  <2> TAKE p \in Squad, h \in Hand
  <2>1. /\ Row(put, p, h) \in put /\ Row(put, p, h).player = p /\ Row(put, p, h).hand = h
    BY <1>3, RowIs
  <2> QED BY <1>2, <2>1
<1> QED BY <1>3, <1>4 DEF put

\* The update that puts the rows of some players and hands to one place.
Moved(r, order, position) == [r EXCEPT !.order = order, !.position = position]
MovedRows(lineup, which, order, position) ==
  {IF <<r.player, r.hand>> \in which THEN Moved(r, order, position) ELSE r : r \in lineup}

\* A row now holds a place; or it is where it was before.
Holds(lineup, p, h, order, position) ==
  Row(lineup, p, h).order = order /\ Row(lineup, p, h).position = position
Keeps(now, before, p, h) ==
  /\ Row(now, p, h).order = Row(before, p, h).order
  /\ Row(now, p, h).position = Row(before, p, h).position

LEMMA RowsMoved ==
  ASSUME NEW lineup, OneRowEach(lineup), NEW which \in SUBSET (Squad \X Hand),
         NEW order \in 0 .. Slots, NEW position \in 0 .. Slots
  PROVE  /\ OneRowEach(MovedRows(lineup, which, order, position))
         /\ \A p \in Squad, h \in Hand :
              IF <<p, h>> \in which
                THEN Holds(MovedRows(lineup, which, order, position), p, h, order, position)
                ELSE Keeps(MovedRows(lineup, which, order, position), lineup, p, h)
<1> DEFINE f == [r \in lineup |->
                   IF <<r.player, r.hand>> \in which THEN Moved(r, order, position) ELSE r]
           put == MovedRows(lineup, which, order, position)
<1>1. \A r \in LineupRow :
        LET now == Moved(r, order, position)
        IN  /\ now \in LineupRow /\ now.player = r.player /\ now.hand = r.hand
            /\ now.order = order /\ now.position = position
  BY DEF LineupRow, Moved
<1>2. \A r \in lineup : r \in LineupRow
  BY DEF OneRowEach
<1>3. put = Updated(lineup, f)
  BY DEF Updated, MovedRows
<1>4. f \in [lineup -> LineupRow]
      /\ \A r \in lineup : f[r].player = r.player /\ f[r].hand = r.hand
  BY <1>1, <1>2
<1>5. ASSUME NEW p \in Squad, NEW h \in Hand, NEW r, r = Row(lineup, p, h)
      PROVE  /\ r \in lineup /\ r \in LineupRow
             /\ f[r] = IF <<p, h>> \in which THEN Moved(r, order, position) ELSE r
  <2>1. r \in lineup /\ r \in LineupRow /\ r.player = p /\ r.hand = h
    BY <1>5, RowIs
  <2> QED BY <2>1
<1> HIDE DEF f, put
<1>6. /\ OneRowEach(put)
      /\ \A p \in Squad, h \in Hand : Row(put, p, h) = f[Row(lineup, p, h)]
  BY <1>3, <1>4, RowsUpdated
<1>7. ASSUME NEW p \in Squad, NEW h \in Hand
      PROVE  IF <<p, h>> \in which
               THEN Holds(put, p, h, order, position)
               ELSE Keeps(put, lineup, p, h)
  BY <1>1, <1>5, <1>6 DEF Holds, Keeps
<1> QED BY <1>6, <1>7 DEF put

\* The statements of update_rotation and of lineup.pl.
LEMMA StartersPut ==
  ASSUME NEW lineup, OneRowEach(lineup), NEW starters \in SUBSET Squad
  PROVE  /\ OneRowEach(PutStarters(lineup, starters))
         /\ \A p \in Squad, h \in Hand :
              IF p \in starters
                THEN Holds(PutStarters(lineup, starters), p, h, Slots, 1)
                ELSE Keeps(PutStarters(lineup, starters), lineup, p, h)
<1> DEFINE which == starters \X Hand
<1>1. \A r \in lineup : r.player \in starters <=> <<r.player, r.hand>> \in which
  BY DEF OneRowEach, LineupRow
<1>2. PutStarters(lineup, starters) = MovedRows(lineup, which, Slots, 1)
  <2> HIDE DEF which
  <2> QED BY <1>1 DEF PutStarters, PutRows, MovedRows, Moved
<1>3. which \in SUBSET (Squad \X Hand) /\ Slots \in 0 .. Slots /\ 1 \in 0 .. Slots
  BY SquadAssumption
<1>4. \A p \in Squad, h \in Hand : p \in starters <=> <<p, h>> \in which
  OBVIOUS
<1> HIDE DEF which
<1>5. /\ OneRowEach(MovedRows(lineup, which, Slots, 1))
      /\ \A p \in Squad, h \in Hand :
           IF <<p, h>> \in which
             THEN Holds(MovedRows(lineup, which, Slots, 1), p, h, Slots, 1)
             ELSE Keeps(MovedRows(lineup, which, Slots, 1), lineup, p, h)
  BY <1>3, RowsMoved
<1> QED BY <1>2, <1>4, <1>5

LEMMA PitcherTaken ==
  ASSUME NEW lineup, OneRowEach(lineup)
  PROVE  /\ OneRowEach(WithoutPitcher(lineup))
         /\ \A p \in Squad, h \in Hand :
              IF Row(lineup, p, h).position = 1
                THEN Holds(WithoutPitcher(lineup), p, h, 0, 0)
                ELSE Keeps(WithoutPitcher(lineup), lineup, p, h)
<1> DEFINE which == {k \in Squad \X Hand : Row(lineup, k[1], k[2]).position = 1}
<1>1. \A r \in lineup : r.position = 1 <=> <<r.player, r.hand>> \in which
  <2> TAKE r \in lineup
  <2>1. r.player \in Squad /\ r.hand \in Hand
    BY DEF OneRowEach, LineupRow
  <2>2. r = Row(lineup, r.player, r.hand)
    BY <2>1, RowIs
  <2> QED BY <2>1, <2>2
<1>2. \A p \in Squad, h \in Hand : Row(lineup, p, h).position = 1 <=> <<p, h>> \in which
  OBVIOUS
<1>3. which \in SUBSET (Squad \X Hand) /\ 0 \in 0 .. Slots
  BY SquadAssumption
<1> HIDE DEF which
<1>4. WithoutPitcher(lineup) = MovedRows(lineup, which, 0, 0)
  BY <1>1 DEF WithoutPitcher, PutRows, MovedRows, Moved
<1>5. /\ OneRowEach(MovedRows(lineup, which, 0, 0))
      /\ \A p \in Squad, h \in Hand :
           IF <<p, h>> \in which
             THEN Holds(MovedRows(lineup, which, 0, 0), p, h, 0, 0)
             ELSE Keeps(MovedRows(lineup, which, 0, 0), lineup, p, h)
  BY <1>3, RowsMoved
<1> QED BY <1>2, <1>4, <1>5

OneRow(lineup, q, g, order, position) ==
  PutRows(lineup, LAMBDA r : r.player = q /\ r.hand = g, order, position)

LEMMA OneRowPut ==
  ASSUME NEW lineup, OneRowEach(lineup), NEW q \in Squad, NEW g \in Hand,
         NEW order \in 0 .. Slots, NEW position \in 0 .. Slots
  PROVE  /\ OneRowEach(OneRow(lineup, q, g, order, position))
         /\ \A p \in Squad, h \in Hand :
              IF p = q /\ h = g
                THEN Holds(OneRow(lineup, q, g, order, position), p, h, order, position)
                ELSE Keeps(OneRow(lineup, q, g, order, position), lineup, p, h)
<1> DEFINE which == {<<q, g>>}
<1>1. /\ \A p \in Squad, h \in Hand : p = q /\ h = g <=> <<p, h>> \in which
      /\ \A r \in lineup : r.player = q /\ r.hand = g <=> <<r.player, r.hand>> \in which
  OBVIOUS
<1>2. which \in SUBSET (Squad \X Hand)
  OBVIOUS
<1> HIDE DEF which
<1>3. OneRow(lineup, q, g, order, position) = MovedRows(lineup, which, order, position)
  BY <1>1 DEF OneRow, PutRows, MovedRows, Moved
<1>5. /\ OneRowEach(MovedRows(lineup, which, order, position))
      /\ \A p \in Squad, h \in Hand :
           IF <<p, h>> \in which
             THEN Holds(MovedRows(lineup, which, order, position), p, h, order, position)
             ELSE Keeps(MovedRows(lineup, which, order, position), lineup, p, h)
  BY <1>2, RowsMoved
<1> QED BY <1>1, <1>3, <1>5

-----------------------------------------------------------------------------
(* A row of t_rotation for each pitcher, and slots for starters alone. *)

OneTurnEach(rotation) ==
  /\ rotation \subseteq RotationRow
  /\ \A r, q \in rotation : r.player = q.player => r = q
  /\ \A r \in rotation : r.slot # 0 => r.player.position = 1

\* A player of the team bats only where he plays, and plays what he was
\* created for.
SoundPlace(p, r) ==
  /\ r.order \in 0 .. Slots /\ r.position \in {0, p.position}
  /\ r.order # 0 => r.position # 0

PlaceInv ==
  /\ OneRowEach(t_lineup)
  /\ \A p \in Squad, h \in Hand : SoundPlace(p, Row(t_lineup, p, h))
  /\ DOMAIN sending \subseteq Listed \X Hand
  /\ \A row \in DOMAIN sending : SoundPlace(row[1], sending[row])
  /\ OneTurnEach(t_rotation)
  /\ evening = "set lineup" => new_starter = NextStarters(t_rotation, Team)
  /\ intact \in [Hand -> BOOLEAN] /\ follows \in [Hand -> BOOLEAN]

LEMMA PositionsSmall ==
  \A p \in Squad : p.position \in 0 .. Slots
BY SquadAssumption

LEMMA RestHeld ==
  ASSUME NEW lineup, NEW p, NEW h, NEW order, NEW position,
         Holds(lineup, p, h, order, position), order \in 0 .. Slots,
         position \in {0, p.position}, order # 0 => position # 0
  PROVE  SoundPlace(p, Row(lineup, p, h))
BY DEF Holds, SoundPlace

LEMMA RestKept ==
  ASSUME NEW now, NEW before, NEW p, NEW h, Keeps(now, before, p, h),
         SoundPlace(p, Row(before, p, h))
  PROVE  SoundPlace(p, Row(now, p, h))
BY DEF Keeps, SoundPlace

LEMMA TurnsUntouched ==
  ASSUME OneTurnEach(t_rotation), NEW n
  PROVE  OneTurnEach(WithoutNext(t_rotation)) /\ OneTurnEach(WithNext(t_rotation, n))
<1> DEFINE Put(r, b) == [r EXCEPT !.next = b]
<1>1. \A r \in t_rotation : r \in RotationRow
  BY DEF OneTurnEach
<1>2. \A r \in t_rotation, b \in BOOLEAN :
        Put(r, b) \in RotationRow /\ Put(r, b).slot = r.slot /\ Put(r, b).player = r.player
  BY <1>1 DEF RotationRow
<1>3. WithoutNext(t_rotation) = {Put(r, FALSE) : r \in t_rotation}
  BY DEF WithoutNext
<1>4. WithNext(t_rotation, n) = {IF r.slot = n THEN Put(r, TRUE) ELSE r : r \in t_rotation}
  BY DEF WithNext
<1> HIDE DEF Put
<1>5. /\ \A r, q \in t_rotation : r.player = q.player => r = q
      /\ \A r \in t_rotation : r.slot # 0 => r.player.position = 1
  BY DEF OneTurnEach
<1>6. OneTurnEach(WithoutNext(t_rotation))
  <2> DEFINE Off(s) == Put(s, FALSE)
  <2>1. \A r \in WithoutNext(t_rotation) : \E s \in t_rotation : r = Off(s)
    BY <1>3
  <2>2. \A s \in t_rotation :
          Off(s) \in RotationRow /\ Off(s).slot = s.slot /\ Off(s).player = s.player
    BY <1>2
  <2> HIDE DEF Off
  <2>3. \A r, q \in WithoutNext(t_rotation) : r.player = q.player => r = q
    <3> SUFFICES ASSUME NEW s \in t_rotation, NEW t \in t_rotation,
                        Off(s).player = Off(t).player
                 PROVE  Off(s) = Off(t)
      BY <2>1
    <3> QED BY <1>5, <2>2
  <2>4. \A r \in WithoutNext(t_rotation) : r.slot # 0 => r.player.position = 1
    BY <1>5, <2>1, <2>2
  <2>5. WithoutNext(t_rotation) \subseteq RotationRow
    BY <2>1, <2>2
  <2> QED BY <2>3, <2>4, <2>5 DEF OneTurnEach
<1>7. OneTurnEach(WithNext(t_rotation, n))
  <2> DEFINE Now(s) == IF s.slot = n THEN Put(s, TRUE) ELSE s
  <2>1. \A r \in WithNext(t_rotation, n) : \E s \in t_rotation : r = Now(s)
    BY <1>4
  <2>2. \A s \in t_rotation :
          Now(s) \in RotationRow /\ Now(s).slot = s.slot /\ Now(s).player = s.player
    BY <1>1, <1>2
  <2> HIDE DEF Now
  <2>3. \A r, q \in WithNext(t_rotation, n) : r.player = q.player => r = q
    <3> SUFFICES ASSUME NEW s \in t_rotation, NEW t \in t_rotation,
                        Now(s).player = Now(t).player
                 PROVE  Now(s) = Now(t)
      BY <2>1
    <3> QED BY <1>5, <2>2
  <2>4. \A r \in WithNext(t_rotation, n) : r.slot # 0 => r.player.position = 1
    BY <1>5, <2>1, <2>2
  <2>5. WithNext(t_rotation, n) \subseteq RotationRow
    BY <2>1, <2>2
  <2> QED BY <2>3, <2>4, <2>5 DEF OneTurnEach
<1> QED BY <1>6, <1>7

\* Slot n is nobody's but a starter's: update_rotation puts a starter on.
LEMMA NextAreStarters ==
  ASSUME TurnInv, OneTurnEach(t_rotation)
  PROVE  /\ NextStarters(t_rotation, Team) \in SUBSET Squad
         /\ evening \in {"off", "next", "set lineup"} =>
              \E x \in Starters : NextStarters(t_rotation, Team) = {x}
<1>1. \A r \in t_rotation : r.team = Team /\ r.player \in Squad
  BY DEF OneTurnEach, RotationRow, Pitchers
<1>2. ASSUME evening \in {"off", "next", "set lineup"}
      PROVE  \E x \in Starters : NextStarters(t_rotation, Team) = {x}
  <2>1. PICK r \in t_rotation : /\ r.slot \in 1 .. Turns /\ r.next
                                /\ \A q \in t_rotation : q.next => q = r
    BY <1>2 DEF TurnInv, OneNext
  <2>2. r.player.position = 1
    BY <2>1 DEF OneTurnEach
  <2>3. NextStarters(t_rotation, Team) = {r.player}
    BY <1>1, <2>1 DEF NextStarters
  <2> QED BY <1>1, <2>1, <2>2, <2>3 DEF Starters
<1> QED BY <1>1, <1>2 DEF NextStarters

-----------------------------------------------------------------------------
(* init_lineups *)

LEMMA RotationStarts ==
  Init => /\ OneTurnEach(t_rotation)
          /\ FirstStarters(DraftedPitchers) = NextStarters(t_rotation, Team)
<1> SUFFICES ASSUME Init
             PROVE  /\ OneTurnEach(t_rotation)
                    /\ FirstStarters(DraftedPitchers) = NextStarters(t_rotation, Team)
  OBVIOUS
<1>1. t_rotation = SetRotation(DraftedPitchers) /\ t_rotation \subseteq RotationRow
  BY TurnStarts DEF Init, TurnInv, SlotsTaken
<1> DEFINE T(r) == Turn(DraftedPitchers, r)
           Started(r) == [r EXCEPT !.slot = T(r), !.next = (T(r) = 1)]
           Drawn(p) == [team |-> Team, player |-> p, slot |-> p.position, next |-> FALSE]
<1>2. SetRotation(DraftedPitchers)
        = {IF r.player.position = 1 THEN Started(r) ELSE r : r \in DraftedPitchers}
  BY Zenon DEF SetRotation
<1>3. DraftedPitchers = {Drawn(p) : p \in Pitchers}
  BY DEF DraftedPitchers
<1>4. \A p \in Pitchers : Drawn(p).player = p /\ Drawn(p).slot = p.position
                          /\ Started(Drawn(p)).player = p
  OBVIOUS
<1>5. \A p \in Pitchers : p.position \in {0, 1}
  BY SquadAssumption DEF Pitchers
<1> HIDE DEF T, Started, Drawn
<1>6. \A d \in DraftedPitchers : Started(d).player = d.player
                                 /\ (d.player.position # 1 => d.slot = 0)
  BY <1>3, <1>4, <1>5
<1>7. \A d, e \in DraftedPitchers : d.player = e.player => d = e
  BY <1>3, <1>4
<1>8. \A r, q \in t_rotation : r.player = q.player => r = q
  BY <1>1, <1>2, <1>6, <1>7
<1>9. \A r \in t_rotation : r.slot # 0 => r.player.position = 1
  BY <1>1, <1>2, <1>6
<1>10. \A r \in t_rotation : r.team = Team
  BY <1>1 DEF RotationRow
<1>11. FirstStarters(DraftedPitchers) = NextStarters(t_rotation, Team)
  BY <1>1, <1>10 DEF FirstStarters, NextStarters
<1> QED BY <1>1, <1>8, <1>9, <1>11 DEF OneTurnEach

LEMMA DraftedRows ==
  /\ OneRowEach(Drafted)
  /\ \A p \in Squad, h \in Hand : Holds(Drafted, p, h, 0, 0)
<1> DEFINE Bench(p, h) == [team |-> Team, player |-> p, hand |-> h, order |-> 0, position |-> 0]
<1>1. \A r : r \in Drafted <=> \E p \in Squad, h \in Hand : r = Bench(p, h)
  BY DEF Drafted, BenchRows
<1>2. \A p \in Squad, h \in Hand :
        /\ Bench(p, h) \in LineupRow /\ Bench(p, h).player = p /\ Bench(p, h).hand = h
        /\ Bench(p, h).order = 0 /\ Bench(p, h).position = 0
  BY SquadAssumption DEF LineupRow
<1> HIDE DEF Bench
<1>3. \A p \in Squad, h \in Hand :
        /\ Bench(p, h) \in Drafted
        /\ \A q \in Drafted : q.player = p /\ q.hand = h => q = Bench(p, h)
  BY <1>1, <1>2
<1>4. OneRowEach(Drafted)
  BY <1>1, <1>2, <1>3 DEF OneRowEach
<1>5. \A p \in Squad, h \in Hand : Row(Drafted, p, h) = Bench(p, h)
  BY <1>3, <1>4, RowIs
<1> QED BY <1>2, <1>4, <1>5 DEF Holds

\* The hitters of a hand get the slot before their position, the others stay.
LEMMA HittersInserted ==
  ASSUME NEW lineup, OneRowEach(lineup), NEW hand \in Hand,
         NEW best, \A p \in best : p \in Squad /\ p.position > 1
  PROVE  /\ OneRowEach(InsertLineups(lineup, hand, best))
         /\ \A p \in Squad, h \in Hand :
              IF h = hand /\ p \in best
                THEN Holds(InsertLineups(lineup, hand, best), p, h, p.position - 1, p.position)
                ELSE Keeps(InsertLineups(lineup, hand, best), lineup, p, h)
<1> DEFINE Best(r) == [r EXCEPT !.order = r.player.position - 1, !.position = r.player.position]
           f == [r \in lineup |-> IF r.hand = hand /\ r.player \in best THEN Best(r) ELSE r]
           put == InsertLineups(lineup, hand, best)
<1>1. \A r \in lineup : r \in LineupRow
  BY DEF OneRowEach
<1>2. \A r \in LineupRow : r.player \in best =>
        /\ Best(r) \in LineupRow /\ Best(r).player = r.player /\ Best(r).hand = r.hand
        /\ Best(r).order = r.player.position - 1 /\ Best(r).position = r.player.position
  <2>1. \A p \in best : p.position - 1 \in 0 .. Slots /\ p.position \in 0 .. Slots
    BY PositionsSmall, SquadAssumption
  <2> QED BY <2>1 DEF LineupRow
<1>3. put = Updated(lineup, f)
  BY DEF Updated, InsertLineups
<1> HIDE DEF Best
<1>4. f \in [lineup -> LineupRow]
      /\ \A r \in lineup : f[r].player = r.player /\ f[r].hand = r.hand
  BY <1>1, <1>2
<1>5. ASSUME NEW p \in Squad, NEW h \in Hand, NEW r, r = Row(lineup, p, h)
      PROVE  /\ r \in LineupRow /\ r.player = p /\ r.hand = h
             /\ f[r] = IF h = hand /\ p \in best THEN Best(r) ELSE r
  <2>1. r \in lineup /\ r \in LineupRow /\ r.player = p /\ r.hand = h
    BY <1>5, RowIs
  <2> QED BY <2>1
<1> HIDE DEF f, put
<1>6. /\ OneRowEach(put)
      /\ \A p \in Squad, h \in Hand : Row(put, p, h) = f[Row(lineup, p, h)]
  BY <1>3, <1>4, RowsUpdated
<1>7. ASSUME NEW p \in Squad, NEW h \in Hand
      PROVE  IF h = hand /\ p \in best
               THEN Holds(put, p, h, p.position - 1, p.position)
               ELSE Keeps(put, lineup, p, h)
  BY <1>2, <1>5, <1>6 DEF Holds, Keeps
<1> QED BY <1>6, <1>7 DEF put

\* The first lineups: everybody has a sound place, and of the pitchers only
\* the first starter bats.
LEMMA LineupsStart ==
  Init => /\ OneRowEach(t_lineup)
          /\ \A p \in Squad, h \in Hand : SoundPlace(p, Row(t_lineup, p, h))
          /\ \A p \in Pitchers, h \in Hand :
               IF p \in NextStarters(t_rotation, Team)
                 THEN Holds(t_lineup, p, h, Slots, 1)
                 ELSE Row(t_lineup, p, h).order = 0
<1> SUFFICES ASSUME Init
             PROVE  /\ OneRowEach(t_lineup)
                    /\ \A p \in Squad, h \in Hand : SoundPlace(p, Row(t_lineup, p, h))
                    /\ \A p \in Pitchers, h \in Hand :
                         IF p \in NextStarters(t_rotation, Team)
                           THEN Holds(t_lineup, p, h, Slots, 1)
                           ELSE Row(t_lineup, p, h).order = 0
  OBVIOUS
<1> DEFINE starters == NextStarters(t_rotation, Team)
<1>1. PICK right \in BestOf(Drafted), left \in BestOf(Drafted) :
        t_lineup = PutStarters(InsertLineups(InsertLineups(Drafted, "R", right), "L", left),
                               starters)
  BY RotationStarts DEF Init
<1> DEFINE one == InsertLineups(Drafted, "R", right)
           two == InsertLineups(one, "L", left)
<1>2. \A best \in BestOf(Drafted) : \A p \in best : p \in Squad /\ p.position > 1
  BY DraftedRows DEF BestOf, OneRowEach, LineupRow
<1>3. TurnInv /\ evening = "off" /\ OneTurnEach(t_rotation)
  BY TurnStarts, RotationStarts DEF Init
<1>4. starters \in SUBSET Squad /\ \A p \in starters : p.position = 1
  BY <1>3, NextAreStarters DEF Starters
<1> HIDE DEF starters
<1>5. /\ OneRowEach(one)
      /\ \A p \in Squad, h \in Hand :
           IF h = "R" /\ p \in right THEN Holds(one, p, h, p.position - 1, p.position)
                                     ELSE Keeps(one, Drafted, p, h)
  BY <1>2, DraftedRows, HittersInserted DEF Hand
<1> HIDE DEF one
<1>6. /\ OneRowEach(two)
      /\ \A p \in Squad, h \in Hand :
           IF h = "L" /\ p \in left THEN Holds(two, p, h, p.position - 1, p.position)
                                    ELSE Keeps(two, one, p, h)
  BY <1>2, <1>5, HittersInserted DEF Hand
<1> HIDE DEF two
<1>7. /\ OneRowEach(t_lineup)
      /\ \A p \in Squad, h \in Hand :
           IF p \in starters THEN Holds(t_lineup, p, h, Slots, 1) ELSE Keeps(t_lineup, two, p, h)
  BY <1>1, <1>4, <1>6, StartersPut DEF two, one
<1>8. ASSUME NEW p \in Squad, NEW h \in Hand
      PROVE  /\ SoundPlace(p, Row(two, p, h))
             /\ p.position < 2 => Row(two, p, h).order = 0
  <2>1. p.position \in 0 .. Slots
    BY PositionsSmall
  <2>2. SoundPlace(p, Row(one, p, h)) /\ (p.position < 2 => Row(one, p, h).order = 0)
    BY <1>2, <1>5, <2>1, DraftedRows, SquadAssumption DEF Holds, Keeps, SoundPlace
  <2> QED BY <1>2, <1>6, <2>1, <2>2, SquadAssumption DEF Holds, Keeps, SoundPlace
<1>9. \A p \in Squad, h \in Hand : SoundPlace(p, Row(t_lineup, p, h))
  BY <1>4, <1>7, <1>8, SquadAssumption DEF Holds, Keeps, SoundPlace
<1>10. \A p \in Pitchers, h \in Hand :
         IF p \in starters THEN Holds(t_lineup, p, h, Slots, 1)
                           ELSE Row(t_lineup, p, h).order = 0
  BY <1>7, <1>8 DEF Keeps, Pitchers
<1> QED BY <1>7, <1>9, <1>10 DEF starters

LEMMA PlacesStart == Init => PlaceInv
BY LineupsStart, RotationStarts DEF Init, PlaceInv, Nothing

-----------------------------------------------------------------------------
(* Every statement leaves everybody in a sound place. *)

LEMMA FormIsSound ==
  ASSUME NEW form \in AcceptedForm, NEW p \in Listed
  PROVE  SoundPlace(p, form[p])
BY DEF AcceptedForm, Accepted, Form, SoundPlace

\* What one update of lineup.pl leaves of the form and of the rows.
LEMMA RowWritten ==
  ASSUME PlaceInv, NEW p \in Listed, NEW h \in Hand, WriteRow(p, h)
  PROVE  /\ OneRowEach(t_lineup')
         /\ DOMAIN sending' = DOMAIN sending \ {<<p, h>>}
         /\ \A row \in DOMAIN sending' : sending'[row] = sending[row]
         /\ \A q \in Squad, g \in Hand :
              IF q = p /\ g = h
                THEN Holds(t_lineup', q, g, sending[<<p, h>>].order, sending[<<p, h>>].position)
                ELSE Keeps(t_lineup', t_lineup, q, g)
<1>1. /\ <<p, h>> \in DOMAIN sending
      /\ t_lineup' = OneRow(t_lineup, p, h, sending[<<p, h>>].order, sending[<<p, h>>].position)
      /\ sending' = [row \in DOMAIN sending \ {<<p, h>>} |-> sending[row]]
  BY DEF WriteRow, OneRow
<1>2. sending[<<p, h>>].order \in 0 .. Slots /\ sending[<<p, h>>].position \in 0 .. Slots
  BY <1>1, PositionsSmall, SquadAssumption DEF PlaceInv, SoundPlace, Listed
<1> QED BY <1>1, <1>2, OneRowPut DEF PlaceInv, Listed

LEMMA PlaceStep == TurnInv /\ PlaceInv /\ [Next]_vars => PlaceInv'
<1> SUFFICES ASSUME TurnInv, PlaceInv, [Next]_vars PROVE PlaceInv'
  OBVIOUS
<1>1. CASE UNCHANGED vars
  BY <1>1 DEF vars, rotating, history, PlaceInv
<1>2. CASE Evening
  BY <1>2 DEF Evening, PlaceInv
<1>3. ASSUME NEW slot \in due, ResetRotation(slot) PROVE PlaceInv'
  BY <1>3, TurnsUntouched DEF ResetRotation, PlaceInv, history
<1>4. CASE ResetLineup
  <2>1. /\ OneRowEach(t_lineup')
        /\ \A p \in Squad, h \in Hand : IF Row(t_lineup, p, h).position = 1
                                          THEN Holds(t_lineup', p, h, 0, 0)
                                          ELSE Keeps(t_lineup', t_lineup, p, h)
    BY <1>4, PitcherTaken DEF ResetLineup, PlaceInv
  <2>2. \A p \in Squad, h \in Hand : SoundPlace(p, Row(t_lineup', p, h))
    <3> TAKE p \in Squad, h \in Hand
    <3>1. SoundPlace(p, Row(t_lineup, p, h))
      BY DEF PlaceInv
    <3>2. CASE Row(t_lineup, p, h).position = 1
      BY <2>1, <3>2, SquadAssumption, RestHeld
    <3>3. CASE Row(t_lineup, p, h).position # 1
      BY <2>1, <3>1, <3>3, RestKept
    <3> QED BY <3>2, <3>3
  <2> QED BY <1>4, <2>1, <2>2 DEF ResetLineup, PlaceInv, history
<1>5. CASE SetNext
  <2>1. PICK r \in t_rotation : r.slot = Successor(turning) /\ new_starter' = {r.player}
    BY <1>5 DEF SetNext
  <2>2. /\ evening = "set rotation" /\ evening' = "set lineup"
        /\ t_rotation' = WithNext(t_rotation, Successor(turning))
        /\ UNCHANGED <<t_lineup, due, turning, sending, history>>
    BY <1>5 DEF SetNext
  <2>3. OneTurnEach(t_rotation')
    BY <2>2, TurnsUntouched DEF PlaceInv
  <2>4. /\ Successor(turning) \in 1 .. Turns
        /\ \A q \in t_rotation : q.slot = Successor(turning) => q = r
    BY <2>1, <2>2, SuccessorIsSlot DEF TurnInv, SlotsTaken
  <2> DEFINE now == [r EXCEPT !.next = TRUE]
  <2>5. now \in t_rotation' /\ now.next /\ now.team = Team /\ now.player = r.player
    BY <2>1, <2>2 DEF WithNext, PlaceInv, OneTurnEach, RotationRow
  <2>6. \A q \in t_rotation' : q.next => q = now
    BY <2>1, <2>2, <2>4 DEF WithNext, TurnInv
  <2> HIDE DEF now
  <2>7. new_starter' = NextStarters(t_rotation', Team)
    BY <2>1, <2>5, <2>6 DEF NextStarters
  <2> QED BY <2>2, <2>3, <2>7 DEF PlaceInv, history
<1>6. CASE SetLineup
  <2>1. \E x \in Starters : new_starter = {x}
    BY <1>6, NextAreStarters DEF SetLineup, PlaceInv
  <2>2. \A p \in new_starter : p \in Squad /\ p.position = 1
    BY <2>1 DEF Starters
  <2>3. /\ OneRowEach(t_lineup')
        /\ \A p \in Squad, h \in Hand : IF p \in new_starter
                                          THEN Holds(t_lineup', p, h, Slots, 1)
                                          ELSE Keeps(t_lineup', t_lineup, p, h)
    BY <1>6, <2>2, StartersPut DEF SetLineup, PlaceInv
  <2>4. \A p \in Squad, h \in Hand : SoundPlace(p, Row(t_lineup', p, h))
    <3> TAKE p \in Squad, h \in Hand
    <3>1. SoundPlace(p, Row(t_lineup, p, h))
      BY DEF PlaceInv
    <3>2. CASE p \in new_starter
      BY <2>2, <2>3, <3>2, SquadAssumption, RestHeld
    <3>3. CASE p \notin new_starter
      BY <2>3, <3>1, <3>3, RestKept
    <3> QED BY <3>2, <3>3
  <2> QED BY <1>6, <2>3, <2>4 DEF SetLineup, PlaceInv, history
<1>7. CASE EveningOver
  BY <1>7 DEF EveningOver, PlaceInv, history
<1>8. ASSUME NEW h \in Hand, NEW form \in AcceptedForm, Submit(h, form) PROVE PlaceInv'
  <2>1. \A p \in Listed : SoundPlace(p, form[p])
    BY FormIsSound
  <2>2. sending' = [row \in Listed \X {h} |-> form[row[1]]]
    BY <1>8 DEF Submit
  <2>3. /\ DOMAIN sending' \subseteq Listed \X Hand
        /\ \A row \in DOMAIN sending' : SoundPlace(row[1], sending'[row])
    BY <2>1, <2>2
  <2>4. intact' \in [Hand -> BOOLEAN] /\ follows' \in [Hand -> BOOLEAN]
    BY <1>8 DEF Submit, PlaceInv, PitcherLast
  <2> QED BY <1>8, <2>3, <2>4 DEF Submit, PlaceInv, rotating
<1>9. ASSUME NEW p \in Listed, NEW h \in Hand, WriteRow(p, h) PROVE PlaceInv'
  <2>1. /\ <<p, h>> \in DOMAIN sending /\ UNCHANGED <<t_rotation, rotating, follows>>
        /\ intact' = [intact EXCEPT ![h] = @ /\ ~disturbed /\ evening = "off"]
    BY <1>9 DEF WriteRow
  <2>2. /\ DOMAIN sending' \subseteq Listed \X Hand
        /\ \A row \in DOMAIN sending' : SoundPlace(row[1], sending'[row])
    BY <1>9, RowWritten DEF PlaceInv
  <2>3. SoundPlace(p, sending[<<p, h>>])
    BY <2>1 DEF PlaceInv
  <2>4. \A q \in Squad, g \in Hand : SoundPlace(q, Row(t_lineup', q, g))
    <3> TAKE q \in Squad, g \in Hand
    <3>1. SoundPlace(q, Row(t_lineup, q, g))
      BY DEF PlaceInv
    <3>2. CASE q = p /\ g = h
      <4>1. Holds(t_lineup', p, h, sending[<<p, h>>].order, sending[<<p, h>>].position)
        BY <1>9, <3>2, RowWritten
      <4> QED BY <2>3, <3>2, <4>1, RestHeld DEF SoundPlace
    <3>3. CASE ~(q = p /\ g = h)
      BY <1>9, <3>1, <3>3, RowWritten, RestKept
    <3> QED BY <3>2, <3>3
  <2>5. OneRowEach(t_lineup')
    BY <1>9, RowWritten
  <2>6. intact' \in [Hand -> BOOLEAN]
    BY <2>1 DEF PlaceInv
  <2> QED BY <2>1, <2>2, <2>4, <2>5, <2>6 DEF PlaceInv, rotating
<1> QED
  BY <1>1, <1>2, <1>3, <1>4, <1>5, <1>6, <1>7, <1>8, <1>9 DEF Next, UpdateRotation, LineupPage

LEMMA PlacesKept == Spec => [](TurnInv /\ PlaceInv)
<1>1. Init => TurnInv /\ PlaceInv
  BY TurnStarts, PlacesStart
<1>2. TurnInv /\ PlaceInv /\ [Next]_vars => (TurnInv /\ PlaceInv)'
  BY TurnStep, PlaceStep
<1> QED BY <1>1, <1>2, PTL DEF Spec

-----------------------------------------------------------------------------
(* The pitcher of the lineup is the next starter. *)

\* Of the pitchers, only the next starter bats.
Right(h) ==
  \A p \in Pitchers : IF p \in NextStarters(t_rotation, Team)
                        THEN Holds(t_lineup, p, h, Slots, 1)
                        ELSE Row(t_lineup, p, h).order = 0
\* While none is next, no pitcher bats.
Clear(h) == \A p \in Pitchers : Row(t_lineup, p, h).order = 0

FollowInv ==
  \A h \in Hand : follows[h] =>
    /\ ~WritingOf(h)
    /\ evening = "off" \/ (evening = "next" /\ due = {}) => Right(h)
    /\ evening \in {"set rotation", "set lineup"} => Clear(h)

LEMMA FollowStarts == Init => FollowInv
BY LineupsStart DEF FollowInv, Init, Nothing, WritingOf, Right

LEMMA FollowStep == TurnInv /\ PlaceInv /\ FollowInv /\ [Next]_vars => FollowInv'
<1> SUFFICES ASSUME TurnInv, PlaceInv, FollowInv, [Next]_vars,
                    NEW h \in Hand, follows'[h]
             PROVE  /\ ~WritingOf(h)'
                    /\ evening' = "off" \/ (evening' = "next" /\ due' = {}) => Right(h)'
                    /\ evening' \in {"set rotation", "set lineup"} => Clear(h)'
  BY DEF FollowInv
<1> USE DEF WritingOf
<1>1. CASE UNCHANGED vars
  BY <1>1 DEF vars, rotating, history, FollowInv, Right, Clear
<1>2. CASE Evening
  <2>1. /\ evening = "off" /\ evening' = "next" /\ sending' = sending
        /\ due' = {r.slot : r \in {q \in t_rotation : q.next}}
        /\ follows' = [g \in Hand |-> ~WritingOf(g)]
    BY <1>2 DEF Evening
  <2>2. due' # {}
    BY <2>1 DEF TurnInv, OneNext
  <2> QED BY <2>1, <2>2
<1>3. ASSUME NEW slot \in due, ResetRotation(slot) PROVE ~WritingOf(h)' /\ evening' = "reset lineup"
  BY <1>3 DEF ResetRotation, FollowInv, history
<1>4. CASE ResetLineup
  <2>1. /\ evening' = "set rotation" /\ follows[h] /\ sending' = sending
        /\ t_lineup' = WithoutPitcher(t_lineup)
    BY <1>4 DEF ResetLineup, history
  <2>2. ASSUME NEW p \in Pitchers PROVE Row(t_lineup', p, h).order = 0
    <3>1. p \in Squad /\ p.position \in {0, 1}
      BY PositionsSmall, SquadAssumption DEF Pitchers
    <3>2. IF Row(t_lineup, p, h).position = 1 THEN Holds(t_lineup', p, h, 0, 0)
                                              ELSE Keeps(t_lineup', t_lineup, p, h)
      BY <2>1, <3>1, PitcherTaken DEF PlaceInv
    <3>3. SoundPlace(p, Row(t_lineup, p, h))
      BY <3>1 DEF PlaceInv
    <3> QED BY <3>1, <3>2, <3>3 DEF SoundPlace, Holds, Keeps
  <2> QED BY <2>1, <2>2 DEF FollowInv, Clear
<1>5. CASE SetNext
  BY <1>5 DEF SetNext, FollowInv, Clear, history
<1>6. CASE SetLineup
  <2>1. /\ evening = "set lineup" /\ evening' = "next" /\ follows[h] /\ sending' = sending
        /\ t_lineup' = PutStarters(t_lineup, new_starter)
        /\ t_rotation' = t_rotation
    BY <1>6 DEF SetLineup, history
  <2>2. /\ new_starter = NextStarters(t_rotation, Team)
        /\ new_starter \in SUBSET Squad
    BY <2>1, NextAreStarters DEF PlaceInv
  <2>3. ASSUME NEW p \in Pitchers
        PROVE  IF p \in new_starter THEN Holds(t_lineup', p, h, Slots, 1)
                                    ELSE Row(t_lineup', p, h).order = 0
    <3>1. p \in Squad /\ Row(t_lineup, p, h).order = 0
      BY <2>1 DEF FollowInv, Clear, Pitchers
    <3>2. IF p \in new_starter THEN Holds(t_lineup', p, h, Slots, 1)
                               ELSE Keeps(t_lineup', t_lineup, p, h)
      BY <2>1, <2>2, <3>1, StartersPut DEF PlaceInv
    <3> QED BY <3>1, <3>2 DEF Keeps
  <2>4. Right(h)'
    BY <2>1, <2>2, <2>3 DEF Right
  <2> QED BY <2>1, <2>4 DEF FollowInv
<1>7. CASE EveningOver
  BY <1>7 DEF EveningOver, FollowInv, Right, history
<1>8. ASSUME NEW g \in Hand, NEW form \in AcceptedForm, Submit(g, form)
      PROVE  g # h /\ follows[h] /\ ~WritingOf(h)'
             /\ UNCHANGED <<t_lineup, t_rotation, rotating>>
  <2>1. /\ sending' = [row \in Listed \X {g} |-> form[row[1]]]
        /\ follows' = [follows EXCEPT ![g] = FALSE]
        /\ UNCHANGED <<t_lineup, t_rotation, rotating>>
    BY <1>8 DEF Submit
  <2>2. g # h /\ follows[h]
    BY <2>1 DEF PlaceInv
  <2> QED BY <2>1, <2>2
<1>9. ASSUME NEW p \in Listed, NEW g \in Hand, WriteRow(p, g)
      PROVE  /\ follows[h] /\ ~WritingOf(h)' /\ UNCHANGED <<t_rotation, rotating>>
             /\ \A q \in Pitchers : Keeps(t_lineup', t_lineup, q, h)
  <2>1. /\ <<p, g>> \in DOMAIN sending /\ p \in Squad
        /\ UNCHANGED <<t_rotation, rotating, follows>>
    BY <1>9 DEF WriteRow, Listed
  <2>2. follows[h] /\ ~WritingOf(h) /\ g # h
    BY <2>1 DEF FollowInv
  <2> QED BY <1>9, <2>1, <2>2, RowWritten DEF Pitchers
<1>10. CASE LineupPage
  <2>1. CASE \E g \in Hand, form \in AcceptedForm : Submit(g, form)
    BY <1>8, <2>1 DEF FollowInv, Right, Clear, rotating
  <2>2. CASE \E p \in Listed, g \in Hand : WriteRow(p, g)
    <3>1. /\ follows[h] /\ ~WritingOf(h)' /\ UNCHANGED <<t_rotation, rotating>>
          /\ \A q \in Pitchers : Keeps(t_lineup', t_lineup, q, h)
      BY <1>9, <2>2
    <3>2. (Right(h) => Right(h)') /\ (Clear(h) => Clear(h)')
      BY <3>1 DEF Right, Clear, Holds, Keeps, rotating
    <3> QED BY <3>1, <3>2 DEF FollowInv, rotating
  <2> QED BY <1>10, <2>1, <2>2 DEF LineupPage
<1> QED
  BY <1>1, <1>2, <1>3, <1>4, <1>5, <1>6, <1>7, <1>10 DEF Next, UpdateRotation

\* Whatever was done to a lineup, with squads and rotations of any size: after
\* the next evening a game finds the next starter on the mound, and him alone,
\* and nobody of the bullpen in the order.
THEOREM MoundFollowsRotation == Spec => []PitcherFollowsRotation
<1>1. Init => FollowInv
  BY FollowStarts
<1>2. TurnInv /\ PlaceInv /\ FollowInv /\ [Next]_vars => FollowInv'
  BY FollowStep
<1>3. TurnInv /\ PlaceInv /\ FollowInv => PitcherFollowsRotation
  <2> SUFFICES ASSUME TurnInv, PlaceInv, FollowInv, AtRest, NEW h \in Hand, follows[h]
               PROVE  /\ AtPosition(t_lineup, Team, h, 1) = NextStarters(t_rotation, Team)
                      /\ \A x \in Bullpen(t_rotation, Team) : Row(t_lineup, x, h).order = 0
    BY DEF PitcherFollowsRotation
  <2>1. Right(h) /\ evening = "off"
    BY DEF AtRest, FollowInv
  <2>2. \A r \in t_rotation : r.team = Team /\ r.player \in Pitchers
    BY DEF PlaceInv, OneTurnEach, RotationRow
  <2>3. \A x \in Bullpen(t_rotation, Team) :
          x \in Pitchers /\ x \notin NextStarters(t_rotation, Team)
    BY <2>2 DEF Bullpen, NextStarters, PlaceInv, OneTurnEach
  <2>4. PICK x \in Starters : NextStarters(t_rotation, Team) = {x}
    BY <2>1, NextAreStarters DEF PlaceInv
  <2>5. Holds(t_lineup, x, h, Slots, 1) /\ x \in Squad
    BY <2>1, <2>4 DEF Right, Starters, Pitchers
  <2>6. Row(t_lineup, x, h) \in t_lineup /\ Row(t_lineup, x, h).player = x
        /\ Row(t_lineup, x, h).hand = h /\ Row(t_lineup, x, h).team = Team
    <3>1. OneRowEach(t_lineup)
      BY DEF PlaceInv
    <3>2. Row(t_lineup, x, h) \in LineupRow
      BY <2>5, <3>1, RowIs
    <3> QED BY <2>5, <3>1, <3>2, RowIs DEF LineupRow
  <2>7. x \in AtPosition(t_lineup, Team, h, 1)
    BY <2>5, <2>6, SquadAssumption DEF AtPosition, Holds
  <2>8. ASSUME NEW r \in t_lineup, r.hand = h, r.order > 0, r.position = 1 PROVE r.player = x
    <3>1. r.player \in Squad /\ r = Row(t_lineup, r.player, h)
      <4>1. OneRowEach(t_lineup) /\ r.player \in Squad
        BY DEF PlaceInv, OneRowEach, LineupRow
      <4> QED BY <2>8, <4>1, RowIs
    <3>2. SoundPlace(r.player, r)
      BY <3>1 DEF PlaceInv
    <3>3. r.player \in Pitchers /\ Row(t_lineup, r.player, h).order # 0
      BY <2>8, <3>1, <3>2 DEF SoundPlace, Pitchers
    <3> QED BY <2>1, <2>4, <3>3 DEF Right
  <2>9. AtPosition(t_lineup, Team, h, 1) = {x}
    BY <2>7, <2>8 DEF AtPosition
  <2> QED BY <2>1, <2>3, <2>4, <2>9 DEF Right
<1> QED BY <1>1, <1>2, <1>3, PlacesKept, PTL DEF Spec

-----------------------------------------------------------------------------
(* One man bats in each slot and one plays each position. *)

Single(S) == \E x \in S : \A y \in S : y = x

\* Where a player is, or will be when the form is written.
Place(p, h) ==
  IF <<p, h>> \in DOMAIN sending THEN sending[<<p, h>>] ELSE Row(t_lineup, p, h)
Bats(h, n) == {p \in Squad : Place(p, h).order = n}
Plays(h, n) == {p \in Squad : Place(p, h).order # 0 /\ Place(p, h).position = n}

\* The pitcher is the one who bats last; update_rotation takes him off and
\* puts the next one on.
Filled(h) ==
  /\ \A n \in 1 .. (Slots - 1) : Single(Bats(h, n))
  /\ \A n \in 2 .. Slots : Single(Plays(h, n))
  /\ Bats(h, Slots) = Plays(h, 1)
  /\ IF evening \in {"set rotation", "set lineup"} THEN Plays(h, 1) = {}
                                                   ELSE Single(Plays(h, 1))

ManInv ==
  /\ Writing /\ ~disturbed => evening = "off"
  /\ \A h \in Hand : intact[h] /\ ~(WritingOf(h) /\ disturbed) => Filled(h)

LEMMA OneCounts ==
  ASSUME NEW S, IsFiniteSet(S)
  PROVE  Cardinality(S) = 1 <=> Single(S)
<1>1. ASSUME NEW x \in S, \A y \in S : y = x PROVE S = {x}
  BY <1>1
<1> QED BY <1>1, FS_Singleton DEF Single

\* A slot for each batter and a position for each slot: as nobody bats without
\* a position and no position is taken twice, each position has a batter.
LEMMA FormFills ==
  ASSUME NEW form \in AcceptedForm, NEW n \in Slot
  PROVE  /\ Single({p \in Listed : form[p].order = n})
         /\ Single({p \in Listed : form[p].order # 0 /\ form[p].position = n})
<1>1. IsFiniteSet(Listed)
  BY SquadAssumption, FS_Subset DEF Listed
<1> DEFINE At(k) == {p \in Listed : form[p].order = k}
           In(k) == {p \in Listed : form[p].position = k}
<1>2. \A k \in Slot : IsFiniteSet(At(k)) /\ IsFiniteSet(In(k))
  <2>1. \A k \in Slot : At(k) \in SUBSET Listed /\ In(k) \in SUBSET Listed
    OBVIOUS
  <2> QED BY <1>1, <2>1, FS_Subset
<1>3. \A k \in Slot : Cardinality(At(k)) = 1 /\ Cardinality(In(k)) = 1
  BY DEF AcceptedForm, Accepted
<1>4. \A k \in Slot : Single(At(k)) /\ Single(In(k))
  <2> HIDE DEF At, In
  <2> QED BY <1>2, <1>3, OneCounts
<1>5. \A p \in Listed : /\ form[p].order # 0 => form[p].position # 0
                        /\ form[p].position \in 0 .. Slots
  BY SquadAssumption DEF AcceptedForm, Accepted, Form
<1> DEFINE job == [k \in Slot |-> form[CHOOSE p \in Listed : form[p].order = k].position]
<1>6. ASSUME NEW k \in Slot
      PROVE  \E p \in Listed : form[p].order = k /\ job[k] = form[p].position /\ job[k] \in Slot
  <2>1. \E p \in Listed : form[p].order = k
    BY <1>4 DEF Single
  <2>2. PICK p \in Listed : form[p].order = k /\ job[k] = form[p].position
    BY <2>1
  <2>3. k # 0 /\ \A m \in 0 .. Slots : m # 0 => m \in Slot
    BY SquadAssumption DEF Slot
  <2>4. form[p].position # 0 /\ form[p].position \in 0 .. Slots
    BY <1>5, <2>2, <2>3
  <2> QED BY <2>2, <2>3, <2>4
<1> HIDE DEF job
<1>7. job \in Injection(Slot, Slot)
  <2>1. job \in [Slot -> Slot]
    BY <1>6 DEF job
  <2>2. ASSUME NEW k \in Slot, NEW m \in Slot, job[k] = job[m] PROVE k = m
    <3>1. PICK p \in Listed : form[p].order = k /\ job[k] = form[p].position /\ job[k] \in Slot
      BY <1>6
    <3>2. PICK q \in Listed : form[q].order = m /\ job[m] = form[q].position
      BY <1>6
    <3>3. p \in In(job[k]) /\ q \in In(job[k])
      BY <2>2, <3>1, <3>2
    <3>4. p = q
      BY <1>4, <3>1, <3>3 DEF Single
    <3> QED BY <3>1, <3>2, <3>4
  <2> QED BY <2>1, <2>2 DEF Injection, IsInjective
<1>8. IsFiniteSet(Slot)
  BY FS_Interval, SquadAssumption DEF Slot
<1>9. job \in Surjection(Slot, Slot)
  BY <1>7, <1>8, FS_Injection
<1>10. PICK k \in Slot : job[k] = n
  BY <1>9 DEF Surjection
<1>11. PICK p \in Listed : form[p].order = k /\ form[p].position = n
  BY <1>6, <1>10
<1>12. form[p].order # 0
  BY <1>11, SquadAssumption DEF Slot
<1>13. \A q \in Listed : form[q].position = n => q = p
  BY <1>4, <1>11 DEF Single
<1> QED BY <1>4, <1>11, <1>12, <1>13 DEF Single

\* What does not move anybody leaves the lineup filled.
SamePlaces(h) ==
  \A p \in Squad : /\ Place(p, h)'.order = Place(p, h).order
                   /\ Place(p, h)'.position = Place(p, h).position

LEMMA SameFilled ==
  ASSUME NEW h \in Hand, SamePlaces(h), Filled(h),
         evening \in {"set rotation", "set lineup"} <=> evening' \in {"set rotation", "set lineup"}
  PROVE  Filled(h)'
<1>1. \A n : Bats(h, n)' = Bats(h, n) /\ Plays(h, n)' = Plays(h, n)
  BY DEF SamePlaces, Bats, Plays
<1> QED BY <1>1 DEF Filled

LEMMA SingleIs ==
  ASSUME NEW S, NEW T, Single(S), S = T
  PROVE  Single(T)
OBVIOUS

LEMMA PlaceIsSound ==
  ASSUME PlaceInv, NEW p \in Squad, NEW h \in Hand
  PROVE  SoundPlace(p, Place(p, h))
BY DEF PlaceInv, Place

\* The form fills the lineup if its pitcher bats last.
LEMMA SubmitFills ==
  ASSUME PlaceInv, NEW h \in Hand, NEW form \in AcceptedForm, Submit(h, form),
         PitcherLast(form), evening = "off"
  PROVE  Filled(h)'
<1>1. /\ sending' = [row \in Listed \X {h} |-> form[row[1]]]
      /\ t_lineup' = t_lineup /\ evening' = "off" /\ ~Writing
  BY DEF Submit, rotating
<1>2. \A p \in Listed : Place(p, h)' = form[p]
  BY <1>1 DEF Place
<1>3. \A p \in Squad : p \notin Listed => Place(p, h)' = Row(t_lineup, p, h)
  BY <1>1 DEF Place
<1>4. \A p \in Squad : p \notin Listed => Place(p, h)'.order = 0
  <2>1. \A p \in Squad : p \notin Listed => p.position = 0
    BY PositionsSmall, SquadAssumption DEF Listed
  <2>2. \A p \in Squad : SoundPlace(p, Row(t_lineup, p, h))
    BY DEF PlaceInv
  <2> QED BY <1>3, <2>1, <2>2 DEF SoundPlace
<1>5. \A p \in Listed : p \in Squad
  BY DEF Listed
<1> HIDE DEF Place
<1>6. ASSUME NEW n \in Slot
      PROVE  /\ Bats(h, n)' = {p \in Listed : form[p].order = n}
             /\ Plays(h, n)' = {p \in Listed : form[p].order # 0 /\ form[p].position = n}
  <2>1. n # 0
    BY SquadAssumption DEF Slot
  <2> QED BY <1>2, <1>4, <1>5, <2>1 DEF Bats, Plays
<1>7. \A n \in Slot : Single(Bats(h, n)') /\ Single(Plays(h, n)')
  BY <1>6, FormFills
<1>8. /\ 1 \in Slot /\ Slots \in Slot
      /\ \A n \in 1 .. (Slots - 1) : n \in Slot
      /\ \A n \in 2 .. Slots : n \in Slot
  BY SquadAssumption DEF Slot
<1>9. Bats(h, Slots)' = Plays(h, 1)'
  <2>1. \A p \in Plays(h, 1)' : p \in Bats(h, Slots)'
    BY <1>6, <1>8 DEF PitcherLast
  <2> QED BY <1>7, <1>8, <2>1 DEF Single
<1> QED BY <1>1, <1>7, <1>8, <1>9 DEF Filled

\* Taking the pitcher off leaves the others.
LEMMA ResetUnfills ==
  ASSUME PlaceInv, NEW h \in Hand, ResetLineup, Filled(h), ~WritingOf(h)
  PROVE  Filled(h)'
<1>1. /\ evening = "reset lineup" /\ evening' = "set rotation" /\ sending' = sending
      /\ t_lineup' = WithoutPitcher(t_lineup)
  BY DEF ResetLineup
<1>2. \A p \in Squad : /\ Place(p, h) = Row(t_lineup, p, h)
                       /\ Place(p, h)' = Row(t_lineup', p, h)
  BY <1>1 DEF Place, WritingOf
<1>3. \A p \in Squad :
        IF Place(p, h).position = 1
          THEN Place(p, h)'.order = 0
          ELSE /\ Place(p, h)'.order = Place(p, h).order
               /\ Place(p, h)'.position = Place(p, h).position
  <2>1. \A p \in Squad : IF Row(t_lineup, p, h).position = 1
                           THEN Holds(t_lineup', p, h, 0, 0)
                           ELSE Keeps(t_lineup', t_lineup, p, h)
    BY <1>1, PitcherTaken DEF PlaceInv
  <2> QED BY <1>2, <2>1 DEF Holds, Keeps
<1>4. \A p \in Squad : SoundPlace(p, Place(p, h))
  BY PlaceIsSound
<1> HIDE DEF Place
<1>5. ASSUME NEW n \in 2 .. Slots PROVE Plays(h, n)' = Plays(h, n)
  <2>1. n # 1
    BY SquadAssumption
  <2> QED BY <1>3, <2>1 DEF Plays
<1>6. \A p \in Squad : Place(p, h).position = 1 /\ Place(p, h).order # 0 => Place(p, h).order = Slots
  BY DEF Filled, Bats, Plays
<1>7. ASSUME NEW n \in 1 .. (Slots - 1) PROVE Bats(h, n)' = Bats(h, n)
  <2>1. n # 0 /\ n # Slots
    BY SquadAssumption
  <2> QED BY <1>3, <1>6, <2>1 DEF Bats
<1>8. Plays(h, 1)' = {}
  BY <1>3 DEF Plays
<1>9. Bats(h, Slots)' = {}
  <2>1. Slots # 0
    BY SquadAssumption
  <2>2. \A p \in Squad : Place(p, h).order = Slots => Place(p, h).position = 1
    BY DEF Filled, Bats, Plays
  <2> QED BY <1>3, <2>1, <2>2 DEF Bats
<1> QED BY <1>1, <1>5, <1>7, <1>8, <1>9 DEF Filled

\* Putting the next one on fills the lineup again.
LEMMA SetFills ==
  ASSUME TurnInv, PlaceInv, NEW h \in Hand, SetLineup, Filled(h), ~WritingOf(h)
  PROVE  Filled(h)'
<1>1. /\ evening = "set lineup" /\ evening' = "next" /\ sending' = sending
      /\ t_lineup' = PutStarters(t_lineup, new_starter)
  BY DEF SetLineup
<1>2. PICK x \in Starters : new_starter = {x}
  BY <1>1, NextAreStarters DEF PlaceInv
<1>3. x \in Squad /\ x.position = 1
  BY DEF Starters
<1>4. \A p \in Squad : /\ Place(p, h) = Row(t_lineup, p, h)
                       /\ Place(p, h)' = Row(t_lineup', p, h)
  BY <1>1 DEF Place, WritingOf
<1>5. \A p \in Squad :
        IF p = x
          THEN Place(p, h)'.order = Slots /\ Place(p, h)'.position = 1
          ELSE /\ Place(p, h)'.order = Place(p, h).order
               /\ Place(p, h)'.position = Place(p, h).position
  <2>1. new_starter \in SUBSET Squad /\ \A p : p \in new_starter <=> p = x
    BY <1>2, <1>3
  <2>2. \A p \in Squad : IF p = x THEN Holds(t_lineup', p, h, Slots, 1)
                                  ELSE Keeps(t_lineup', t_lineup, p, h)
    BY <1>1, <2>1, StartersPut DEF PlaceInv
  <2> QED BY <1>4, <2>2 DEF Holds, Keeps
<1>6. \A p \in Squad : SoundPlace(p, Place(p, h))
  BY PlaceIsSound
<1> HIDE DEF Place
<1>7. Plays(h, 1) = {} /\ Bats(h, Slots) = {}
  BY <1>1 DEF Filled
<1>8. Place(x, h).order = 0
  BY <1>3, <1>6, <1>7 DEF SoundPlace, Plays
<1>9. ASSUME NEW n \in 2 .. Slots PROVE Plays(h, n)' = Plays(h, n)
  <2>1. n # 1
    BY SquadAssumption
  <2> QED BY <1>5, <1>8, <2>1 DEF Plays
<1>10. ASSUME NEW n \in 1 .. (Slots - 1) PROVE Bats(h, n)' = Bats(h, n)
  <2>1. n # 0 /\ n # Slots
    BY SquadAssumption
  <2> QED BY <1>5, <1>8, <2>1 DEF Bats
<1>11. Slots # 0
  BY SquadAssumption
<1>12. Plays(h, 1)' = {x} /\ Bats(h, Slots)' = {x}
  BY <1>3, <1>5, <1>7, <1>11 DEF Plays, Bats
<1>13. Single(Plays(h, 1)')
  BY <1>12 DEF Single
<1> QED BY <1>1, <1>9, <1>10, <1>12, <1>13 DEF Filled

\* Writing a row of the form makes true what the form already is.
LEMMA WriteFills ==
  ASSUME PlaceInv, NEW p \in Listed, NEW g \in Hand, WriteRow(p, g), NEW h \in Hand
  PROVE  SamePlaces(h)
<1>1. <<p, g>> \in DOMAIN sending
  BY DEF WriteRow
<1>2. ASSUME NEW q \in Squad
      PROVE  /\ Place(q, h)'.order = Place(q, h).order
             /\ Place(q, h)'.position = Place(q, h).position
  <2>1. CASE q = p /\ h = g
    <3>1. <<q, h>> \notin DOMAIN sending'
      BY <2>1, RowWritten
    <3>2. Holds(t_lineup', q, h, sending[<<p, g>>].order, sending[<<p, g>>].position)
      BY <2>1, RowWritten
    <3> QED BY <1>1, <2>1, <3>1, <3>2 DEF Place, Holds
  <2>2. CASE ~(q = p /\ h = g)
    <3>1. <<q, h>> \in DOMAIN sending' <=> <<q, h>> \in DOMAIN sending
      BY <2>2, RowWritten
    <3>2. <<q, h>> \in DOMAIN sending' => sending'[<<q, h>>] = sending[<<q, h>>]
      BY RowWritten
    <3>3. Keeps(t_lineup', t_lineup, q, h)
      BY <2>2, RowWritten
    <3> QED BY <3>1, <3>2, <3>3 DEF Place, Keeps
  <2> QED BY <2>1, <2>2
<1> QED BY <1>2 DEF SamePlaces

LEMMA StayPlaces ==
  ASSUME UNCHANGED <<t_lineup, sending>>, NEW h \in Hand
  PROVE  SamePlaces(h)
BY DEF SamePlaces, Place

LEMMA ManStep == TurnInv /\ PlaceInv /\ ManInv /\ [Next]_vars => ManInv'
<1> SUFFICES ASSUME TurnInv, PlaceInv, ManInv, [Next]_vars PROVE ManInv'
  OBVIOUS
<1> DEFINE Sure(h) == intact[h] /\ ~(WritingOf(h) /\ disturbed)
<1>1. \A h \in Hand : Sure(h) => Filled(h)
  BY DEF ManInv
<1>2. \A h \in Hand : WritingOf(h) => Writing
  BY DEF WritingOf, Writing
<1>3. CASE UNCHANGED vars \/ EveningOver \/ SetNext \/ \E slot \in due : ResetRotation(slot)
  <2>1. /\ UNCHANGED <<t_lineup, sending, history>>
        /\ evening' = evening \/ evening # "off"
        /\ evening \in {"set rotation", "set lineup"} <=> evening' \in {"set rotation", "set lineup"}
    BY <1>3 DEF vars, rotating, EveningOver, SetNext, ResetRotation
  <2>2. \A h \in Hand : Sure(h)' => Filled(h)'
    BY <1>1, <2>1, SameFilled, StayPlaces DEF WritingOf, history
  <2>3. (Writing /\ ~disturbed => evening = "off")'
    BY <2>1 DEF ManInv, Writing, history
  <2> QED BY <2>2, <2>3 DEF ManInv
<1>4. CASE Evening
  <2>1. /\ UNCHANGED <<t_lineup, sending, intact>> /\ disturbed' = Writing
        /\ evening = "off" /\ evening' = "next"
    BY <1>4 DEF Evening
  <2>2. ASSUME NEW h \in Hand, Sure(h)' PROVE Filled(h)'
    <3>1. Sure(h)
      BY <1>2, <2>1, <2>2 DEF WritingOf
    <3> QED BY <1>1, <2>1, <3>1, SameFilled, StayPlaces
  <2>3. (Writing /\ ~disturbed => evening = "off")'
    BY <2>1 DEF Writing
  <2> QED BY <2>2, <2>3 DEF ManInv
<1>5. CASE ResetLineup \/ SetLineup
  <2>1. UNCHANGED <<sending, history>> /\ evening # "off"
    BY <1>5 DEF ResetLineup, SetLineup
  <2>2. ASSUME NEW h \in Hand, Sure(h)' PROVE Filled(h)'
    <3>1. Filled(h) /\ ~WritingOf(h)
      BY <1>1, <1>2, <2>1, <2>2 DEF ManInv, WritingOf, history
    <3> QED BY <1>5, <3>1, ResetUnfills, SetFills
  <2>3. (Writing /\ ~disturbed => evening = "off")'
    BY <2>1 DEF ManInv, Writing, history
  <2> QED BY <2>2, <2>3 DEF ManInv
<1>6. ASSUME NEW g \in Hand, NEW form \in AcceptedForm, Submit(g, form) PROVE ManInv'
  <2>1. /\ ~Writing /\ sending' = [row \in Listed \X {g} |-> form[row[1]]]
        /\ disturbed' = (evening # "off")
        /\ intact' = [intact EXCEPT ![g] = PitcherLast(form) /\ evening = "off"]
        /\ UNCHANGED <<t_lineup, evening>>
    BY <1>6 DEF Submit, rotating
  <2>2. ASSUME NEW h \in Hand, h # g, Sure(h)' PROVE Filled(h)'
    <3>1. Sure(h)
      BY <1>2, <2>1, <2>2 DEF PlaceInv
    <3>2. \A p \in Squad : <<p, h>> \notin DOMAIN sending' /\ <<p, h>> \notin DOMAIN sending
      BY <2>1, <2>2 DEF Writing
    <3>3. SamePlaces(h)
      BY <2>1, <3>2 DEF SamePlaces, Place
    <3> QED BY <1>1, <2>1, <3>1, <3>3, SameFilled
  <2>3. Sure(g)' => Filled(g)'
    BY <1>6, <2>1, SubmitFills DEF PlaceInv
  <2> QED BY <2>1, <2>2, <2>3 DEF ManInv
<1>7. ASSUME NEW p \in Listed, NEW g \in Hand, WriteRow(p, g) PROVE ManInv'
  <2>1. /\ UNCHANGED rotating /\ <<p, g>> \in DOMAIN sending
        /\ sending' = [row \in DOMAIN sending \ {<<p, g>>} |-> sending[row]]
        /\ intact' = [intact EXCEPT ![g] = @ /\ ~disturbed /\ evening = "off"]
        /\ disturbed' = (disturbed /\ DOMAIN sending # {<<p, g>>})
    BY <1>7 DEF WriteRow
  <2>2. ASSUME NEW h \in Hand, Sure(h)' PROVE Sure(h)
    <3>1. CASE h = g
      BY <2>1, <2>2, <3>1 DEF PlaceInv
    <3>2. CASE h # g
      <4>1. intact[h]
        BY <2>1, <2>2, <3>2 DEF PlaceInv
      <4>2. WritingOf(h)' <=> WritingOf(h)
        BY <2>1, <3>2 DEF WritingOf
      <4>3. WritingOf(h) => DOMAIN sending # {<<p, g>>}
        BY <3>2 DEF WritingOf
      <4> QED BY <2>1, <2>2, <4>1, <4>2, <4>3
    <3> QED BY <3>1, <3>2
  <2>3. \A h \in Hand : Sure(h)' => Filled(h)'
    BY <1>1, <1>7, <2>1, <2>2, SameFilled, WriteFills DEF rotating
  <2>4. (Writing /\ ~disturbed => evening = "off")'
    <3>1. Writing' => DOMAIN sending # {<<p, g>>}
      BY <2>1 DEF Writing
    <3> QED BY <2>1, <3>1 DEF ManInv, Writing, rotating
  <2> QED BY <2>3, <2>4 DEF ManInv
<1> QED
  BY <1>3, <1>4, <1>5, <1>6, <1>7 DEF Next, UpdateRotation, LineupPage

\* A lineup that once was complete, its pitcher last, is complete on every later
\* day: update_rotation, which looks at no lineup, puts on one man for each one
\* it takes off.
THEOREM LineupsStayFilled == Spec => []OneManEach
<1>1. Init => ManInv
  BY DEF Init, ManInv, Writing, Nothing
<1>2. TurnInv /\ PlaceInv /\ ManInv /\ [Next]_vars => ManInv'
  BY ManStep
<1>3. PlaceInv /\ ManInv => OneManEach
  <2> SUFFICES ASSUME PlaceInv, ManInv, AtRest, NEW h \in Hand, intact[h], NEW n \in Slot
               PROVE  /\ Cardinality(InSlot(t_lineup, Team, h, n)) = 1
                      /\ Cardinality(AtPosition(t_lineup, Team, h, n)) = 1
    BY DEF OneManEach
  <2>1. Filled(h) /\ evening = "off" /\ DOMAIN sending = {}
    BY DEF ManInv, AtRest, Writing, WritingOf
  <2>2. Single(Bats(h, n)) /\ Single(Plays(h, n))
    <3>1. /\ n # Slots => n \in 1 .. (Slots - 1)
          /\ n # 1 => n \in 2 .. Slots
      BY SquadAssumption DEF Slot
    <3> QED BY <2>1, <3>1 DEF Filled
  <2>3. \A p \in Squad : Place(p, h) = Row(t_lineup, p, h)
    BY <2>1 DEF Place
  <2>4. \A p \in Squad :
          /\ Row(t_lineup, p, h) \in t_lineup /\ Row(t_lineup, p, h) \in LineupRow
          /\ Row(t_lineup, p, h).player = p /\ Row(t_lineup, p, h).hand = h
    <3>1. OneRowEach(t_lineup)
      BY DEF PlaceInv
    <3> QED BY <3>1, RowIs
  <2>5. \A r \in t_lineup : r.hand = h => r.player \in Squad /\ r = Row(t_lineup, r.player, h)
    <3> TAKE r \in t_lineup
    <3>1. r.player \in Squad
      BY DEF PlaceInv, OneRowEach, LineupRow
    <3>2. OneRowEach(t_lineup)
      BY DEF PlaceInv
    <3> QED BY <3>1, <3>2, RowIs
  <2>6. \A r \in LineupRow : r.team = Team /\ r.order \in 0 .. Slots
    BY DEF LineupRow
  <2>7. \A k \in 0 .. Slots : k > 0 <=> k # 0
    BY SquadAssumption
  <2>8. InSlot(t_lineup, Team, h, n) = Bats(h, n)
    BY <2>3, <2>4, <2>5, <2>6 DEF InSlot, Bats
  <2>9. AtPosition(t_lineup, Team, h, n) = Plays(h, n)
    BY <2>3, <2>4, <2>5, <2>6, <2>7 DEF AtPosition, Plays
  <2>10. IsFiniteSet(Bats(h, n)) /\ IsFiniteSet(Plays(h, n))
    <3>1. Bats(h, n) \in SUBSET Squad /\ Plays(h, n) \in SUBSET Squad
      BY DEF Bats, Plays
    <3> QED BY <3>1, SquadAssumption, FS_Subset
  <2> QED BY <2>2, <2>8, <2>9, <2>10, OneCounts
<1> QED BY <1>1, <1>2, <1>3, PlacesKept, PTL DEF Spec
=============================================================================
