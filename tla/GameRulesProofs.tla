-------------------------- MODULE GameRulesProofs --------------------------
(***************************************************************************)
(* sim_game_batch implements the rules of BaseballRules: FollowsRules for  *)
(* every lineup size, number of innings and number of outs.  And what a    *)
(* plate appearance does to the men on the bases: nobody vanishes, and the *)
(* runners stay in the order of the lineup.                                *)
(***************************************************************************)
EXTENDS GameProofs

\* What the rules need to know of a game besides the types: a new game is
\* level with nobody on base, and inning_over is set only between a third out and the next batter.
ClockKept ==
  /\ pc = "start" => \A t \in Team : runs[t] = 0
  /\ pc = "start" => base_runners = EmptyBases
  /\ pc \in {"start", "bat"} => ~inning_over

\* The half counted by the rules.
Half(i, t) == 2 * (i - 1) + (IF t = HOME_TEAM THEN 1 ELSE 0)

\* The parity of the half tells who bats, and its size the inning.
LEMMA HalfParity ==
  ASSUME NEW i \in Nat \ {0}, NEW t \in Team
  PROVE  /\ Half(i, t) \in Nat
         /\ Half(i, t) % 2 = 1 <=> t = HOME_TEAM
         /\ Half(i, t) >= 2 * LastInning - 1 <=>
              i > LastInning \/ (i = LastInning /\ t = HOME_TEAM)
         /\ Half(i, t) >= 2 * LastInning <=> i > LastInning
         /\ t = HOME_TEAM => Half(i + 1, AWAY_TEAM) = Half(i, t) + 1
         /\ t = AWAY_TEAM => Half(i, HOME_TEAM) = Half(i, t) + 1
  BY NumberAssumption DEF Half, Team, HOME_TEAM, AWAY_TEAM

\* A play brings in at most four runs, and none when the batter is out.
LEMMA RunsOnBound ==
  ASSUME NEW bases, NEW type \in ResultType,
         NEW sentHome \in BOOLEAN, NEW extraBase \in BOOLEAN
  PROVE  /\ RunsOn(Destination(type, bases, sentHome, extraBase), bases) \in 0 .. 4
         /\ type \in OutType =>
              RunsOn(Destination(type, bases, sentHome, extraBase), bases) = 0
<1> DEFINE to == Destination(type, bases, sentHome, extraBase)
           home == Arrivals(to, bases, HomePlate)
<1>1. home \subseteq 0 .. 3
  BY DEF Arrivals, Manned, Occupied, Base
<1>2. IsFiniteSet(0 .. 3) /\ Cardinality(0 .. 3) = 4
  <2>1. IsFiniteSet(0 .. 3) /\ Cardinality(0 .. 3) = IF 0 > 3 THEN 0 ELSE 3 - 0 + 1
    BY 0 \in Int, 3 \in Int, FS_Interval, Zenon
  <2> QED
    BY <2>1
<1>3. Cardinality(home) \in Nat /\ Cardinality(home) <= 4
  BY <1>1, <1>2, FS_Subset, FS_CardinalityType
<1>4. ASSUME type \in OutType PROVE Cardinality(home) = 0
  <2>1. \A c \in Corner : to[c] # HomePlate
    <3>1. to = [c \in Corner |-> IF c = 0 THEN Dugout ELSE c]
      BY <1>4 DEF Destination, OutType
    <3> QED
      BY <3>1 DEF HomePlate, Dugout, Corner
  <2>2. home = {}
    BY <1>1, <2>1 DEF Arrivals, Corner
  <2> QED
    BY <2>2, FS_EmptySet
<1>5. RunsOn(to, bases) = Cardinality(home)
  BY DEF RunsOn
<1> HIDE DEF to, home
<1>6. RunsOn(to, bases) \in 0 .. 4
  BY <1>3, <1>5
<1>7. type \in OutType => RunsOn(to, bases) = 0
  BY <1>4, <1>5
<1> QED
  BY <1>6, <1>7 DEF to

\* ClockKept holds along every game.
LEMMA ClockInvariance == Spec => []ClockKept
<1>1. Init => ClockKept
  BY DEF Init, ClockKept
<1>2. IInv /\ ClockKept /\ [Next]_vars => ClockKept'
  <2> SUFFICES ASSUME IInv, ClockKept, [Next]_vars PROVE ClockKept'
    OBVIOUS
  <2>1. CASE StartGame
    BY <2>1 DEF StartGame, ClockKept
  <2>2. CASE RejectLineups
    BY <2>2 DEF RejectLineups, ClockKept
  <2>3. CASE ChangePitcher
    BY <2>3 DEF ChangePitcher, ClockKept
  <2>4. CASE KeepPitcher
    BY <2>4 DEF KeepPitcher, ClockKept
  <2>5. ASSUME NEW type \in ResultType, NEW s \in BOOLEAN, NEW e \in BOOLEAN,
               PlateAppearance(type, s, e) \/ AbortGame(type, s, e)
        PROVE  ClockKept'
    BY <2>5 DEF PlateAppearance, AbortGame, ClockKept
  <2>6. CASE EndGame
    BY <2>6 DEF EndGame, ClockKept
  <2>7. CASE UNCHANGED vars
    BY <2>7 DEF vars, ClockKept
  <2> QED
    BY <2>1, <2>2, <2>3, <2>4, <2>5, <2>6, <2>7 DEF Next
<1> QED
  BY <1>1, <1>2, Invariance, PTL DEF Spec

\* The refinement mapping, under names of its own.
HalfNow == Half(inning, team_hitting)
StateNow == IF pc = "aborted" THEN "called"
            ELSE IF pc = "over" \/ (pc = "top" /\ IsGameOver) THEN "final"
            ELSE "playing"

\* A new game is a new game of the rules.
LEMMA RulesInitially == Init => Rules!RulesInit
  BY DEF Init, Rules!RulesInit, Team, HOME_TEAM, AWAY_TEAM, clock

\* A step that leaves the clock, the score and the state alone is a stutter.
LEMMA RulesStutter ==
  ASSUME UNCHANGED clock, UNCHANGED runs, StateNow' = StateNow
  PROVE  UNCHANGED Rules!rvars
  BY DEF clock, StateNow, Rules!rvars

\* A plate appearance is a batter of the rules, with the runs and the outs of
\* the play.
LEMMA AppearanceIsBatter ==
  ASSUME IInv, IInv', ClockKept, ClockKept',
         NEW type \in ResultType, NEW sentHome \in BOOLEAN, NEW extraBase \in BOOLEAN,
         PlateAppearance(type, sentHome, extraBase)
  PROVE  Rules!RulesNext
<1> DEFINE to == Destination(type, base_runners, sentHome, extraBase)
           scored == RunsOn(to, base_runners)
           o == OutsOn(type)
<1>1. /\ scored \in 0 .. 4
      /\ type \in OutType => scored = 0
  BY RunsOnBound
<1>2. o \in {0, 1} /\ (o = 1 <=> type \in OutType)
  BY DEF OutsOn
<1>3. /\ inning \in Nat \ {0} /\ team_hitting \in Team
      /\ outs \in 0 .. (OutsPerHalf - 1) /\ runs \in [Team -> Nat]
  BY DEF IInv, TypeOK
<1>4. /\ pc = "bat" /\ pc' = "top"
      /\ runs' = [runs EXCEPT ![team_hitting] = @ + scored]
      /\ CountOuts(outs + o)
      /\ ~inning_over
  BY DEF PlateAppearance, ClockKept
<1> HIDE DEF to, scored, o
<1>5. IF team_hitting = HOME_TEAM
        THEN /\ runs'[HOME_TEAM] = runs[HOME_TEAM] + scored
             /\ runs'[AWAY_TEAM] = runs[AWAY_TEAM]
        ELSE /\ runs'[HOME_TEAM] = runs[HOME_TEAM]
             /\ runs'[AWAY_TEAM] = runs[AWAY_TEAM] + scored
  BY <1>3, <1>4 DEF Team, HOME_TEAM, AWAY_TEAM
<1>6. StateNow = "playing"
      /\ StateNow' = IF IsGameOver' THEN "final" ELSE "playing"
  BY <1>4 DEF StateNow
<1>7. OutsPerHalf \in Nat \ {0} /\ LastInning \in Nat \ {0}
  BY NumberAssumption
<1>8. Rules!Batter(o, scored)
  <2>1. HalfNow % 2 = 1 <=> team_hitting = HOME_TEAM
    BY <1>3, HalfParity DEF HalfNow
  <2>2. CASE outs + o = OutsPerHalf
    <3>1. /\ outs' = 0 /\ inning_over' /\ team_hitting' = Other(team_hitting)
          /\ inning' = IF team_hitting = HOME_TEAM THEN inning + 1 ELSE inning
      BY <1>4, <2>2 DEF CountOuts
    <3>2. inning' \in Nat \ {0} /\ team_hitting' \in Team
      BY <1>3, <3>1 DEF Team, HOME_TEAM, AWAY_TEAM, Other
    <3>3. HalfNow' = HalfNow + 1
      <4>1. CASE team_hitting = HOME_TEAM
        BY <1>3, <3>1, <4>1 DEF HalfNow, Half, Other, HOME_TEAM, AWAY_TEAM
      <4>2. CASE team_hitting = AWAY_TEAM
        BY <1>3, <3>1, <4>2 DEF HalfNow, Half, Other, HOME_TEAM, AWAY_TEAM
      <4> QED
        BY <1>3, <4>1, <4>2 DEF Team
    <3>4. IsGameOver' <=>
            \/ Rules!HomeHasWon(HalfNow', runs'[HOME_TEAM], runs'[AWAY_TEAM])
            \/ Rules!DecidedAfterInning(HalfNow', runs'[HOME_TEAM], runs'[AWAY_TEAM])
      <4>1. /\ HalfNow' % 2 = 1 <=> team_hitting' = HOME_TEAM
            /\ HalfNow' >= 2 * LastInning - 1 <=>
                 inning' > LastInning \/ (inning' = LastInning /\ team_hitting' = HOME_TEAM)
            /\ HalfNow' >= 2 * LastInning <=> inning' > LastInning
        <5> DEFINE i == inning'
                   t == team_hitting'
        <5>1. i \in Nat \ {0} /\ t \in Team
          BY <3>2
        <5> HIDE DEF i, t
        <5>2. /\ Half(i, t) % 2 = 1 <=> t = HOME_TEAM
              /\ Half(i, t) >= 2 * LastInning - 1 <=>
                   i > LastInning \/ (i = LastInning /\ t = HOME_TEAM)
              /\ Half(i, t) >= 2 * LastInning <=> i > LastInning
          BY <5>1, HalfParity
        <5> QED
          BY <5>2 DEF i, t, HalfNow, Half
      <4>2. runs'[HOME_TEAM] \in Nat /\ runs'[AWAY_TEAM] \in Nat
        BY DEF IInv, TypeOK, Team
      <4>3. IsGameOver' <=>
              /\ inning' >= LastInning
              /\ \/ runs'[HOME_TEAM] > runs'[AWAY_TEAM] /\ team_hitting' = HOME_TEAM
                 \/ /\ inning' > LastInning
                    /\ runs'[HOME_TEAM] # runs'[AWAY_TEAM] /\ team_hitting' = AWAY_TEAM
        BY <3>1 DEF IsGameOver
      <4> QED
        BY <1>7, <3>2, <4>1, <4>2, <4>3
        DEF Rules!HomeHasWon, Rules!DecidedAfterInning, Rules!HomeBats,
            Team, HOME_TEAM, AWAY_TEAM
    <3> QED
      BY <1>5, <1>6, <2>1, <2>2, <3>1, <3>3, <3>4
      DEF Rules!Batter, Rules!HomeBats, HalfNow, Half, StateNow
  <2>3. CASE outs + o # OutsPerHalf
    <3>1. /\ outs' = outs + o
          /\ inning' = inning /\ team_hitting' = team_hitting /\ ~inning_over'
      BY <1>4, <2>3 DEF CountOuts
    <3>2. HalfNow' = HalfNow
      BY <3>1 DEF HalfNow, Half
    <3>3. IsGameOver' <=>
            Rules!HomeHasWon(HalfNow', runs'[HOME_TEAM], runs'[AWAY_TEAM])
      <4>1. /\ HalfNow >= 2 * LastInning - 1 <=>
                 inning > LastInning \/ (inning = LastInning /\ team_hitting = HOME_TEAM)
        BY <1>3, HalfParity DEF HalfNow
      <4>3. IsGameOver' <=>
              /\ inning >= LastInning
              /\ runs'[HOME_TEAM] > runs'[AWAY_TEAM] /\ team_hitting = HOME_TEAM
        BY <3>1 DEF IsGameOver
      <4> QED
        BY <1>3, <1>7, <2>1, <3>2, <4>1, <4>3
        DEF Rules!HomeHasWon, Rules!HomeBats
    <3> QED
      BY <1>5, <1>6, <2>1, <2>3, <3>1, <3>2, <3>3
      DEF Rules!Batter, Rules!HomeBats, HalfNow, Half, StateNow
  <2> QED
    BY <2>2, <2>3
<1> QED
  <2>1. CASE o = 1
    BY <1>1, <1>2, <1>8, <2>1 DEF Rules!RulesNext
  <2>2. CASE o = 0
    BY <1>1, <1>8, <2>2 DEF Rules!RulesNext
  <2> QED
    BY <1>2, <2>1, <2>2

\* Every step of a game is a step of the rules or leaves them alone.
LEMMA RulesStep ==
  ASSUME IInv, IInv', ClockKept, ClockKept', [Next]_vars
  PROVE  [Rules!RulesNext]_(Rules!rvars)
<1>1. CASE StartGame
  <2>1. runs[HOME_TEAM] = 0 /\ runs[AWAY_TEAM] = 0 /\ ~inning_over'
    BY <1>1 DEF StartGame, ClockKept, Team
  <2>2. ~IsGameOver' /\ pc' = "top" /\ pc = "start"
    BY <1>1, <2>1 DEF StartGame, IsGameOver
  <2> QED
    BY <1>1, <2>2, RulesStutter DEF StartGame, StateNow
<1>2. CASE RejectLineups
  BY <1>2 DEF RejectLineups, clock, Rules!RulesNext, Rules!CallOff
<1>3. CASE ChangePitcher
  BY <1>3, RulesStutter DEF ChangePitcher, StateNow
<1>4. CASE KeepPitcher
  BY <1>4, RulesStutter DEF KeepPitcher, StateNow
<1>5. ASSUME NEW type \in ResultType, NEW s \in BOOLEAN, NEW e \in BOOLEAN,
             PlateAppearance(type, s, e)
      PROVE  Rules!RulesNext
  BY <1>5, AppearanceIsBatter
<1>6. ASSUME NEW type \in ResultType, NEW s \in BOOLEAN, NEW e \in BOOLEAN,
             AbortGame(type, s, e)
      PROVE  Rules!RulesNext
  BY <1>6 DEF AbortGame, clock, Rules!RulesNext, Rules!CallOff
<1>7. CASE EndGame
  BY <1>7, RulesStutter DEF EndGame, StateNow
<1>8. CASE UNCHANGED vars
  <2>1. UNCHANGED clock /\ UNCHANGED runs
    BY <1>8 DEF vars
  <2>2. StateNow' = StateNow
    BY <1>8 DEF vars, clock, StateNow, IsGameOver
  <2> QED
    BY <2>1, <2>2, RulesStutter
<1> QED
  BY <1>1, <1>2, <1>3, <1>4, <1>5, <1>6, <1>7, <1>8 DEF Next

\* Every game keeps the rules: halves of the right number of outs, runs that
\* count for the team at bat only, and an end exactly when a team has won.
THEOREM ImplementsRules == Spec => FollowsRules
<1>1. Spec => Rules!RulesInit
  BY RulesInitially DEF Spec
<1>2. Spec => [][Rules!RulesNext]_(Rules!rvars)
  BY RulesStep, Invariance, ClockInvariance, PTL DEF Spec
<1> QED
  BY <1>1, <1>2 DEF FollowsRules, Rules!RulesSpec

-----------------------------------------------------------------------------
(* What a plate appearance does to the men on the bases. *)

\* Those of the batter and the runners who end the play on a base.
Remain(bases, to) == {c \in Manned(bases) : to[c] \in Base}

\* Everybody goes to a base or home, but for the batter who is out, and keeps
\* his place behind the runners ahead of him.
Orderly(bases, to, type) ==
  /\ \A c \in Manned(bases) : to[c] \in Base \cup {HomePlate, Dugout}
  /\ \A c \in Manned(bases) : to[c] = Dugout <=> c = 0 /\ type \in OutType
  /\ \A c, d \in Manned(bases) :
       c < d /\ to[d] \in Base /\ to[c] # Dugout => to[c] \in Base /\ to[c] < to[d]

\* Whatever the batter does, the runners move in order.
LEMMA Moves ==
  ASSUME NEW bases, NEW type \in ResultType,
         NEW sentHome \in BOOLEAN, NEW extraBase \in BOOLEAN
  PROVE  Orderly(bases, Destination(type, bases, sentHome, extraBase), type)
<1> DEFINE to == Destination(type, bases, sentHome, extraBase)
<1> USE DEF Orderly
<1>0. Manned(bases) \subseteq Corner /\ Corner = {0, 1, 2, 3} /\ Base = {1, 2, 3}
      /\ HomePlate = 4 /\ Dugout = 5
      /\ \A c \in Manned(bases) : c # 0 => c \in Occupied(bases)
  BY DEF Manned, Occupied, Base, Corner, HomePlate, Dugout
<1>1. CASE type \in OutType
  <2>1. to = [c \in Corner |-> IF c = 0 THEN Dugout ELSE c]
    BY <1>1 DEF Destination, OutType
  <2> HIDE DEF to
  <2> QED BY <1>0, <1>1, <2>1 DEF to
<1>2. CASE type = "BB"
  <2>1. to = [c \in Corner |-> IF c = 0 \/ Forced(c, bases) THEN c + 1 ELSE c]
    BY <1>2 DEF Destination, OutType
  <2>2. \A c \in 1 .. 3 : Forced(c, bases) <=> \A d \in 1 .. c : d \in Occupied(bases)
    BY DEF Forced
  <2>3. /\ Forced(1, bases) <=> 1 \in Occupied(bases)
        /\ Forced(2, bases) <=> 1 \in Occupied(bases) /\ 2 \in Occupied(bases)
        /\ Forced(3, bases) <=> 1 \in Occupied(bases) /\ 2 \in Occupied(bases) /\ 3 \in Occupied(bases)
    BY <2>2
  <2>4. type \notin OutType
    BY <1>2 DEF OutType
  <2> HIDE DEF to
  <2> QED BY <1>0, <2>1, <2>3, <2>4 DEF to
<1>3. CASE type = "IB"
  <2>1. to = SingleTo(bases, sentHome, extraBase)
    BY <1>3 DEF Destination, OutType
  <2>4. type \notin OutType
    BY <1>3 DEF OutType
  <2> HIDE DEF to
  <2>5. /\ to[0] = 1 /\ to[3] = HomePlate
        /\ to[1] = IF extraBase /\ ~(2 \in Occupied(bases) /\ ~sentHome) THEN 3 ELSE 2
        /\ to[2] = IF sentHome THEN HomePlate ELSE 3
    BY <1>0, <2>1 DEF SingleTo
  <2> QED BY <1>0, <2>5, <2>4 DEF to
<1>4. CASE type = "ZB"
  <2>1. to = [c \in Corner |->
                         CASE c = 0 -> 2
                           [] c = 1 -> IF extraBase THEN HomePlate ELSE 3
                           [] OTHER -> HomePlate]
    BY <1>4 DEF Destination, OutType
  <2>4. type \notin OutType
    BY <1>4 DEF OutType
  <2> HIDE DEF to
  <2>5. to[0] = 2 /\ to[1] = (IF extraBase THEN HomePlate ELSE 3) /\ to[2] = HomePlate /\ to[3] = HomePlate
    BY <1>0, <2>1
  <2> QED BY <1>0, <2>5, <2>4 DEF to
<1>5. CASE type = "EB"
  <2>1. to = [c \in Corner |-> IF c = 0 THEN 3 ELSE HomePlate]
    BY <1>5 DEF Destination, OutType
  <2>4. type \notin OutType
    BY <1>5 DEF OutType
  <2> HIDE DEF to
  <2> QED BY <1>0, <2>1, <2>4 DEF to
<1>6. CASE type = "HR"
  <2>1. to = [c \in Corner |-> HomePlate]
    BY <1>6 DEF Destination, OutType
  <2>4. type \notin OutType
    BY <1>6 DEF OutType
  <2> HIDE DEF to
  <2> QED BY <1>0, <2>1, <2>4 DEF to
<1>7. Orderly(bases, to, type)
  BY <1>1, <1>2, <1>3, <1>4, <1>5, <1>6 DEF ResultType, HitType
<1> QED BY <1>7

\* Whoever is still on a base stands alone there, and nobody else does.
LEMMA Landing ==
  ASSUME NEW bases, NEW to, NEW type, Orderly(bases, to, type),
         NEW batter, batter # Nobody
  PROVE  LET after == BasesAfter(to, bases, batter)
         IN  /\ \A c \in Remain(bases, to) :
                  to[c] \in Occupied(after) /\ after[to[c]] = WhoIs(c, bases, batter)
             /\ \A b \in Occupied(after) : \E c \in Remain(bases, to) : to[c] = b
             /\ \A c, d \in Remain(bases, to) : to[c] = to[d] => c = d
<1> DEFINE after == BasesAfter(to, bases, batter)
<1>1. /\ \A c \in Manned(bases) : to[c] \in Base \cup {HomePlate, Dugout}
      /\ \A c, d \in Manned(bases) :
           c < d /\ to[d] \in Base /\ to[c] # Dugout => to[c] \in Base /\ to[c] < to[d]
  BY DEF Orderly
<1>2. Manned(bases) \subseteq 0 .. 3 /\ Base = 1 .. 3 /\ Dugout \notin Base
      /\ \A c \in Manned(bases) : c # 0 => c \in Base /\ bases[c] # Nobody
  BY DEF Manned, Occupied, Base, Dugout
<1>3. after = [b \in Base |-> IF Arrivals(to, bases, b) = {} THEN Nobody
                               ELSE WhoIs(Min(Arrivals(to, bases, b)), bases, batter)]
  BY DEF BasesAfter
<1>4. \A b \in Base : Arrivals(to, bases, b) = {c \in Remain(bases, to) : to[c] = b}
  BY DEF Arrivals, Remain
<1> HIDE DEF after
<1>5. \A c, d \in Remain(bases, to) : to[c] = to[d] => c = d
  <2>1. \A c, d \in Remain(bases, to) : c < d => to[c] # to[d]
    BY <1>1, <1>2 DEF Remain
  <2>2. \A c, d \in Remain(bases, to) : c \in Int /\ d \in Int
    BY <1>2 DEF Remain
  <2> QED BY <2>1, <2>2
<1>6. ASSUME NEW c \in Remain(bases, to)
      PROVE  to[c] \in Occupied(after) /\ after[to[c]] = WhoIs(c, bases, batter)
  <2>1. Arrivals(to, bases, to[c]) = {c} /\ to[c] \in Base
    BY <1>4, <1>5 DEF Remain
  <2>2. Min({c}) = c
    BY <1>2 DEF Min, Remain
  <2>3. after[to[c]] = WhoIs(c, bases, batter)
    BY <1>3, <2>1, <2>2
  <2>4. WhoIs(c, bases, batter) # Nobody
    BY <1>2 DEF WhoIs, Remain
  <2> QED BY <2>1, <2>3, <2>4 DEF Occupied
<1>7. ASSUME NEW b \in Occupied(after)
      PROVE  \E c \in Remain(bases, to) : to[c] = b
  <2>1. b \in Base /\ after[b] # Nobody
    BY DEF Occupied
  <2>2. Arrivals(to, bases, b) # {}
    BY <1>3, <2>1
  <2> QED BY <1>4, <2>1, <2>2
<1> QED BY <1>5, <1>6, <1>7 DEF after

\* The bases and whoever stands on them are few.
LEMMA FewBases ==
  ASSUME NEW bases
  PROVE  /\ IsFiniteSet(Manned(bases)) /\ IsFiniteSet(Occupied(bases))
         /\ Cardinality(Manned(bases)) = Cardinality(Occupied(bases)) + 1
         /\ Cardinality(Occupied(bases)) \in Nat
<1>1. IsFiniteSet(Base)
  BY FS_Interval, 1 \in Int, 3 \in Int DEF Base
<1>2. IsFiniteSet(Occupied(bases)) /\ 0 \notin Occupied(bases)
  BY <1>1, FS_Subset DEF Occupied, Base
<1>3. Manned(bases) = Occupied(bases) \cup {0}
  BY DEF Manned
<1> QED BY <1>2, <1>3, FS_AddElement, FS_CardinalityType

\* A batter and the runners of a play are on base, home or out after it.
LEMMA EverybodyCounts ==
  ASSUME NEW bases, NEW to, NEW type, Orderly(bases, to, type),
         NEW batter, batter # Nobody
  PROVE  LET after == BasesAfter(to, bases, batter)
         IN  Cardinality(Occupied(bases)) + 1
               = Cardinality(Occupied(after)) + RunsOn(to, bases) + OutsOn(type)
<1> DEFINE after == BasesAfter(to, bases, batter)
           stay == Remain(bases, to)
           home == Arrivals(to, bases, HomePlate)
           gone == {c \in Manned(bases) : to[c] = Dugout}
<1>1. /\ \A c \in Manned(bases) : to[c] \in Base \cup {HomePlate, Dugout}
      /\ \A c \in Manned(bases) : to[c] = Dugout <=> c = 0 /\ type \in OutType
  BY DEF Orderly
<1>2. /\ \A c \in stay : to[c] \in Occupied(after)
      /\ \A b \in Occupied(after) : \E c \in stay : to[c] = b
      /\ \A c, d \in stay : to[c] = to[d] => c = d
  <2>1. /\ \A c \in Remain(bases, to) :
             to[c] \in Occupied(after) /\ after[to[c]] = WhoIs(c, bases, batter)
        /\ \A b \in Occupied(after) : \E c \in Remain(bases, to) : to[c] = b
        /\ \A c, d \in Remain(bases, to) : to[c] = to[d] => c = d
    BY Landing
  <2> QED BY <2>1
<1>3. /\ IsFiniteSet(Manned(bases))
      /\ Cardinality(Manned(bases)) = Cardinality(Occupied(bases)) + 1
  BY FewBases
<1>4. RunsOn(to, bases) = Cardinality(home)
  BY DEF RunsOn
<1>5. gone = IF type \in OutType THEN {0} ELSE {}
  BY <1>1 DEF Manned
<1>6. Cardinality(gone) = OutsOn(type) /\ IsFiniteSet(gone)
  <2>1. CASE type \in OutType
    BY <1>5, <2>1, FS_Singleton DEF OutsOn
  <2>2. CASE type \notin OutType
    BY <1>5, <2>2, FS_EmptySet DEF OutsOn
  <2> QED BY <2>1, <2>2
<1>7. Base = 1 .. 3 /\ HomePlate = 4 /\ Dugout = 5
  BY DEF Base, HomePlate, Dugout
<1> HIDE DEF after, gone
<1>8. IsFiniteSet(stay) /\ Cardinality(Occupied(after)) = Cardinality(stay)
  <2> DEFINE f == [c \in stay |-> to[c]]
  <2>1. IsFiniteSet(stay)
    BY <1>3, FS_Subset DEF Remain
  <2>2. f \in Bijection(stay, Occupied(after))
    BY <1>2 DEF Bijection, Injection, Surjection, IsInjective
  <2> QED BY <2>1, <2>2, FS_Bijection DEF ExistsBijection
<1>9. IsFiniteSet(home)
  BY <1>3, FS_Subset DEF Arrivals
<1>10. stay \cap home = {} /\ (stay \cup home) \cap gone = {}
       /\ Manned(bases) = (stay \cup home) \cup gone
  BY <1>1, <1>7 DEF Remain, Arrivals, gone
<1> HIDE DEF stay, home
<1>11. IsFiniteSet(stay \cup home) /\ Cardinality(stay \cup home) = Cardinality(stay) + Cardinality(home)
  <2>1. Cardinality(stay) \in Nat /\ Cardinality(home) \in Nat
    BY <1>8, <1>9, FS_CardinalityType
  <2>2. /\ IsFiniteSet(stay \cup home)
        /\ Cardinality(stay \cup home)
             = Cardinality(stay) + Cardinality(home) - Cardinality(stay \cap home)
    BY <1>8, <1>9, FS_Union
  <2>3. Cardinality(stay \cap home) = 0
    BY <1>10, FS_EmptySet
  <2> QED BY <2>1, <2>2, <2>3
<1>12. Cardinality(Manned(bases)) = Cardinality(stay \cup home) + Cardinality(gone)
  <2>1. Cardinality(stay \cup home) \in Nat /\ Cardinality(gone) \in Nat
    BY <1>6, <1>11, FS_CardinalityType
  <2>2. Cardinality((stay \cup home) \cup gone)
          = Cardinality(stay \cup home) + Cardinality(gone)
              - Cardinality((stay \cup home) \cap gone)
    BY <1>6, <1>11, FS_Union
  <2>3. Cardinality((stay \cup home) \cap gone) = 0
    BY <1>10, FS_EmptySet
  <2> QED BY <1>10, <2>1, <2>2, <2>3
<1>13. Cardinality(stay) + Cardinality(home) + Cardinality(gone) = Cardinality(Occupied(bases)) + 1
  BY <1>3, <1>11, <1>12
<1> QED BY <1>4, <1>6, <1>8, <1>13 DEF after

\* There is a man at bat.
LEMMA HitterThere ==
  ASSUME IInv, pc = "bat"
  PROVE  /\ Hitter # Nobody /\ Hitter \in Player
         /\ team_hitting \in Team /\ order_at_bat[team_hitting] \in Slot
<1>1. team_hitting \in Team /\ order_at_bat[team_hitting] \in Slot
  BY DEF IInv, TypeOK
<1>2. Complete(Card0)
  BY DEF IInv, CardsKept
<1>3. Hitter # Nobody
  BY <1>1, <1>2 DEF Complete, Card0, Hitter
<1>4. Hitter \in Player \cup {Nobody}
  BY <1>1 DEF IInv, TypeOK, Hitter
<1> QED BY <1>1, <1>3, <1>4

\* One plate appearance: what it adds to the score and to the outs is what it
\* takes from the bases and the batter.
LEMMA AppearanceAccounts ==
  ASSUME IInv, ClockKept, NEW type \in ResultType,
         NEW sentHome \in BOOLEAN, NEW extraBase \in BOOLEAN,
         PlateAppearance(type, sentHome, extraBase)
  PROVE  Accounted
<1> DEFINE to == Destination(type, base_runners, sentHome, extraBase)
           scored == RunsOn(to, base_runners)
           after == BasesAfter(to, base_runners, Hitter)
           now == Cardinality(Occupied(base_runners))
           then == Cardinality(Occupied(after))
<1>1. /\ pc = "bat" /\ base_runners' = after /\ ~inning_over
      /\ runs' = [runs EXCEPT ![team_hitting] = @ + scored]
      /\ CountOuts(outs + OutsOn(type))
  BY DEF PlateAppearance, Advance, ClockKept
<1>2. Hitter # Nobody /\ team_hitting \in Team
  BY <1>1, HitterThere
<1>3. Orderly(base_runners, to, type)
  BY Moves
<1> HIDE DEF to
<1>4. now + 1 = then + scored + OutsOn(type)
  BY <1>2, <1>3, EverybodyCounts
<1>5. now \in Nat /\ then \in Nat /\ scored \in Nat /\ OutsOn(type) \in {0, 1}
  BY FewBases, RunsOnType DEF OutsOn
<1>6. runs'[team_hitting] = runs[team_hitting] + scored /\ runs'[Fielding] = runs[Fielding]
      /\ runs[team_hitting] \in Nat
  BY <1>1, <1>2 DEF IInv, TypeOK, Fielding, Other, Team, HOME_TEAM, AWAY_TEAM
<1>7. outs \in Nat /\ OutsPerHalf \in Nat
  BY NumberAssumption DEF IInv, TypeOK
<1> HIDE DEF scored, after, now, then
<1>8. (IF inning_over' THEN OutsPerHalf - outs ELSE outs' - outs) = OutsOn(type)
  <2>1. CASE outs + OutsOn(type) = OutsPerHalf
    BY <1>1, <1>5, <1>7, <2>1 DEF CountOuts
  <2>2. CASE outs + OutsOn(type) # OutsPerHalf
    BY <1>1, <1>5, <1>7, <2>2 DEF CountOuts
  <2> QED BY <2>1, <2>2
<1>9. runs'[team_hitting] - runs[team_hitting] = scored
  BY <1>5, <1>6
<1>10. Cardinality(Occupied(base_runners)) = now /\ Cardinality(Occupied(base_runners')) = then
  BY <1>1 DEF now, then
<1> QED BY <1>4, <1>6, <1>8, <1>9, <1>10 DEF Accounted

\* Every batter and runner of a plate appearance is out, has scored or is on
\* base after it, and is counted once: advance_runners loses nobody.
THEOREM NobodyEverVanishes == Spec => NobodyVanishes
<1>1. IInv /\ ClockKept /\ [Next]_vars => [Accounted]_vars
  <2> SUFFICES ASSUME IInv, ClockKept, Next, pc = "bat", pc' = "top" PROVE Accounted
    BY DEF Accounted
  <2>1. PICK type \in ResultType, sentHome \in BOOLEAN, extraBase \in BOOLEAN :
          PlateAppearance(type, sentHome, extraBase)
    BY DEF Next, StartGame, RejectLineups, ChangePitcher, KeepPitcher, AbortGame, EndGame
  <2> QED BY <2>1, AppearanceAccounts
<1> QED BY <1>1, Invariance, ClockInvariance, PTL DEF Spec, NobodyVanishes

-----------------------------------------------------------------------------
(* The runners and the batting order. *)

\* The runners who have batted since the man on base b.
Behind(bases, b) == {c \in Occupied(bases) : c < b}

\* There are two bases at most behind a runner.
LEMMA BehindFew ==
  ASSUME NEW bases, NEW b \in Base
  PROVE  IsFiniteSet(Behind(bases, b)) /\ Cardinality(Behind(bases, b)) \in 0 .. 2
<1>1. Behind(bases, b) \subseteq 1 .. 2
  BY DEF Behind, Occupied, Base
<1>2. IsFiniteSet(1 .. 2) /\ Cardinality(1 .. 2) = 2
  <2>1. IsFiniteSet(1 .. 2) /\ Cardinality(1 .. 2) = IF 1 > 2 THEN 0 ELSE 2 - 1 + 1
    BY 1 \in Int, 2 \in Int, FS_Interval, Zenon
  <2> QED BY <2>1
<1>3. IsFiniteSet(Behind(bases, b)) /\ Cardinality(Behind(bases, b)) <= 2
  BY <1>1, <1>2, FS_Subset
<1> QED BY <1>3, FS_CardinalityType

\* Of those behind a runner who stays on a base, and the batter, only the batter
\* who is out is not behind him any more.
LEMMA BehindKept ==
  ASSUME NEW bases, NEW to, NEW type, Orderly(bases, to, type),
         NEW batter, batter # Nobody, NEW c \in Remain(bases, to), c # 0
  PROVE  Cardinality(Behind(bases, c)) + 1
           <= OutsOn(type) + Cardinality(Behind(BasesAfter(to, bases, batter), to[c]))
<1> DEFINE after == BasesAfter(to, bases, batter)
           old == Behind(bases, c)
           new == Behind(after, to[c])
           stay == {d \in Manned(bases) : d < c /\ to[d] # Dugout}
           f == [d \in stay |-> to[d]]
<1>1. /\ \A d \in Remain(bases, to) : to[d] \in Occupied(after)
      /\ \A d, e \in Remain(bases, to) : to[d] = to[e] => d = e
  BY Landing
<1>2. /\ \A d \in Manned(bases) : to[d] = Dugout <=> d = 0 /\ type \in OutType
      /\ \A d \in stay : to[d] \in Base /\ to[d] < to[c]
  BY DEF Orderly, Remain
<1>3. /\ c \in Base /\ to[c] \in Base /\ c > 0 /\ 0 \notin Occupied(bases)
      /\ Manned(bases) = {0} \cup Occupied(bases)
  BY DEF Remain, Manned, Occupied, Base
<1> HIDE DEF after
<1>4. f \in Injection(stay, new)
  <2>1. stay \subseteq Remain(bases, to)
    BY <1>2 DEF Remain
  <2>2. f \in [stay -> new]
    BY <1>1, <1>2, <2>1 DEF Behind
  <2> QED BY <1>1, <2>1, <2>2 DEF Injection, IsInjective
<1>5. /\ IsFiniteSet(old) /\ Cardinality(old) \in Nat
      /\ IsFiniteSet(new) /\ Cardinality(new) \in Nat
  BY <1>3, BehindFew
<1>6. Cardinality(stay) <= Cardinality(new)
  BY <1>4, <1>5, FS_Injection
<1>7. CASE type \in OutType
  <2>1. stay = old
    BY <1>2, <1>3, <1>7 DEF Behind
  <2> HIDE DEF stay, old, new
  <2>2. Cardinality(old) + 1 <= OutsOn(type) + Cardinality(new)
    BY <1>5, <1>6, <1>7, <2>1 DEF OutsOn
  <2> QED BY <2>2 DEF old, new, after
<1>8. CASE type \notin OutType
  <2>1. stay = old \cup {0} /\ 0 \notin old
    BY <1>2, <1>3, <1>8 DEF Behind
  <2>2. Cardinality(stay) = Cardinality(old) + 1
    BY <1>5, <2>1, FS_AddElement
  <2> HIDE DEF stay, old, new
  <2>3. Cardinality(old) + 1 <= OutsOn(type) + Cardinality(new)
    BY <1>5, <1>6, <1>8, <2>2 DEF OutsOn
  <2> QED BY <2>3 DEF old, new, after
<1> QED BY <1>7, <1>8

-----------------------------------------------------------------------------
\* How many batters ago the man on base b came up.
AgoOf(b) == Ago(SlotOf(base_runners[b]))

\* RunnersInOrder is not inductive: that a runner is not at bat once more is
\* known only because everybody who batted after him is out or on a base behind
\* him.  This says so.
InTurn ==
  HalfGoesOn =>
    \A b \in Occupied(base_runners) :
      /\ SlotsOf(team_hitting, base_runners[b]) # {}
      /\ AgoOf(b) <= outs + 1 + Cardinality(Behind(base_runners, b))
      /\ \A c \in Occupied(base_runners) : b < c => AgoOf(b) < AgoOf(c)

\* In a sound card a player has one slot.
LEMMA OneSlot ==
  ASSUME IInv, pc \in {"top", "bat"}, NEW i \in Slot
  PROVE  /\ SlotsOf(team_hitting, offense[team_hitting][i]) = {i}
         /\ SlotOf(offense[team_hitting][i]) = i
<1>1. SoundCard(Card0) /\ team_hitting \in Team
  BY MoundFacts
<1>2. \A j \in Slot : offense[team_hitting][j] = offense[team_hitting][i] => j = i
  BY <1>1 DEF SoundCard, Card0
<1>3. SlotsOf(team_hitting, offense[team_hitting][i]) = {i}
  BY <1>2 DEF SlotsOf
<1>4. Min({i}) = i
  BY NumberAssumption DEF Min, Slot
<1> QED BY <1>3, <1>4 DEF SlotOf

\* Only the man at bat came up a whole round ago.
LEMMA AgoBounds ==
  ASSUME IInv, NEW i \in Slot
  PROVE  /\ Ago(i) \in 1 .. LineupSize
         /\ Ago(i) = LineupSize <=> i = order_at_bat[team_hitting]
<1>1. order_at_bat[team_hitting] \in Slot
  BY DEF IInv, TypeOK
<1> QED BY <1>1, NumberAssumption DEF Ago, Slot

\* A runner has not been passed by the order.
LEMMA StillAhead ==
  ASSUME IInv, InTurn, HalfGoesOn, NEW b \in Occupied(base_runners)
  PROVE  \E i \in Slot : /\ base_runners[b] = offense[team_hitting][i]
                         /\ SlotOf(base_runners[b]) = i
                         /\ AgoOf(b) = Ago(i) /\ Ago(i) \in 1 .. (LineupSize - 1)
<1>1. PICK i \in Slot : base_runners[b] = offense[team_hitting][i]
  BY DEF InTurn, SlotsOf
<1>2. pc \in {"top", "bat"}
  BY DEF HalfGoesOn
<1>3. SlotOf(base_runners[b]) = i /\ AgoOf(b) = Ago(i)
  BY <1>1, <1>2, OneSlot DEF AgoOf
<1>4. Ago(i) \in 1 .. LineupSize
  BY AgoBounds
<1>5. AgoOf(b) <= outs + 1 + Cardinality(Behind(base_runners, b))
  BY DEF InTurn
<1>6. Cardinality(Behind(base_runners, b)) \in 0 .. 2
  BY BehindFew DEF Occupied
<1>7. outs \in 0 .. (OutsPerHalf - 1)
  BY DEF IInv, TypeOK
<1> QED BY <1>1, <1>3, <1>4, <1>5, <1>6, <1>7, NumberAssumption

\* A batter later everybody but him batted one batter longer ago.
LEMMA AgoLater ==
  ASSUME IInv, NEW i \in Slot, team_hitting' = team_hitting,
         order_at_bat' = [order_at_bat EXCEPT ![team_hitting] = NextInOrder(@)]
  PROVE  Ago(i)' = IF i = order_at_bat[team_hitting] THEN 1 ELSE Ago(i) + 1
<1>1. team_hitting \in Team /\ order_at_bat[team_hitting] \in Slot
      /\ order_at_bat'[team_hitting] = NextInOrder(order_at_bat[team_hitting])
  BY DEF IInv, TypeOK
<1> QED BY <1>1, NumberAssumption DEF Ago, NextInOrder, Slot

\* A plate appearance keeps the runners in turn.
LEMMA AppearanceInTurn ==
  ASSUME IInv, ClockKept, InTurn, NEW type \in ResultType,
         NEW sentHome \in BOOLEAN, NEW extraBase \in BOOLEAN,
         PlateAppearance(type, sentHome, extraBase)
  PROVE  InTurn'
<1> DEFINE to == Destination(type, base_runners, sentHome, extraBase)
<1>1. /\ pc = "bat" /\ base_runners' = BasesAfter(to, base_runners, Hitter)
      /\ order_at_bat' = [order_at_bat EXCEPT ![team_hitting] = NextInOrder(@)]
      /\ offense' = offense /\ CountOuts(outs + OutsOn(type))
      /\ HalfGoesOn
  BY DEF PlateAppearance, Advance, cards, HalfGoesOn
<1>2. Hitter # Nobody /\ order_at_bat[team_hitting] \in Slot
  BY <1>1, HitterThere
<1>3. Orderly(base_runners, to, type)
  BY Moves
<1> HIDE DEF to
<1> SUFFICES ASSUME ~inning_over' PROVE InTurn'
  BY <1>1 DEF InTurn, HalfGoesOn, PlateAppearance
<1>4. outs' = outs + OutsOn(type) /\ team_hitting' = team_hitting
  BY <1>1 DEF CountOuts
<1>5. OutsOn(type) \in {0, 1} /\ outs \in Nat
  BY NumberAssumption DEF OutsOn, IInv, TypeOK
<1>6. /\ \A c \in Remain(base_runners, to) :
           /\ to[c] \in Occupied(base_runners')
           /\ base_runners'[to[c]] = WhoIs(c, base_runners, Hitter)
      /\ \A b \in Occupied(base_runners') : \E c \in Remain(base_runners, to) : to[c] = b
      /\ \A c, d \in Remain(base_runners, to) : to[c] < to[d] => c < d
  <2>1. /\ \A c \in Remain(base_runners, to) :
           /\ to[c] \in Occupied(base_runners')
           /\ base_runners'[to[c]] = WhoIs(c, base_runners, Hitter)
        /\ \A b \in Occupied(base_runners') : \E c \in Remain(base_runners, to) : to[c] = b
    BY <1>1, <1>2, <1>3, Landing
  <2>2. \A c, d \in Remain(base_runners, to) :
          /\ c \in Int /\ d \in Int /\ to[c] \in Int /\ to[d] \in Int /\ to[c] # Dugout
          /\ c < d => to[c] < to[d]
    BY <1>3 DEF Remain, Orderly, Manned, Occupied, Base, Dugout
  <2> QED BY <2>1, <2>2
<1>7. \A c \in Remain(base_runners, to) : c = 0 \/ c \in Occupied(base_runners)
  BY DEF Remain, Manned
<1>8. ASSUME NEW c \in Remain(base_runners, to), NEW b, to[c] = b
      PROVE  /\ SlotsOf(team_hitting, base_runners[b])' # {}
             /\ AgoOf(b)' = IF c = 0 THEN 1 ELSE AgoOf(c) + 1
  <2>1. PICK i \in Slot :
          /\ WhoIs(c, base_runners, Hitter) = offense[team_hitting][i]
          /\ SlotsOf(team_hitting, offense[team_hitting][i]) = {i}
          /\ SlotOf(offense[team_hitting][i]) = i
          /\ c = 0 => i = order_at_bat[team_hitting]
          /\ c # 0 => AgoOf(c) = Ago(i) /\ i # order_at_bat[team_hitting]
    <3>1. CASE c = 0
      BY <1>1, <1>2, <3>1, OneSlot DEF WhoIs, Hitter
    <3>2. CASE c # 0
      <4>1. PICK i \in Slot : /\ base_runners[c] = offense[team_hitting][i]
                              /\ AgoOf(c) = Ago(i) /\ Ago(i) \in 1 .. (LineupSize - 1)
        BY <1>1, <1>7, <3>2, StillAhead
      <4>2. i # order_at_bat[team_hitting]
        BY <4>1, AgoBounds, NumberAssumption
      <4> QED BY <1>1, <3>2, <4>1, <4>2, OneSlot DEF WhoIs
    <3> QED BY <3>1, <3>2
  <2>6. base_runners'[b] = offense[team_hitting][i]
    BY <1>6, <1>8, <2>1
  <2>2. SlotsOf(team_hitting, base_runners[b])' = {i}
    BY <1>1, <1>4, <2>1, <2>6 DEF SlotsOf
  <2>3. SlotOf(base_runners[b])' = i
    BY <1>1, <1>4, <2>1, <2>6 DEF SlotOf, SlotsOf
  <2>4. Ago(i)' = IF i = order_at_bat[team_hitting] THEN 1 ELSE Ago(i) + 1
    BY <1>1, <1>4, AgoLater
  <2>5. AgoOf(b)' = Ago(i)'
    BY <2>3 DEF AgoOf, Ago
  <2> QED BY <2>1, <2>2, <2>4, <2>5
<1>9. \A c \in Occupied(base_runners) :
        AgoOf(c) \in Nat \ {0} /\ AgoOf(c) <= outs + 1 + Cardinality(Behind(base_runners, c))
  <2> TAKE c \in Occupied(base_runners)
  <2>1. AgoOf(c) \in Nat \ {0}
    BY <1>1, StillAhead, NumberAssumption
  <2> QED BY <1>1, <2>1 DEF InTurn
<1>10. ASSUME NEW c \in Remain(base_runners, to), NEW b, to[c] = b
       PROVE  AgoOf(b)' <= outs' + 1 + Cardinality(Behind(base_runners', b))
  <2>1. Cardinality(Behind(base_runners', b)) \in Nat
    BY <1>10, BehindFew DEF Remain
  <2>2. CASE c = 0
    BY <1>4, <1>5, <1>8, <1>10, <2>1, <2>2
  <2>3. CASE c # 0
    <3>1. Cardinality(Behind(base_runners, c)) + 1
            <= OutsOn(type) + Cardinality(Behind(base_runners', b))
      BY <1>1, <1>2, <1>3, <1>10, <2>3, BehindKept
    <3>2. Cardinality(Behind(base_runners, c)) \in Nat
      BY <1>7, <2>3, BehindFew DEF Occupied
    <3> QED BY <1>4, <1>5, <1>7, <1>8, <1>9, <1>10, <2>1, <2>3, <3>1, <3>2
  <2> QED BY <2>2, <2>3
<1>11. ASSUME NEW c \in Remain(base_runners, to), NEW d \in Remain(base_runners, to),
              NEW b, NEW e, to[c] = b, to[d] = e, b < e
       PROVE  AgoOf(b)' < AgoOf(e)'
  <2>1. c < d
    BY <1>6, <1>11
  <2>2. d \in Occupied(base_runners) /\ d # 0
    BY <1>7, <2>1 DEF Remain, Manned, Occupied, Base
  <2>3. CASE c = 0
    BY <1>8, <1>9, <1>11, <2>2, <2>3
  <2>4. CASE c # 0
    <3>1. AgoOf(c) < AgoOf(d) /\ c \in Occupied(base_runners)
      BY <1>1, <1>7, <2>1, <2>2, <2>4 DEF InTurn
    <3> QED BY <1>8, <1>9, <1>11, <2>2, <2>4, <3>1
  <2> QED BY <2>3, <2>4
<1>12. \A b \in Occupied(base_runners') :
         /\ SlotsOf(team_hitting, base_runners[b])' # {}
         /\ AgoOf(b)' <= outs' + 1 + Cardinality(Behind(base_runners', b))
         /\ \A e \in Occupied(base_runners') : b < e => AgoOf(b)' < AgoOf(e)'
  <2> TAKE b \in Occupied(base_runners')
  <2>1. PICK c \in Remain(base_runners, to) : to[c] = b
    BY <1>6
  <2>2. \A e \in Occupied(base_runners') : b < e => AgoOf(b)' < AgoOf(e)'
    <3> TAKE e \in Occupied(base_runners')
    <3>1. PICK d \in Remain(base_runners, to) : to[d] = e
      BY <1>6
    <3> QED BY <1>11, <2>1, <3>1
  <2> QED BY <1>8, <1>10, <2>1, <2>2
<1> QED BY <1>12 DEF InTurn, Behind

\* The mound is settled: the half goes on behind the same runners, or a new
\* one begins with the bases empty.
LEMMA MoundInTurn ==
  ASSUME IInv, InTurn, ChangePitcher \/ KeepPitcher
  PROVE  InTurn'
<1>1. /\ pc = "top" /\ NextHalf
      /\ outs' = outs /\ team_hitting' = team_hitting /\ order_at_bat' = order_at_bat
  BY DEF ChangePitcher, KeepPitcher, clock
<1>2. team_hitting \in Team /\ Fielding \in Team /\ Fielding # team_hitting
  BY DEF IInv, TypeOK, Fielding, Other, Team, HOME_TEAM, AWAY_TEAM
<1>3. offense'[team_hitting] = offense[team_hitting]
  <2>1. CASE ChangePitcher
    <3>1. \E i, sub : offense' = [offense EXCEPT ![Fielding][i] = sub]
      BY <2>1 DEF ChangePitcher
    <3> QED BY <1>2, <3>1 DEF IInv, TypeOK
  <2>2. CASE KeepPitcher
    BY <2>2 DEF KeepPitcher, cards
  <2> QED BY <2>1, <2>2
<1>4. CASE inning_over
  <2>1. Occupied(base_runners') = {}
    BY <1>1, <1>4 DEF NextHalf, EmptyBases, Occupied
  <2> QED BY <2>1 DEF InTurn
<1>5. CASE ~inning_over
  <2>1. HalfGoesOn /\ base_runners' = base_runners
    BY <1>1, <1>5 DEF HalfGoesOn, NextHalf
  <2>2. \A p : SlotsOf(team_hitting, p)' = SlotsOf(team_hitting, p)
    BY <1>1, <1>3 DEF SlotsOf
  <2>3. \A b \in Base : AgoOf(b)' = AgoOf(b)
    BY <1>1, <2>1, <2>2 DEF AgoOf, SlotOf, Ago
  <2>4. Occupied(base_runners) \subseteq Base
    BY DEF Occupied
  <2> QED BY <1>1, <2>1, <2>2, <2>3, <2>4 DEF InTurn
<1> QED BY <1>4, <1>5

\* InTurn holds along every game.
LEMMA InTurnKept == Spec => []InTurn
<1>1. Init => InTurn
  BY DEF Init, InTurn, HalfGoesOn
<1>2. IInv /\ ClockKept /\ InTurn /\ [Next]_vars => InTurn'
  <2> SUFFICES ASSUME IInv, ClockKept, InTurn, [Next]_vars PROVE InTurn'
    OBVIOUS
  <2>1. CASE StartGame
    <3>1. Occupied(base_runners') = {}
      BY <2>1 DEF StartGame, ClockKept, EmptyBases, Occupied
    <3> QED BY <3>1 DEF InTurn
  <2>2. CASE RejectLineups \/ EndGame
    BY <2>2 DEF RejectLineups, EndGame, InTurn, HalfGoesOn
  <2>3. CASE ChangePitcher \/ KeepPitcher
    BY <2>3, MoundInTurn
  <2>4. ASSUME NEW type \in ResultType, NEW s \in BOOLEAN, NEW e \in BOOLEAN,
               PlateAppearance(type, s, e)
        PROVE  InTurn'
    BY <2>4, AppearanceInTurn
  <2>5. ASSUME NEW type \in ResultType, NEW s \in BOOLEAN, NEW e \in BOOLEAN,
               AbortGame(type, s, e)
        PROVE  InTurn'
    BY <2>5 DEF AbortGame, InTurn, HalfGoesOn
  <2>6. CASE UNCHANGED vars
    <3>1. /\ HalfGoesOn' = HalfGoesOn /\ base_runners' = base_runners
          /\ team_hitting' = team_hitting /\ outs' = outs
      BY <2>6 DEF vars, clock, HalfGoesOn
    <3>2. \A p : SlotsOf(team_hitting, p)' = SlotsOf(team_hitting, p)
      BY <2>6 DEF vars, cards, clock, SlotsOf
    <3>3. \A b : AgoOf(b)' = AgoOf(b)
      BY <2>6, <3>2 DEF vars, clock, AgoOf, SlotOf, Ago
    <3> QED BY <3>1, <3>2, <3>3 DEF InTurn
  <2> QED BY <2>1, <2>2, <2>3, <2>4, <2>5, <2>6 DEF Next
<1> QED BY <1>1, <1>2, Invariance, ClockInvariance, PTL DEF Spec

\* The runners stand on the bases in the order in which they batted, and none
\* of them is at bat: the order would have to come round while his half goes
\* on, and three outs, three runners and a batter are too few for that.
THEOREM RunnersStayInOrder == Spec => []RunnersInOrder
<1>1. IInv /\ InTurn => RunnersInOrder
  <2> SUFFICES ASSUME IInv, InTurn, HalfGoesOn, NEW b \in Occupied(base_runners)
               PROVE  /\ SlotsOf(team_hitting, base_runners[b]) # {}
                      /\ pc = "bat" => base_runners[b] # Hitter
                      /\ \A c \in Occupied(base_runners) :
                           b < c => Ago(SlotOf(base_runners[b])) < Ago(SlotOf(base_runners[c]))
    BY DEF RunnersInOrder
  <2>1. ASSUME pc = "bat" PROVE base_runners[b] # Hitter
    <3>1. PICK i \in Slot : /\ SlotOf(base_runners[b]) = i
                            /\ Ago(i) \in 1 .. (LineupSize - 1)
      BY StillAhead
    <3>2. i # order_at_bat[team_hitting]
      BY <3>1, AgoBounds, NumberAssumption
    <3>3. SlotOf(Hitter) = order_at_bat[team_hitting]
      BY <2>1, HitterThere, OneSlot DEF Hitter
    <3> QED BY <3>1, <3>2, <3>3
  <2> QED BY <2>1 DEF InTurn, AgoOf
<1> QED BY <1>1, Invariance, InTurnKept, PTL
=============================================================================
