----------------------------- MODULE StaffRest -----------------------------
(***************************************************************************)
(* What a league promises its pitchers: whoever pitches is left with fewer *)
(* batters, possibly none, and each day gives every pitcher back a quarter *)
(* of what he can face, rounded up, but never more than that.              *)
(***************************************************************************)
EXTENDS Integers, FiniteSetsExt

CONSTANTS
  Pitcher,
  MaxBatters     \* calc_max_batters(end) of each pitcher

\* divide_ceiling(max_batters, 4)
DailyRest(p) == (MaxBatters[p] + 3) \div 4
Rested(p, left) == Min({MaxBatters[p], left + DailyRest(p)})

VARIABLE fresh   \* batters_left each morning

RestInit == fresh = MaxBatters

\* A day on which tired[p] is what p has left in the evening.
Day(tired) ==
  /\ \A p \in Pitcher : tired[p] <= fresh[p]
  /\ fresh' = [p \in Pitcher |-> Rested(p, tired[p])]

RestNext == \E tired \in [Pitcher -> UNION {0 .. fresh[p] : p \in Pitcher}] :
              Day(tired)
RestSpec == RestInit /\ [][RestNext]_fresh
=============================================================================
