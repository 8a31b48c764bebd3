----------------------------- MODULE MCLineups -----------------------------
EXTENDS Lineups

\* Three starters, a reliever, and the man for the other position.
MCSquad ==
  {[position |-> 1, rank |-> n] : n \in 1 .. 3} \cup
  {[position |-> 0, rank |-> 1]} \cup
  {[position |-> 2, rank |-> 1]}
=============================================================================
