------------------------------ MODULE MCLeague ------------------------------
EXTENDS League

CONSTANTS c1, c2

MCRounds == (0 :> 1 @@ 1 :> 2 @@ 2 :> 1)

\* Enough, more than enough, too few starters, too few hitters.
MCPools == { (0 :> 2 @@ 1 :> 4 @@ 2 :> 2), (0 :> 3 @@ 1 :> 4 @@ 2 :> 3),
             (0 :> 2 @@ 1 :> 3 @@ 2 :> 2), (0 :> 2 @@ 1 :> 4 @@ 2 :> 1) }

Alike == Permutations(Client)
=============================================================================
