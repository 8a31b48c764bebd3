------------------------------ MODULE MCSimDay ------------------------------
EXTENDS SimDay

CONSTANTS p1, p2, p3

MCPitcher == {p1, p2, p3}
MCMaxBatters == (p1 :> 2 @@ p2 :> 3 @@ p3 :> 2)
MCRefill == (p1 :> 1 @@ p2 :> 1 @@ p3 :> 1)
MCPitchersOf == <<{p1}, {p2, p3}>>
=============================================================================
