---------------------------- MODULE MCFastSeason ----------------------------
EXTENDS FastSeason

CONSTANTS t1, t2, t3, t4

MCTeam == {t1, t2, t3, t4}
MCTeamIds == <<t1, t2, t3, t4>>
MCGrid == (0 :> {<<0, 1>>, <<2, 3>>} @@ 1 :> {<<2, 0>>, <<3, 1>>}
           @@ 2 :> {<<0, 3>>, <<1, 2>>})

\* Two pitchers who share a bucket of the hash.
MCPitcher == {1, 3}
MCTeamOf == (1 :> t1 @@ 3 :> t3)
MCMaxBatters == (1 :> 2 @@ 3 :> 3)
MCRefill == (1 :> 1 @@ 3 :> 1)

\* schedule_grid of generate_schedule.c
Grid14 ==
  LET Out == << {<<0,1>>,<<2,3>>,<<4,5>>,<<6,7>>}, {<<0,2>>,<<1,3>>,<<4,6>>,<<5,7>>},
                {<<0,3>>,<<1,2>>,<<4,7>>,<<5,6>>}, {<<0,4>>,<<1,5>>,<<2,6>>,<<3,7>>},
                {<<0,5>>,<<1,4>>,<<2,7>>,<<3,6>>}, {<<0,6>>,<<3,5>>,<<1,7>>,<<2,4>>},
                {<<0,7>>,<<1,6>>,<<2,5>>,<<3,4>>} >>
      Back == << {<<1,0>>,<<3,2>>,<<5,4>>,<<7,6>>}, {<<2,0>>,<<3,1>>,<<6,4>>,<<7,5>>},
                 {<<3,0>>,<<2,1>>,<<7,4>>,<<6,5>>}, {<<4,0>>,<<5,1>>,<<6,2>>,<<7,3>>},
                 {<<5,0>>,<<4,1>>,<<7,2>>,<<6,3>>}, {<<6,0>>,<<5,3>>,<<7,1>>,<<4,2>>},
                 {<<7,0>>,<<6,1>>,<<5,2>>,<<4,3>>} >>
  IN  [w \in 0 .. 13 |-> IF w < 7 THEN Out[w + 1] ELSE Back[w - 6]]

\* What GridAssumption asks holds of the grid in the code: in each week
\* everybody plays once; and over the weeks each pair meets once in either park.
ASSUME
  /\ GridFits(Grid14, 0 .. 7)
  /\ \A i, j \in 0 .. 7 :
       i # j => Cardinality({w \in 0 .. 13 : <<i, j>> \in Grid14[w]}) = 1
=============================================================================
