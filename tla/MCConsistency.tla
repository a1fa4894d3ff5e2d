---------------------------- MODULE MCConsistency ----------------------------
(* A small instance of Consistency: one indexer with two allocations on the *)
(* deployment, one with one there and one elsewhere.                        *)
EXTENDS Consistency

CONSTANTS i1, i2, k1, k2, k3, kElsewhere, Bond, Other

MCOperatorOf == [k \in Keys |-> IF k \in {k1, k2} THEN i1 ELSE i2]

MCDeploymentOf == [k \in Keys |-> IF k = kElsewhere THEN Other ELSE Bond]

Behaviours ==
  {<<"honest", "honest">>, <<"honest", "respaced">>, <<"honest", "lying">>,
   <<"lying", "honest">>, <<"lying", "respaced">>}

\* Everything with stake and the right domain, and one departure at a time.
MCSetups ==
  {s \in SetupType :
     /\ <<s.behaviour[i1], s.behaviour[i2]>> \in Behaviours
     /\ s.head[i1] = MaxBlock \/ s.head[i2] = MaxBlock
     /\ s.stake[i1] = "staked"
     /\ s.domain # TrueDomain => s.stake[i2] = "staked" /\ s.behaviour[i2] = "honest" /\ s.exposed
     /\ s.stake[i2] = "none" => s.behaviour[i1] = "honest" /\ s.exposed}

\* For the question whether evidence is kept: nobody departs, the route to a
\* single indexer is not exposed, one of the two lies.
SampledSetups ==
  {s \in MCSetups :
     /\ s.behaviour[i1] = "lying" /\ s.behaviour[i2] = "honest"
     /\ s.stake[i2] = "staked" /\ s.domain = TrueDomain /\ ~s.exposed}
=============================================================================
