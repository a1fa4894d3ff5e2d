------------------------------- MODULE MCProxy -------------------------------
(* A small instance of Proxy: two handlers, two visitors, two deployments   *)
(* that are served and one that is not, a query that is forwarded and one   *)
(* that is not, an allowance of two.                                        *)
EXTENDS Proxy, TLC

CONSTANTS h1, h2, ip1, ip2, bond, ade, unknown

Symmetry ==
  {f @@ g @@ k : f \in Permutations({h1, h2}), g \in Permutations({ip1, ip2}),
                 k \in Permutations({bond, ade})}
=============================================================================
