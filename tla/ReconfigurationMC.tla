-------------------------- MODULE ReconfigurationMC --------------------------
(* Reconfiguration for TLC: hosts other than Node-1 and Node-10 are *)
(* interchangeable model values.                                     *)
EXTENDS Reconfiguration, TLC

Symmetry == Permutations(Hosts \ {Node1, Node10})

Set(online, vlan, network, gateway) ==
  [f \in Flags |-> CASE f = "shouldCheckOnline" -> online
                     [] f = "shouldRandomizeVlan" -> vlan
                     [] f = "shouldRandomizeNetwork" -> network
                     [] f = "shouldRandomizeGateway" -> gateway]

\* Nothing random, hosts seen online only; random ids and gateways; random networks
\* and gateways.
Consistent == {Set(TRUE, FALSE, FALSE, FALSE), Set(FALSE, TRUE, FALSE, TRUE),
               Set(FALSE, FALSE, TRUE, TRUE)}

\* Random networks with regular gateways.
Mixed == {Set(FALSE, FALSE, TRUE, FALSE)}
=============================================================================
