---------------------------- MODULE ConfiguratorMC ----------------------------
(* Configurator for TLC: VLANs are interchangeable, and so are hosts texts. *)
EXTENDS Configurator, TLC

Symmetry == Permutations(Vlans) \cup Permutations(HostLists)
=============================================================================
