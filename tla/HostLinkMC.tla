----------------------------- MODULE HostLinkMC -----------------------------
(* HostLink for TLC: hosts and ports are interchangeable model values. *)
EXTENDS HostLink, TLC

Symmetry == Permutations(Ips) \cup Permutations(Ports)
=============================================================================
