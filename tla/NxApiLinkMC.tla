----------------------------- MODULE NxApiLinkMC -----------------------------
(* NxApiLink for TLC: switches are interchangeable model values. *)
EXTENDS NxApiLink, TLC

Symmetry == Permutations(Urls)
=============================================================================
