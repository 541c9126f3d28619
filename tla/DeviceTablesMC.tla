--------------------------- MODULE DeviceTablesMC ---------------------------
(* DeviceTables for TLC: names of switches are interchangeable.  Of the urls, *)
(* one is another spelling of the first.                                      *)
EXTENDS DeviceTables, TLC

CONSTANTS plain, spelled

Symmetry == Permutations(SwitchNames)

MCNormalForm == [url \in Urls \cup {None} |-> IF url = spelled THEN plain ELSE url]
=============================================================================
