-------------------------- MODULE MCDimmAccounting --------------------------
(* Instances of DimmAccounting for TLC: an ordinary DIMM and one whose     *)
(* label is too long to be stored, as EDAC makes them when it names        *)
(* several DIMMs at once, and thresholds moved under and over the counts.  *)
EXTENDS DimmAccounting

CONSTANTS d1, long, cut, k1, k2

Labels == [d \in Dimm |-> IF d = long THEN cut ELSE d]

Sound == [ce : {1, 2}, uce : {1, 2}]
Two   == [ce : {2}, uce : {2}]
=============================================================================
