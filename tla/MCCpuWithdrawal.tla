-------------------------- MODULE MCCpuWithdrawal --------------------------
(* Instances of CpuWithdrawal for TLC: a host without the bypass, one that *)
(* has found the same entry points, or none, in both directions, and one   *)
(* that has found a single one.                                            *)
EXTENDS CpuWithdrawal

CONSTANTS c1, c2, c3, i1

Found  == {Ways \X rungs : rungs \in SUBSET Rungs} \cup {{s} : s \in Symbols}
AnyBox == {b \in [bypass : BOOLEAN, stub : SUBSET Ways, found : Found] :
             ~b.bypass => b.found = {}}
Plain  == [bypass : {FALSE}, stub : {{}}, found : {{}}]
=============================================================================
