------------------------------ MODULE MCBulkhead ------------------------------
(* Instances of Bulkhead for TLC.                                           *)
EXTENDS Bulkhead, TLC

CONSTANTS c1, c2, c3, c4, c5
FiveCalls == {c1, c2, c3, c4, c5}
Symmetric == Permutations(FiveCalls)
===============================================================================
