--------------------------- MODULE MCKernelEventBus ---------------------------
(* Instances of KernelEventBus for TLC.                                        *)
EXTENDS KernelEventBus

CONSTANTS e1, e2, s1, s2, r1, r2

EveryPair == Events \X Subs
OneRetry == [s \in Subs |-> 1]
===============================================================================
