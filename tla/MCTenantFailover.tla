--------------------------- MODULE MCTenantFailover ---------------------------
(* Instances of TenantFailover for TLC: a capability with two providers, which *)
(* opens the window in which others get in, and one with three.                *)
EXTENDS TenantFailover

CONSTANTS p1, p2, p3, client
TwoAndThree == {<<1, p1>>, <<1, p2>>, <<2, p1>>, <<2, p2>>, <<2, p3>>}
TwoAndTwo == {<<1, p1>>, <<1, p2>>, <<2, p1>>, <<2, p2>>}
===============================================================================
