------------------------------- MODULE MCHealing -------------------------------
EXTENDS Healing, TLC

\* The policy is automatic, needs an approval, or has no actions.
Body(auto, actions) ==
  [enabled |-> TRUE, autoExecute |-> auto, priority |-> 80, applies |-> Kind,
   breaks |-> {}, actions |-> actions]
MCPolicyBody == {Body(TRUE, TRUE), Body(FALSE, TRUE), Body(TRUE, FALSE)}
MCDefault == [p \in Policy |-> Body(TRUE, TRUE)]
Symmetric == Permutations(Pass) \cup Permutations(Caller)

================================================================================
