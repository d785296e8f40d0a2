CONSTANTS
  Kind = {k}
  Policy = {p}
  PolicyBody <- MCPolicyBody
  Default <- MCDefault
  Pass = {x, y}
  Caller = {c, d}
  MaxAnomalies = 2
  MaxRuns = 2
  MaxApprovals = 2
SPECIFICATION Spec
SYMMETRY Symmetric
INVARIANTS ApprovalsSpent ExecutingIsAwaited ReplannedOnlyByOverlap
