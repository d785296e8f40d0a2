CONSTANTS
  Entity = {e}
  e = e
  Slot = {a, b}
  a = a b = b
  AutoAnalysis = {TRUE, FALSE}
  MaxTokens = 2
  MaxChain = 3
  MaxEntries = 1
  MaxAnalyses = 1
SPECIFICATION FairSpec
INVARIANTS AuditLinked
PROPERTIES StatusAudited VerdictStands TunnelQuarantines
