\* A completion overtaken by the expiry of its lease.
SPECIFICATION Spec
CONSTANTS
  Runs = {r1}
  MnsRuns = {}
  EciRuns = {}
  Workers = {w1, w2}
  Sessions = {s1, s2}
  MaxAttempts = 2
  TokenRequired = FALSE
  MCAgentWorker = w1
  Agent <- MCAgent
  Local = local
  NoWorker = none
PROPERTIES OnlyCurrentLeaseFinalizes
CHECK_DEADLOCK FALSE
