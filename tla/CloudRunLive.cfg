\* Recovery of runs whose workers go silent, with two overlapping handlers.
SPECIFICATION FairSpec
CONSTANTS
  Runs = {r1}
  MnsRuns = {}
  EciRuns = {}
  Workers = {w1}
  Sessions = {s1, s2}
  MaxAttempts = 2
  TokenRequired = FALSE
  MCAgentWorker = w1
  Agent <- MCAgent
  Local = local
  NoWorker = none
PROPERTIES SilentWorkerLosesRun
CHECK_DEADLOCK FALSE
