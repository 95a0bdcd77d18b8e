\* Three overlapping handlers on one hashless run; tokens are not required.
SPECIFICATION Spec
CONSTANTS
  Runs = {r1}
  MnsRuns = {}
  EciRuns = {}
  Workers = {w1, w2}
  Sessions = {s1, s2, s3}
  MaxAttempts = 3
  TokenRequired = FALSE
  MCAgentWorker = w1
  Agent <- MCAgent
  Local = local
  NoWorker = none
SYMMETRY HandlerSymmetry
INVARIANTS TypeOK OnePatchPerRun
PROPERTIES ImplementsSettlement
CHECK_DEADLOCK FALSE
