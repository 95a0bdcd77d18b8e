\* Overlapping handlers on protected runs of both providers; tokens are required.
SPECIFICATION Spec
CONSTANTS
  Runs = {m, e}
  MnsRuns = {m}
  EciRuns = {e}
  Workers = {w1, w2}
  Sessions = {s1, s2}
  MaxAttempts = 1
  TokenRequired = TRUE
  MCAgentWorker = w1
  Agent <- MCAgent
  Local = local
  NoWorker = none
SYMMETRY HandlerSymmetry
INVARIANTS HeldWhileOpen LeaseOnlyToAgent
CHECK_DEADLOCK FALSE
