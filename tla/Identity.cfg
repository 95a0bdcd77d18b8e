\* Two login transactions and two requests or sweeps; two sign-outs, two returning browsers.
CONSTANTS
  t1 = t1
  t2 = t2
  h1 = h1
  h2 = h2
  Txs <- MCTxs
  Handlers <- MCHandlers
  NoTx = NoTx
  NoClaim = NoClaim
  Continuations <- MCContinuations
  SignOuts = {q1, q2}
  Followers = {f1, f2}
  NoSignOut = NoSignOut
SPECIFICATION MCSpec
CHECK_DEADLOCK FALSE
INVARIANTS TypesOK EverythingOnce HintSpentOnce
PROPERTIES BlockedUntilRestored BlockedLosesAccess
