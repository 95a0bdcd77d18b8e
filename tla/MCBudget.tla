------------------------------ MODULE MCBudget ------------------------------
(***************************************************************************)
(* Instances of Budget for TLC.  Amounts are scaled: the estimate is 2, a  *)
(* run costs nothing, a part of the estimate, or more than it, and grants  *)
(* are such that the balance meets the estimate exactly and misses it.     *)
(***************************************************************************)
EXTENDS Budget

CONSTANTS r1, r2, h1, h2

TwoRuns     == {r1, r2}
TwoHandlers == {h1, h2}
OneOrTwo    == {{h1}, {h1, h2}}
Both        == {{h1, h2}}

SmallGrants   == {1, 2}
LimitOfOne    == {0, 3}
SomeRunLimits == {0, 1}
AnyCost       == {0, 1, 3}
=============================================================================
