CONSTANTS
  Server = {s1, s2, s3}
  NOBODY = NOBODY
  MaxTerm = 2
  MaxLog = 0
  MaxCalls = 1
  MaxRestart = 0
  Cap = 1
SPECIFICATION Spec
SYMMETRY Symmetry
INVARIANTS TimelyElectionSafety ElectedByMajority
\* The bounds on terms, entries and restarts end every behaviour.
CHECK_DEADLOCK FALSE
