CONSTANTS
  Server = {s1, s2, s3}
  NOBODY = NOBODY
  MaxTerm = 3
  MaxLog = 2
  MaxCalls = 2
  MaxRestart = 0
  Cap = 1
SPECIFICATION DivergedSpec
SYMMETRY Symmetry
INVARIANTS LogMatching OnlyOldOverwritten
\* The bounds on terms, entries and restarts end every behaviour.
CHECK_DEADLOCK FALSE
