CONSTANTS
  Server = {s1, s2}
  NOBODY = NOBODY
  MaxTerm = 2
  MaxLog = 0
  MaxCalls = 2
  MaxRestart = 0
  Cap = 1
SPECIFICATION Spec
SYMMETRY Symmetry
INVARIANT ElectionSafety
\* The bounds on terms, entries and restarts end every behaviour.
CHECK_DEADLOCK FALSE
