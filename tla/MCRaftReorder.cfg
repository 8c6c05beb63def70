CONSTANTS
  Server = {s1, s2}
  NOBODY = NOBODY
  MaxTerm = 1
  MaxLog = 2
  MaxCalls = 2
  MaxRestart = 1
  Cap = 1
SPECIFICATION Spec
SYMMETRY Symmetry
INVARIANTS IInv NextIndexInRange NoLostCommit
PROPERTY CommitMonotonic
\* The bounds on terms, entries and restarts end every behaviour.
CHECK_DEADLOCK FALSE
