CONSTANTS
  Server = {s1, s2}
  NOBODY = NOBODY
  MaxTerm = 2
  MaxLog = 1
  MaxCalls = 2
  MaxRestart = 1
  Cap = 1
SPECIFICATION Spec
SYMMETRY Symmetry
INVARIANTS TypeOK PersistedIsCurrent OneVotePerTerm
PROPERTIES TermMonotonic LeaderAppendOnly LeaderGetsNoToken
\* The bounds on terms, entries and restarts end every behaviour.
CHECK_DEADLOCK FALSE
