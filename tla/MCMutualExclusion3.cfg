CONSTANTS
  nil = nil
  N = 3
  occupyTimes = 1
  InitTime = {1}
SPECIFICATION Spec
VIEW View
INVARIANTS NoPanic OccupierIsFirst ResourceAgrees
PROPERTIES ImplementsOrderedLock UsesQueues
