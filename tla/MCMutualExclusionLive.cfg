CONSTANTS
  nil = nil
  N = 2
  occupyTimes = 2
  InitTime = {1, 3}
SPECIFICATION FairSpec
INVARIANTS IInv TypeOK OneRequestPerProcess WaitReturnsLast
PROPERTIES ReceivedTimeMonotonic RequestGranted DriverFinishes
\* A stop before the end violates DriverFinishes; the runs on Spec check deadlock.
CHECK_DEADLOCK FALSE
