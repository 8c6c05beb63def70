CONSTANTS
  nil = nil
  Server = {s1, s2}
  Calls = {c1}
  MaxCommands = 3
SPECIFICATION FairSpec
INVARIANTS IInv RepliedIsSaved GhostsDoNotCall ConnectedIsEnabled FailureHasCause
PROPERTIES ImplementsRemoteCall CallReturns DispatcherEnds
CHECK_DEADLOCK FALSE
