CONSTANTS
  nil = nil
  N = 6
  me = 2
  MaxRequestTime = 1
  MaxTime = 2
SPECIFICATION Spec
INVARIANTS IInv IndexIsPosition Rule5Decided
PROPERTY ImplementsQueues
