SPECIFICATION FairSpec
CONSTANTS
  MaxPut = 3
  Closers = {c1, c2}
INVARIANTS IInv HeldInOrder
PROPERTIES ImplementsWindow AcceptedIsTaken ClosedThreadEnds
