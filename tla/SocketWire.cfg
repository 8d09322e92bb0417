SPECIFICATION FairWireSpec
CONSTANTS
  MaxPut = 2
  MaxConn = 3
  Closers = {c1}
INVARIANTS FirstConnectionExact DispatchedInRuns AcknowledgedIsDispatched
PROPERTIES UsesOutboxCorrectly TerminationCompletes
