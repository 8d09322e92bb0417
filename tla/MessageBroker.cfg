\* A single id: two share only the default scheduler's queue and thread, and an
\* action leaves the other id's state alone.
SPECIFICATION LiveSpec
CONSTANTS
  e1 = e1
  Entities = {e1}
  Kinds = {"plain", "signal", "ext", "intern"}
  MaxMessages = 4
  MaxBinds = 2
INVARIANTS EachHeldOnce InOrder RemovedIsNotCalled
PROPERTIES BoundIsServed
