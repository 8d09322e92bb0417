SPECIFICATION Spec
CONSTANTS
  t1 = t1
  t2 = t2
  Threads = {t1, t2}
  Viewer = t1
  MaxLifetimes = 3
  MaxActions = 2
INVARIANTS RunsExactlyOnce RunsInReverse NestedEndsWithParent OneAtATime
CHECK_DEADLOCK FALSE
