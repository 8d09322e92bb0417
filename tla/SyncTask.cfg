SPECIFICATION Spec
CONSTANTS
  editor = editor
  rider = rider
  Ends = {editor, rider}
  MaxCalls = 2
  MaxAgain = 1
INVARIANTS SyncTaskExists
CHECK_DEADLOCK FALSE
