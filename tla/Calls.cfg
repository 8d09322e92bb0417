SPECIFICATION LiveSpec
CONSTANTS
  editor = editor
  rider = rider
  Ends = {editor, rider}
  MaxCalls = 2
  MaxAgain = 1
INVARIANTS EndedIsAnswered HeldIsAnswered
PROPERTIES FirstAnswerStays SyncCallEnds
CHECK_DEADLOCK FALSE
