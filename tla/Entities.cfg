SPECIFICATION Spec
CONSTANTS
  editor = editor
  rider = rider
  Ends = {editor, rider}
  None = None
  MaxChanges = 4
  v1 = v1
  v2 = v2
  Values = {v1, v2}
  Keys = {k1, k2}
  MaxLength = 3
  Writers = {w1, w2}
INVARIANTS PropertyConverges MapConverges ListReportsCrossing SetConverges IndicesResolve
CHECK_DEADLOCK FALSE
