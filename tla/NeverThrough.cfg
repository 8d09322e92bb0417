SPECIFICATION Spec
CONSTANTS
  LastCell = 3
  Room = 2
  MaxHeight = 2
PROPERTIES NeverThroughImpassible
