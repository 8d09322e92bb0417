SPECIFICATION LiveSpec
CONSTANT MaxSent = 2
INVARIANTS NeverTooEarly InOrder DisconnectedIsKnown
PROPERTIES AllArrive
