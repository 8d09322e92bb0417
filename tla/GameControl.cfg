SPECIFICATION Spec
CONSTANTS
  MaxConnections = 2
  MaxRequests = 1
  MaxChanges = 3
  Settings <- MCSettings
  RiderModes <- MCRiderModes
INVARIANTS AliveFollowsConnection ModelOutlivesUsers AnsweredOnce PlayStateIsTold ModeIsTold
CHECK_DEADLOCK FALSE
