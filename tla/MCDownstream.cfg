SPECIFICATION Spec
CONSTANTS
  ReplyTimeout = 2
  MaxSilences = 2
CHECK_DEADLOCK FALSE
INVARIANTS
  TypeOK
  NoRequestAbandoned
PROPERTIES
  DialEnds
  StalledEnds
  DisconnectEnds
  ForwardEnds
  NothingLeft
