SPECIFICATION FairSpec
CONSTANTS
  MaxEvents = 4
  NoCursor = NoCursor
  Now = Now
  FirstCursors <- AnyCursor
INVARIANTS
  TypeOK
  OnceInOrder
PROPERTIES
  EveryEventDelivered
CHECK_DEADLOCK FALSE
