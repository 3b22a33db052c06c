SPECIFICATION Spec
CONSTANTS
  Event = {e1, e2, e3}
  Thread = {t1, t2}
  NoThread = NoThread
  NoEvent = NoEvent
  CanStop = TRUE
  CanTime = TRUE
CHECK_DEADLOCK FALSE
INVARIANT TypeOK
PROPERTIES FirstInFirstOut EventsHandledInTime WokenByNextSignal
