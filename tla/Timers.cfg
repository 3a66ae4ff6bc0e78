SPECIFICATION Spec
CONSTANTS
  Timeouts = {x, y, z}
  Intervals = {0, 3}
  NoTime = no_time
  NoTimeout = no_timeout
  MaxTime = 4
  MaxDelay = 1
  MaxAdds = 4
INVARIANTS
  TypeOK
  ListsEnabled
  SetForFirst
PROPERTIES
  IsAlarmClock
  DueIsHandled
CHECK_DEADLOCK FALSE
