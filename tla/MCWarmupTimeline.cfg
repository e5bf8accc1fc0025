CONSTANTS
  Hour = 2
  Jitter = {1}
  DialogDelays = {0, 1}
  ColdDelays = {2}
  MaxDelay = 2
  Work = 1
  DayGaps = {1}
  NightGaps = {2}
  Caps = {1}
  MaxCap = 1
  DayLength = 3
  MaxTime = 4
  MaxQueue = 1
SPECIFICATION Spec
INVARIANTS TypeOK PlannedCap HourlyReads Punctual QuietHours
