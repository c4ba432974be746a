\* Two repeating reminders, no crash.
SPECIFICATION ScheduleSpec
CONSTANTS
  IDs = {r1, r2}
  Kinds = {"every"}
  Cadence = 2
  MaxTime = 4
  MaxCrashes = 0
INVARIANT RepeatingRemindersRearm
CHECK_DEADLOCK FALSE
