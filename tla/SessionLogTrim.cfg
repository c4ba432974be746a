\* One trim over a log of at most four events.
SPECIFICATION SessionSpec
CONSTANTS
  Trims = {t1}
  Saves = {}
  Watchers = {}
  KeepSizes = {0, 1}
  MaxEvents = 4
PROPERTY TrimReplacesTheSurface
CHECK_DEADLOCK FALSE
