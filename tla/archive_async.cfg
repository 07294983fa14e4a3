SPECIFICATION ArchiveSpec
CONSTANTS
  Saver = {t1, t2}
  Item = {1, 2, 3}
  Text <- MCText
  MaxCrashes = 0
INVARIANT SavedIsStored
CHECK_DEADLOCK FALSE
