SPECIFICATION Spec
CONSTANTS
  Viewer = {tab}
  MaxEvents = 3
  MaxBreaks = 2
  MaxRestarts = 1
  LogMayFail = TRUE
  StoreMayFail = TRUE
  LinesMayBeLong = TRUE
INVARIANTS ReturnedMissesOnlyFinal DoneIsOnRecord HistoryKeepsLog
PROPERTIES FeedSpec EndIsTold
