SPECIFICATION FairSpec
CONSTANTS
  Env = {a}
  Worker = {w1}
  Client = {k1, k2}
  StoreMayFail = TRUE
  MaxRestarts = 1
INVARIANTS OneOpenAlert
PROPERTIES NoFalseAlarm AlertFollowsService DeletedIsForgotten
