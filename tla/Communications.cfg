SPECIFICATION Spec
CONSTANTS
  Account = {adm, usr}
  Admins = {adm}
  Target = usr
  Connection = {tab}
  Buffer = 1
  Request = {r1}
  MaxMessages = 3
  Switched = {adm}
INVARIANTS ClosedOnce TimelineLegal ReplyReads StaleIsAnnounced
PROPERTY StreamsEnd
