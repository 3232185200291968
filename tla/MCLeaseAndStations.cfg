\* Two passes, a waiting supervisor, a reaper; one session, its holder and
\* another inspector.
SPECIFICATION BothSpec
CONSTANTS
  Pass = {p1, p2}
  Supervisor = {s1}
  Inode = {i1, i2, i3}
  None = None
  MaxBeats = 1
  Inspector = {holder, operator}
  Holder = holder
  Nobody = nobody
  MaxOrders = 2
  MaxAsked = 1
INVARIANTS
  OneHolderUntilReaped
  LiveBodyHolds
  NoFalseAlarm
  AnsweredOnce
PROPERTY
  HardStopAnswered
CHECK_DEADLOCK FALSE
