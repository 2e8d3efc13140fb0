SPECIFICATION MCSpec
CONSTANTS
  Modes <- MCModes
  Frequency = 1
  MaxTime = 2
  MaxStops = 0
  MaxResumes = 0
  MaxNow = 1
  MaxBack = 0
  MaxEnds = 0
  HistoryThreads = {1, 2}
  Scopes = {1, 2}
  Width = 2
  LastTime = 2
  MaxRows = 3
  MaxUnread = 1
  c1 = c1
  c2 = c2
  w1 = w1
  Sends <- MCSends
  TmuxWindows <- MCTmuxWindows
  MaxPanes = 2
  MaxScrolls = 1
  d1 = d1
  b1 = b1
  Loggers <- MCLoggers
  Daemons <- MCDaemonLoggers
  Sample = 1
  IdleAfter = 1
  Fresh = 1
  PublishGap = 1
  MaxLate = 1
  Parts = {"heartbeat"}
CHECK_DEADLOCK FALSE
PROPERTIES TerminatedGetsNoHeartbeat
