SPECIFICATION MCFairSpec
CONSTANTS
  Modes <- MCModes
  Frequency = 1
  MaxTime = 2
  MaxStops = 1
  MaxResumes = 1
  MaxNow = 4
  MaxBack = 1
  MaxEnds = 2
  HistoryThreads = {1, 2}
  Scopes = {1, 2}
  Width = 2
  LastTime = 2
  MaxRows = 3
  MaxUnread = 1
  c1 = c1
  c2 = c2
  w1 = w1
  Sends <- MCSends
  TmuxWindows <- MCTmuxWindows
  MaxPanes = 2
  MaxScrolls = 1
  d1 = d1
  b1 = b1
  Loggers <- MCLoggers
  Daemons <- MCDaemonLoggers
  Sample = 1
  IdleAfter = 1
  Fresh = 1
  PublishGap = 1
  MaxLate = 1
  Parts = {"heartbeat", "time", "timeline", "input", "presence"}
CHECK_DEADLOCK FALSE
INVARIANTS NoHeartbeatStorm ShownAddsUp TimelineIsTrue UndisturbedTextArrives PresenceIsTrue
PROPERTIES NoHeartbeatIntoKnownTurn IdleIsPrompted
