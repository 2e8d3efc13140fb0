SPECIFICATION MCSpec
CONSTANTS
  d1 = d1
  d2 = d2
  d3 = d3
  u1 = u1
  u2 = u2
  s1 = s1
  s2 = s2
  Pids <- MCPids
  Probers <- MCProbers
  Stoppers <- MCStoppers
  Nobody = Nobody
  NoFile = NoFile
  Blank = Blank
  MaxStrangers = 1
  MaxRuns = 3
  MaxTokens = 1
  MaxFaults = 2
  f1 = f1
  l1 = l1
  Followers <- MCFollowers
  Listers <- MCListers
  Policies = {"wait"}
  Modes = {"polling"}
  MaxTurns = 1
  MaxRevives = 0
  MaxReports = 1
  x1 = x1
  x2 = x2
  Openers <- MCPids
  SplitIds <- MCWindows
  MaxUpsets = 0
  v1 = v1
  v2 = v2
  v3 = v3
  Servers <- MCServers
  WebPorts <- MCPorts
  NoServer = NoServer
  MaxMishaps = 2
  Parts = {"split"}
CHECK_DEADLOCK FALSE
PROPERTY RefusedWhileSettingUp
