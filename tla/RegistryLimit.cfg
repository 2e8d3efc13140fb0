SPECIFICATION MCSpec
CONSTANTS
  a1 = a1
  a2 = a2
  a3 = a3
  c1 = c1
  c2 = c2
  s1 = s1
  s2 = s2
  s3 = s3
  p1 = p1
  p2 = p2
  p3 = p3
  Agents <- MCAgents
  Clients <- MCClients
  NoParent = NoParent
  MaxDepth = 3
  Amounts = {0, 1}
  MaxSpent = 1
  MaxMinted = 2
  Ids <- MCIds
  Procs <- MCProcs
  Nothing = Nothing
  MaxFaults = 2
  o1 = o1
  o2 = o2
  t1 = t1
  t2 = t2
  dir = dir
  TmuxSessions <- MCTmuxSessions
  Elsewhere = Elsewhere
  TailPrompts = 1
  Owners <- MCOwners
  DirectoryOf <- MCDirectoryOf
  MaxConvs = 3
  MaxPrompts = 2
  MaxRelaunches = 1
  Billed <- MCOwners
  Offset <- MCUTC
  MaxHours = 1
  MaxCalls = 3
  MaxFiles = 2
  Rounds <- MCClients
  Cap = 1
  MaxPanes = 2
  MaxPauses = 2
  Parts = {"pair", "chain"}
CHECK_DEADLOCK FALSE
PROPERTY LimitIsKept
