SPECIFICATION MCFairSpec
CONSTANTS
  w1 = w1
  w2 = w2
  w3 = w3
  r1 = r1
  l1 = l1
  l2 = l2
  h1 = h1
  h2 = h2
  a1 = a1
  a2 = a2
  a3 = a3
  k1 = k1
  k2 = k2
  Writers <- MCWriters
  Readers <- MCReaders
  LegacyBackups <- MCNoLegacy
  Nobody = Nobody
  MaxRetries = 2
  MaxFaults = 0
  Listers <- MCListers
  MaxFailures = 2
  Hooks <- MCHooks
  MaxHooks = 3
  RotateOver = 2
  KeepLines = 1
  TuiAgents <- MCAgents
  Alphabet <- MCAlphabet
  ParentOf <- MCParents
  NoAgent = NoAgent
  ListWorkers <- MCWorkers
  MaxEvents = 1
  MaxInputs = 2
  MaxQueue = 2
  StallAge = 1
  WorkSpan = 2
  MaxChanges = 4
  t1 = t1
  t2 = t2
  q1 = q1
  r2 = r2
  Tuis <- MCTuis
  OwnAgents <- MCOwnAgents
  SshAgents <- MCSshAgents
  Placeholder = Placeholder
  Unborn = Unborn
  Shut = Shut
  NoAgentShown = NoAgentShown
  MaxWindows = 3
  MaxTurns = 2
CHECK_DEADLOCK FALSE
INVARIANTS TypesOK RecordIsTrue DialogsLeaveNoTrace FocusIsShown
PROPERTIES ImplementsRegistry EndIsSeen RestIsSeen KilledOnSecondPress ListCatchesUp StallsAreToldOnce CaptureCatchesUp
