SPECIFICATION MCFairSpec
CONSTANTS
  w1 = w1
  w2 = w2
  w3 = w3
  r1 = r1
  Writers <- MCWriters
  Readers <- MCReaders
  LegacyBackups <- MCLegacy
  Nobody = Nobody
  MaxRetries = 2
  MaxFaults = 2
  i1 = i1
  i2 = i2
  j1 = j1
  n1 = n1
  n2 = n2
  CmdAgents <- MCCmdAgents
  Remote <- MCRemote
  NameOf <- MCNames
  NoTarget = NoTarget
  MaxPosted = 1
  MaxKeys = 3
  MaxOutside = 2
  h1 = h1
  k1 = k1
  k2 = k2
  Hosted <- MCHosted
  Pollers <- MCPollers
  MaxChanges = 1
  MaxCalls = 1
  MaxOutages = 1
  Window = 3
  Tail100 = 3
  MaxMoves = 4
CHECK_DEADLOCK FALSE
INVARIANTS LineReachesItsAgent
PROPERTIES TornFileIsKept EveryUpdateEnds ShownCatchesUp OutageHidesNobody NoFlash StandstillIsSeen
