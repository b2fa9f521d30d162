SPECIFICATION Spec
CONSTANTS
  d1 = d1
  d2 = d2
  h1 = h1
  h2 = h2
  w1 = w1
  w2 = w2
  r1 = r1
  r2 = r2
  main = main
  one = one
  two = two
  switch = switch
  Handler = {}
  Worker = {w1, w2}
  Requester = {r1, r2}
  SigInt = {main}
  Device = {d1, d2}
  Name <- MCName
  NewDevice = "newdevice"
  Addr = "4689"
  InitName <- Unnamed
  MAC <- MCMAC
  Res = {}
  ResType <- MCResType
  Cap = 2
  MaxPolls = 2
  Rounds = 1
  MaxCalls = 0
  MaxRequests = 2
  MaxPushes = 0
  NULL = NULL
INVARIANTS
  DiscoveryExclusive
PROPERTIES
  EveryJobEnds
CHECK_DEADLOCK FALSE
