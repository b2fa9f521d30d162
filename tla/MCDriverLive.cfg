SPECIFICATION Spec
CONSTANTS
  d1 = d1
  d2 = d2
  h1 = h1
  h2 = h2
  w1 = w1
  w2 = w2
  r1 = r1
  r2 = r2
  main = main
  one = one
  two = two
  switch = switch
  Handler = {h1, h2}
  Worker = {}
  Requester = {}
  SigInt = {}
  Device = {d1}
  Name <- MCName
  NewDevice = "newdevice"
  Addr = "4689"
  InitName <- Named
  MAC <- MCMAC
  Res = {one, switch}
  ResType <- MCResType
  Cap = 2
  MaxPolls = 2
  Rounds = 1
  MaxCalls = 2
  MaxRequests = 0
  MaxPushes = 2
  NULL = NULL
PROPERTIES
  
  EveryGetReturns
  EveryCommandLeaves
CHECK_DEADLOCK FALSE
