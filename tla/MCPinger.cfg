SPECIFICATION FairSpec
CONSTANTS
  main = main
  worker = worker
  a1 = a1
  a2 = a2
  bad = bad
  Producer = {main, worker}
  Main = main
  Task = {0, 1, 2}
  Script <- MCScript
  Addr = {a1, a2}
  Ip <- MCIp
  MyId = 1
  Foreign <- MCOneForeign
  Batch = 1
  RcvMax = 1
  EvMax = 2
  MaxStops = 2
INVARIANTS
  TypeOK
  Delivered
  LateBounded
  RepliesNotHeldUp
  AcceptedWasSent
  ReturnsOnlyIfStopped
PROPERTIES
  StopHonoured
  PostedIsTried
CHECK_DEADLOCK FALSE
