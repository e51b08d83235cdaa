SPECIFICATION FairSpec
CONSTANTS
  main = main
  worker = worker
  a1 = a1
  a2 = a2
  bad = bad
  Producer = {main, worker}
  Main = main
  Task = {0, 1, 2}
  Script <- MCShortScript
  Addr = {a1, a2}
  Ip <- MCIp
  MyId = 1
  Foreign <- MCOneForeign
  Batch = 2
  RcvMax = 1
  EvMax = 3
  MaxStops = 1
PROPERTIES
  TrueStopHonoured
CHECK_DEADLOCK FALSE
