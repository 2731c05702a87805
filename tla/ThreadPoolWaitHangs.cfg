CONSTANTS
  w1 = w1
  w2 = w2
  c1 = c1
  c2 = c2
  t1 = t1
  t2 = t2
  Workers <- OneWorker
  Clients <- OneClient
  Tasks <- OneTask
  Owner = c1
  NoTask = NoTask
  NoClient = NoClient
  MaxSpurious = 0
SPECIFICATION FairSpec
PROPERTIES
  WaitEnds
CHECK_DEADLOCK FALSE
