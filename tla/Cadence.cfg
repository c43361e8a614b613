SPECIFICATION FairSpec
CONSTANTS
  t1 = t1
  t2 = t2
  NPeers = 2
  Threads <- OneThread
  FirstThread = t1
  Dormancy = TRUE
  MaxIndex = 5
  MaxEvents = 2
CHECK_DEADLOCK FALSE
INVARIANTS
  TypeOK
  OneSpeaker
PROPERTIES
  NobodyPassedOver
  QuietAfterSilentCycle
  RotationGoesOn
