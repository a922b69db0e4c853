SPECIFICATION FairSpec
CONSTANTS
  b1 = b1
  b2 = b2
  NoBot = NoBot
  Bots = {b1}
  Threads = {t1}
  Offered = {"create", "adminStart", "stop", "adminDelete", "update", "reconcile"}
  Overlap <- All
  Reliable = {}
  Batch = 1
  MaxTerm = 1
INVARIANTS TypeOK
PROPERTIES GoneIsFinal StoppedReclaimed DeadBotNoticed StartingResolved
