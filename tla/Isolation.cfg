SPECIFICATION Spec
CONSTANTS
  b1 = b1
  b2 = b2
  NoBot = NoBot
  Bots = {b1, b2}
  Threads = {t1}
  Offered = {"create", "start", "stop", "restartAll", "cleanup", "reconcile"}
  Overlap <- OneOrderly
  Reliable = {b1}
  Batch = 1
  MaxTerm = 1
INVARIANTS Settled
