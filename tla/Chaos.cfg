SPECIFICATION RenewalSpec
CONSTANTS
  NoBot = NoBot
  Bots = {b1}
  Threads = {t1, t2}
  Offered = {"create", "provision", "adminDelete", "status", "update", "restartAll", "cleanup"}
  Overlap <- All
  Reliable = {}
  Batch = 1
  MaxTerm = 3
INVARIANTS PaidTermKept
PROPERTIES GoneIsFinal
SYMMETRY Perms
\* When the last bot is removed nothing is left to do.
CHECK_DEADLOCK FALSE
