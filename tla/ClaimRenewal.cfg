SPECIFICATION Spec
CONSTANTS
  b1 = b1
  b2 = b2
  NoBot = NoBot
  Bots = {b1}
  Threads = {t1}
  Offered <- Ops
  Overlap <- CleanRenew
  Reliable = {b1}
  Batch = 1
  MaxTerm = 2
PROPERTIES OnlyExpiredAreCleaned
