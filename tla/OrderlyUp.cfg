SPECIFICATION Spec
CONSTANTS
  b1 = b1
  b2 = b2
  NoBot = NoBot
  Bots = {b1}
  Threads = {t1, t2}
  Offered <- Ops
  Overlap <- UpOverlap
  Reliable = {b1}
  Batch = 1
  MaxTerm = 2
INVARIANTS Inv Settled
PROPERTIES KeepsContract
SYMMETRY Perms
