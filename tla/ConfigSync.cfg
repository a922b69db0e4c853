SPECIFICATION Spec
CONSTANTS
  anthropic = anthropic
  other = other
  v1 = v1
  stock = stock
  Providers = {anthropic, other}
  Entries = {stock, v1}
  Anthropic = anthropic
  Stock = stock
  Accounts <- Telegram
  Absent = Absent
  Password = Password
  Flows = {f1, f2}
  Offered <- Ops
  Created <- Fresh
  Inputs <- Whole
  MaxRequests = 4
  MaxFailures = 1
  MaxCrashes = 1
SYMMETRY EitherFlow
INVARIANTS TypeOK InForce Inv
PROPERTY KeepsContract
CHECK_DEADLOCK FALSE
