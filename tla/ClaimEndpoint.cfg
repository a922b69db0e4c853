SPECIFICATION Spec
CONSTANTS
  anthropic = anthropic
  other = other
  v1 = v1
  stock = stock
  Providers = {anthropic, other}
  Entries = {stock, v1}
  Anthropic = anthropic
  Stock = stock
  Accounts <- Telegram
  Absent = Absent
  Password = Password
  Flows = {f1}
  Offered = {"start", "upgrade"}
  Created <- Fresh
  Inputs = {}
  MaxRequests = 4
  MaxFailures = 0
  MaxCrashes = 0
INVARIANT ChatEndpointOn
CHECK_DEADLOCK FALSE
