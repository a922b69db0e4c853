SPECIFICATION Spec
CONSTANTS
  x = x
  y = y
  platform = platform
  private = private
  Requests = {r1, r2}
  Bots = {b1}
  Names = {x, y}
  Keys = {platform, private}
  Defaults <- AdminSettings
  Choices <- OwnerSettings
  None = None
  MaxUpdates = 3
  MaxCrashes = 1
SYMMETRY Symmetric
INVARIANTS TypeOK OwnerKept ProvidersKept
PROPERTY RetryCompletes
CHECK_DEADLOCK FALSE
