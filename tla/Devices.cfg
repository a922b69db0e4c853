\* Two goroutines, one handler, one device.
SPECIFICATION Spec
CONSTANTS
    Devices = {d1}
    MaxAsks = 2
    Jobs = {j1, j2}
    Rounds = 2
    MaxFaults = 1
    Clients = {c1}
    MaxEvents = 1
INVARIANTS TypeOK OnePoller RetryIsPaired Honest ListMissesNone
PROPERTY PendingApproved
