SPECIFICATION Spec
CONSTANTS
  Requests = {p1, p2, p3}
  QRs = {q1, q2}
  Accounts = {a1}
  None = None
  MaxFaults = 1
SYMMETRY Symmetric
INVARIANTS TypeOK SessionUnused NamedIsComplete GoalReached
