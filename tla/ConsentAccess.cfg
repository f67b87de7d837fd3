SPECIFICATION Spec
CONSTANTS
  Workers = {w1, w2}
  Approvers = {a1, a2}
  Payloads = {p1}
  Dark = {p1}
  None = None
  MaxTrail = 4
CHECK_DEADLOCK FALSE
INVARIANTS ApprovedByQuorum ReadsWithinGrant LastVerdictHolds LockedAppendsNeverCollide
PROPERTY RequestsEnd
