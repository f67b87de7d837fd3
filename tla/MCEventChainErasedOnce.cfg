SPECIFICATION Spec
CONSTANTS
  Workers = {w1, w2}
  Orgs = {a}
  Traces = {t}
  Payloads = {p}
  Decision = decision
  None = none
  MaxSeq = 3
  MaxKeys = 0
INVARIANTS ErasedOnce
CHECK_DEADLOCK FALSE
