\* One organisation, two traces: concurrent appends, also in one transaction
\* over both traces, and the deadlocks this leads to.
SPECIFICATION Spec
CONSTANTS
  Workers = {w1, w2}
  Orgs = {a}
  Traces = {t, u}
  Payloads = {p}
  Decision = decision
  None = none
  MaxSeq = 2
  MaxKeys = 1
SYMMETRY Symmetry
INVARIANTS TypeOK SeqsContiguous OutputFollowsDecision ReplayVerifies
