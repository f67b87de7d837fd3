\* Two organisations that name the same trace, record and erase the same
\* content, and an erasure that loses its slot and tries again.
SPECIFICATION FairSpec
CONSTANTS
  Workers = {w1, w2}
  Orgs = {a, b}
  Traces = {t}
  Payloads = {p}
  Decision = decision
  None = none
  MaxSeq = 3
  MaxKeys = 0
INVARIANTS ErasureEvidenced
PROPERTIES EveryRequestEnds ImplementsLedger ErasureIsForever
