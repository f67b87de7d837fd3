\* Two decisions on the trace, by any request, and their resolutions.
SPECIFICATION Spec
CONSTANTS
  Workers = {w1, w2}
  Requests = {"gate", "replay", "precheck", "resolve"}
  Rulings <- MCRulings
  None = None
  Limit = 2
  MaxDecisions = 2
  MaxEvents = 5
SYMMETRY Symmetry
INVARIANT RedBlocksUntilApproved
