SPECIFICATION Spec
CONSTANTS
  Workers = {w1, w2}
  Nobody = Nobody
  Stale = Stale
  MaxVersion = 2
  Blanks = {}
  Notices = {1}
  Reverts = TRUE
  MaxFaults = 0
INVARIANTS
  CurrentIsIngested
