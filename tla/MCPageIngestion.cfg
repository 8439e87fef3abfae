SPECIFICATION MCSpec
CONSTANTS
  Workers = {w1, w2}
  Nobody = Nobody
  Stale = Stale
  MaxVersion = 3
  Blanks = {2}
  Notices = {3}
  Reverts = FALSE
  MaxFaults = 2
INVARIANTS
  CurrentIsIngested
PROPERTIES
  VersionsFollowRow
  SuccessIsIngested
  EventuallyCurrent
