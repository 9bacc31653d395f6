\* Two documents, two titles, three things done by the user, one failure.
CONSTANTS
  DocIds = {d1, d2}
  Titles = {a, b}
  None = None
  Untitled = a
  MaxActs = 3
  MaxFailures = 1
SPECIFICATION FairSpec
INVARIANT TypeOK
INVARIANT ListIsRight
PROPERTY LoadingEnds
CHECK_DEADLOCK FALSE
