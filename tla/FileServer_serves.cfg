\* Two nodes: three calls, one broken connection, lost files, and goroutines
\* that go on.
CONSTANTS
  n1 = n1  n2 = n2  n3 = n3
  Nodes = {n1, n2}
  Keys = {k1}
  None = None
  Links <- Pair
  MaxCalls = 3
  MaxDrops = 1
  MaxHurries = 0
  MaxFaults = 1
SPECIFICATION FairSpec
PROPERTY StoresReplicate
PROPERTY GetsReturn
PROPERTY ReadersResume
CHECK_DEADLOCK FALSE
