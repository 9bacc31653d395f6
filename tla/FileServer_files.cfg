\* One node connected to two others, which may come at any time: two calls,
\* lost files, and one broken connection or one step that comes too early.
CONSTANTS
  n1 = n1  n2 = n2  n3 = n3
  Nodes = {n1, n2, n3}
  Keys = {k1}
  None = None
  Links <- Star
  MaxCalls = 2
  MaxDrops = 1
  MaxHurries = 1
  MaxFaults = 1
SPECIFICATION Spec
SYMMETRY Points
INVARIANT TypeOK
INVARIANT CopiesAreWhole
CHECK_DEADLOCK FALSE
