\* The network of FileServer_files: what does a broken connection leave?
CONSTANTS
  n1 = n1  n2 = n2  n3 = n3
  Nodes = {n1, n2, n3}
  Keys = {k1}
  None = None
  Links <- Star
  MaxCalls = 2
  MaxDrops = 1
  MaxHurries = 0
  MaxFaults = 1
SPECIFICATION Spec
SYMMETRY Points
INVARIANT CopiesAreHonest
CHECK_DEADLOCK FALSE
