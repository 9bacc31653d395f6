\* An editor and a viewer: two passes, a save or a restore, one lost connection
\* and one restart of the backend, anywhere.
CONSTANTS
  d1 = d1  d2 = d2  ann = ann  bob = bob  p1 = p1  p2 = p2
  u0 = u0  u1 = u1  u2 = u2  v0 = v0
  Docs = {d1}
  Users = {ann, bob}
  Updates = {u1}
  VersionIds = {v1, v2}
  None = None
  Pages = {p1, p2}
  Passes = {f1, f2}
  Requests = {r1}
  DocOf <- OneDoc
  UserOf <- TwoUsers
  AuthorOf <- AllAtFirst
  Editors = {p1}
  MaxFailures = 0
  MaxDrops = 1
  MaxRestarts = 1
SPECIFICATION Spec
SYMMETRY Interchangeable
INVARIANT AuthorsAreEditors
PROPERTY UsesStorage
CHECK_DEADLOCK FALSE
