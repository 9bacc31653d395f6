\* No failure at all: is every update the server accepts saved in the end?
CONSTANTS
  d1 = d1  d2 = d2  ann = ann  bob = bob  p1 = p1  p2 = p2
  u0 = u0  u1 = u1  u2 = u2  v0 = v0
  Docs = {d1}
  Users = {ann, bob}
  Updates = {u1, u2}
  VersionIds = {v1, v2}
  None = None
  Pages = {p1, p2}
  Passes = {f1}
  Requests = {}
  DocOf <- OneDoc
  UserOf <- TwoUsers
  AuthorOf <- AllAtFirst
  Editors = {p1}
  MaxFailures = 0
  MaxDrops = 0
  MaxRestarts = 0
SPECIFICATION FairSpec
PROPERTY AcceptedEditsAreSaved
CHECK_DEADLOCK FALSE
