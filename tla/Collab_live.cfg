\* An editor and a viewer of one document, one flush after another, one
\* failing call: is every update saved that no flush has overtaken?
CONSTANTS
  d1 = d1  d2 = d2  ann = ann  bob = bob  p1 = p1  p2 = p2
  u0 = u0  u1 = u1  u2 = u2  v0 = v0
  Docs = {d1}
  Users = {ann, bob}
  Updates = {u1, u2}
  VersionIds = {v1, v2, v3}
  None = None
  Pages = {p1, p2}
  Passes = {f1}
  Requests = {}
  DocOf <- OneDoc
  UserOf <- TwoUsers
  AuthorOf <- AllAtFirst
  Editors = {p1}
  MaxFailures = 1
  MaxDrops = 0
  MaxRestarts = 0
SPECIFICATION FairSpec
PROPERTY SettledEditsAreSaved
PROPERTY PagesConverge
CHECK_DEADLOCK FALSE
