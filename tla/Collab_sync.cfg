\* Two editors join a document that has a version, while it is edited,
\* flushed and saved by a request, with one failing call.
CONSTANTS
  d1 = d1  d2 = d2  ann = ann  bob = bob  p1 = p1  p2 = p2
  u0 = u0  u1 = u1  u2 = u2  v0 = v0
  Docs = {d1}
  Users = {ann, bob}
  Updates = {u0, u1}
  VersionIds = {v0, v1, v2}
  None = None
  Pages = {p1, p2}
  Passes = {f1}
  Requests = {r1}
  DocOf <- OneDoc
  UserOf <- TwoUsers
  AuthorOf <- SecondAtOther
  Editors = {p1, p2}
  MaxFailures = 1
  MaxDrops = 0
  MaxRestarts = 0
SPECIFICATION SpecSaved
SYMMETRY Interchangeable
INVARIANT TypeOK
INVARIANT NoGap
INVARIANT NothingForgotten
CHECK_DEADLOCK FALSE
