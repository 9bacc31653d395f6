\* Two writers and a reader over two documents, three versions, against the
\* abstract version log.
CONSTANTS
  Docs = {d1, d2}
  Users = {ann}
  Updates = {u1}
  VersionIds = {v1, v2, v3}
  Jobs = {j1, j2}
  Readers = {r1}
  None = None
SPECIFICATION Spec
SYMMETRY Interchangeable
INVARIANT TypeOK
INVARIANT RowsHaveTheirBlob
INVARIANT ReadsAreServed
INVARIANT HeadHasRow
INVARIANT ParentPrecedesChild
PROPERTY RestoreCopies
PROPERTY ImplementsVersionLog
