SPECIFICATION Spec
CONSTANTS
  Env = {e}
  Content = {c1, c2}
  Type = {x, y}
  Req = {r1, r2}
  Editor = {d}
  MaxRevisions = 2
SYMMETRY Symmetric
CONSTRAINT Followed
INVARIANTS TypeOK RowShowsRevision ConfigAgrees
PROPERTIES FailedSaveRestores
