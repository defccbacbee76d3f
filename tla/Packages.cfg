SPECIFICATION Spec
CONSTANTS
  Owner = {a, b}
  Env = {e}
  Content = {p, q, r, y}
  Yaml = {y}
  Retain = 2
  MaxVersions = 3
SYMMETRY Symmetric
INVARIANTS CurrentReadable RowsHaveFiles RestIsTidy ReferencedKept
PROPERTIES PruneKeepsNewest FormatStays
