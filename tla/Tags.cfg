SPECIFICATION Spec
CONSTANTS
  Account = {ann, bob}
  Environment = {e1, e2}
  Tag = {t1, t2, t3}
  Name = {blue, green}
  Place = {here, there}
  Request = {r1}
  None = None
SYMMETRY Symmetries
INVARIANT LinksAgree
PROPERTIES CatalogueSpec
CHECK_DEADLOCK FALSE
