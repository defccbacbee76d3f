SPECIFICATION Spec
CONSTANTS
  User = {root, a}
  Admins = {root, a}
  Root = root
  Session = {s1, s2}
  Address = {ip}
  Request = {r1, r2}
  Guessed = {a}
  Tries = 1
SYMMETRY Symmetric
INVARIANTS AdministratorRemains NothingOrphaned OutdatedIsUseless GuessesBounded
