CONSTANTS
  e1 = e1
  e2 = e2
  r1 = r1
  r2 = r2
  a1 = a1
  a2 = a2
  d1 = d1
  d2 = d2
  Env = {e1}
  Owner = {a1}
  Dir = {d1}
  Req = {r1, r2}
  MaxOps = 1
  Found = {{}, {"installed", "package", "running"}}
  StoreMayFail = FALSE
  Silent = FALSE
  Edited = FALSE
SPECIFICATION Spec
PROPERTY DeleteOnlyIdle
