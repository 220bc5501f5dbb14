\* Two processes that store and read two contents, one of which has its name
\* taken by something else.
CONSTANTS
  p1 = p1  p2 = p2  c = c  d = d
  Process = {p1, p2}
  Content = {c, d}
  Damaged = {d}
  Broken = Broken
  MaxFiles = 4
SPECIFICATION Spec
SYMMETRY ProcessSymmetry
INVARIANTS
  ContentInv
  NamesComplete
  KeptSafe
  TemporariesOwned
