\* Two authors that write one file of a branch other people push to, put back and
\* delete.
CONSTANTS
  p1 = p1  p2 = p2  m = m  d = d  u = u  x = x  y = y
  Author = {p1, p2}
  Path = {m, d, u}
  Blob = {x, y}
  NoEntry = NoEntry
  Nested <- MUnderD
  Trees <- SomeTrees
  Edits <- WriteM
  NoIntent = NoIntent
  MaxLength = 3
  MaxForeign = 2
SPECIFICATION Spec
SYMMETRY AuthorSymmetry
INVARIANT ReceiptsTrue
PROPERTIES
  OthersContentKept
  ReplayHarmless
