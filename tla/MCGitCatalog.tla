------------------------------ MODULE MCGitCatalog ------------------------------
(* An instance of module GitCatalog for TLC: a managed file m under a directory *)
(* d that may be a file instead, and a file u that is somebody else's.          *)
EXTENDS GitCatalog, TLC

CONSTANTS p1, p2, m, d, u, x, y

MUnderD == {<<d, m>>}
ThreeFiles(inM, inD, inU) == (m :> inM) @@ (d :> inD) @@ (u :> inU)
SomeTrees == {ThreeFiles(NoEntry, NoEntry, y), ThreeFiles(x, NoEntry, x),
              ThreeFiles(NoEntry, x, x)}
WriteM == {m :> x}
AuthorSymmetry == Permutations({p1, p2})
=============================================================================
