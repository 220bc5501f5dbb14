\* Two clients read and append; pushes are killed and arrive late.
CONSTANTS
  c1 = c1  c2 = c2  e = e  clash = clash  f = f  i = i  k = k
  Client = {c1, c2}
  Fact = {e, clash, f}
  IdOf <- Identities
  SizeOf <- Sizes
  Limit = 3
  MaxRevision = 2
  NoCall = NoCall
  NoReply = NoReply
SPECIFICATION Spec
SYMMETRY ClientSymmetry
INVARIANTS
  StoreInv
  StaysReadable
PROPERTY ImplementsStore
