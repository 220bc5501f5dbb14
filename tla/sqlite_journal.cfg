\* Three processes over one file, reading and appending beside each other.
CONSTANTS
  c1 = c1  c2 = c2  c3 = c3  e = e  clash = clash  f = f  i = i  k = k
  Client = {c1, c2, c3}
  Fact = {e, clash, f}
  IdOf <- Identities
  MaxRevision = 2
  NoCall = NoCall
  NoReply = NoReply
SPECIFICATION Spec
SYMMETRY ClientSymmetry
INVARIANT TableInv
PROPERTY ImplementsStore
