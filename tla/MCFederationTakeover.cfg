CONSTANTS
  z1 = z1
  z2 = z2
  z3 = z3
  a1 = a1
  a2 = a2
  a3 = a3
  a4 = a4
  p = p
  l1 = l1
  l2 = l2
  h1 = h1
  h2 = h2
  Nobody = Nobody
  Workspace = {l1}
  Zordon = {z1, z2, z3}
  Cleaner = {z3}
  Chain <- OneChain
  Want <- SameHashes
  Alpha = {a1, a2, a3}
  Home <- OneHome
  Wrapped = TRUE
  MaxCrash = 1
SPECIFICATION Spec
INVARIANT NoTwoGenerations
INVARIANT ReachesItsOwn
