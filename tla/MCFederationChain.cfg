CONSTANTS
  z1 = z1
  z2 = z2
  z3 = z3
  a1 = a1
  a2 = a2
  a3 = a3
  a4 = a4
  p = p
  l1 = l1
  l2 = l2
  h1 = h1
  h2 = h2
  Nobody = Nobody
  Workspace = {p, l1, l2}
  Zordon = {z1, z2, z3}
  Cleaner = {}
  Chain <- TwoChains
  Want <- TwoHashes
  Alpha = {a1, a2, a3, a4}
  Home <- TwoHomes
  Wrapped = TRUE
  MaxCrash = 0
SPECIFICATION Spec
PROPERTY ParentsKept
