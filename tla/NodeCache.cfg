SPECIFICATION Spec
CONSTANTS
  p1 = p1
  p2 = p2
  p3 = p3
  n1 = n1
  big = big
  Page <- MCPage
  SmallNode <- MCNode
  BigNode <- MCBig
  Unwritten = Unwritten
  Garbage = Garbage
  Truncated = Truncated
  default_cache_size = 2
INVARIANTS
  TypeOK
  NoDuplicates
  CacheCoherent
PROPERTY
  ImplementsMemory
