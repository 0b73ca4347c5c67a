SPECIFICATION Spec
CONSTANTS
  stable = stable
  beta = beta
  Channels = {stable, beta}
  MaxPublications = 4
  MaxLag = 1
  Times = {0, 3}
  Lifetime = 2
  MaxRoots = 2
  MaxAdvance = 2
  MaxRecords = 2
SYMMETRY Symmetry
INVARIANT RotationAccepted
