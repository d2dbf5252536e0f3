SPECIFICATION Spec
CONSTANTS
  Clients = {c1, c2, c3}
  Nobody = nobody
INVARIANT MutualExclusion
PROPERTIES LockRefined OrphanRecovered
