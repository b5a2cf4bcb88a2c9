SPECIFICATION ChainsSpec
CONSTANTS
  Recorders = {s1, s2}
  Runs = {r1, r2}
  TenantChain = tenant
  Facts = {started, finished}
  Anchored = anchored
  MaxSeq = 4
SYMMETRY MCSymmetry
INVARIANTS
  IntactVerifies
  RemovalFound
  RewriteFound
CHECK_DEADLOCK FALSE
