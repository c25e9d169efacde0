\* Two requests at a time, three in all, for one role and two instances; two
\* threads pick six times beside them.
CONSTANTS
  r1 = r1
  a1 = a1
  a2 = a2
  Roles = {r1}
  Arns = {a1, a2}
  Threads = {t1, t2}
  Pickers = {p1, p2}
  Environ <- MCEnviron
  Deployable <- MCDeployable
  MaxOps = 3
  MaxPicks = 6
SYMMETRY Symmetry
SPECIFICATION FleetSpec
INVARIANTS
  NoInstanceStarves
PROPERTIES
  OperationsAreAtomic
\* All the requests may have been answered.
CHECK_DEADLOCK FALSE
